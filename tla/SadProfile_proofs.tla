-------------------------- MODULE SadProfile_proofs --------------------------
(***************************************************************************)
(* Proofs, for both programs, every number of passes and calls, every size *)
(* of the record area and every timing of the poll loop, that the log of   *)
(* SadProfile is never ahead of the program and never exceeds its types;   *)
(* that the milestone counters are exact where the first call comes late   *)
(* enough; and that records and results are where calls and gaps last.     *)
(***************************************************************************)
EXTENDS SadProfile, TLAPS

-----------------------------------------------------------------------------
\* The invariant: how far core 0 is in the pass says how far the firmware is.

\* the types the proofs need
Numbers ==
    /\ {entered, returned, cnt20, cnt21, callCount, curExit, prevExit} \subseteq Nat
    /\ returned <= entered /\ entered <= Calls

\* the log as the firmware's boot leaves it
Cleared == callCount = 0 /\ totals = 0 /\ records = <<>>

\* the firmware that core 0 starts is one that has been stopped before
Stopped ==
    /\ pc \in {"halt", "clear", "start"} => ~running
    /\ Program # "evu_test" /\ pc \in {"read_count", "read_totals"} => ~running

\* it waits for its command, and cannot get an old one or report an old status
Started ==
    /\ pc = "start" => status = "none" /\ ~cmd
    /\ pc = "wait_started" =>
          /\ ~cmd
          /\ fpc \in {"b_cmd", "b_log", "b_started", "b_wait"}
          /\ status = IF fpc = "b_wait" THEN "started" ELSE "none"
          /\ fpc \in {"b_started", "b_wait"} => Cleared
    /\ pc \in {"configure", "trigger"} =>
          ~cmd /\ fpc = "b_wait" /\ status = "started" /\ Cleared

Triggered == InPass \/ pc = "wait_ready"

\* it reports ready before it zeroes the counters, and logs after that
Ready ==
    /\ pc = "trigger" => cnt20 = 0 /\ cnt21 = 0
    /\ pc = "wait_ready" =>
          /\ cnt20 = 0 /\ cnt21 = 0
          /\ fpc \in {"b_wait", "b_clear", "b_ready"} => status # "all_sent"
    /\ Triggered =>
          /\ fpc \in {"b_wait", "b_clear", "b_ready", "b_zero20", "b_zero21"} \cup PollSteps
          /\ fpc \notin PollSteps => Cleared
    /\ InPass =>
          /\ fpc \in {"b_zero20", "b_zero21"} \cup PollSteps
          /\ cnt21 <= returned

\* a call is logged when the exit counter has moved on from the last one logged
Logged ==
    Triggered /\ fpc \in PollSteps =>
        /\ callCount <= prevExit /\ prevExit <= cnt21
        /\ fpc \in {"e_stamp", "e_snap", "x_stamp", "x_stat", "x_totals", "x_record", "x_count"}
              => prevExit <= curExit /\ curExit <= cnt21
        /\ fpc \in {"x_stamp", "x_stat", "x_totals", "x_record", "x_count"}
              => prevExit < curExit

LogInv == Numbers /\ Stopped /\ Started /\ Ready /\ Logged

\* no call begins while the firmware is still zeroing
Late ==
    SlowStart /\ InPass =>
        /\ cnt20 = entered /\ cnt21 = returned
        /\ fpc \in {"b_zero20", "b_zero21"} => entered = 0 /\ polls = 0

-----------------------------------------------------------------------------
\* LogInv holds in every reachable state.
THEOREM LogInductive == Spec => []LogInv
<1> USE ConstantsAssumption DEF Numbers, Cleared, Stopped, Started, Ready, Logged, Triggered, InPass,
            BootSteps, PollSteps
<1>1. Init => LogInv
  BY DEF Init, LogInv
<1>2. LogInv /\ [Next]_vars => LogInv'
  <2> SUFFICES ASSUME LogInv, [Next]_vars PROVE LogInv'
    OBVIOUS
  <2> USE DEF LogInv, coreVars, logVars, localVars
  <2>1. CASE CSetRunning("halt", "clear", FALSE)
    BY <2>1 DEF CSetRunning, Go
  <2>2. CASE CClear
    BY <2>2 DEF CClear, Go
  <2>3. CASE CStart
    BY <2>3 DEF CStart, Go
  <2>4. CASE CWaitStarted
    BY <2>4 DEF CWaitStarted, Go
  <2>5. CASE CConfigure
    BY <2>5 DEF CConfigure, Go
  <2>6. CASE CTrigger
    BY <2>6 DEF CTrigger, Go
  <2>7. CASE CWaitReady
    BY <2>7 DEF CWaitReady, Go
  <2>8. CASE CEntry
    BY <2>8 DEF CEntry
  <2>9. CASE CExit
    BY <2>9 DEF CExit
  <2>10. CASE CFinish
    BY <2>10 DEF CFinish, Go
  <2>11. CASE CSetRunning("halt_end", IF Program = "evu_test" THEN "end" ELSE "read_count", FALSE)
    BY <2>11 DEF CSetRunning, Go
  <2>12. CASE CReadCount
    BY <2>12 DEF CReadCount, Go
  <2>13. CASE CReadTotals
    BY <2>13 DEF CReadTotals
  <2>14. CASE FwCmd("b_cmd", "b_log")
    BY <2>14 DEF FwCmd, Step
  <2>15. CASE FwClearLog
    BY <2>15 DEF FwClearLog, Step
  <2>16. CASE FwStatus("b_started", "b_wait", "started")
    BY <2>16 DEF FwStatus, Step
  <2>17. CASE FwWait
    BY <2>17 DEF FwWait, Step
  <2>18. CASE FwCmd("b_clear", "b_ready")
    BY <2>18 DEF FwCmd, Step
  <2>19. CASE FwStatus("b_ready", "b_zero20", "all_sent")
    BY <2>19 DEF FwStatus, Step
  <2>20. CASE FwZero20
    BY <2>20 DEF FwZero20, Step
  <2>21. CASE FwZero21
    BY <2>21 DEF FwZero21, Step
  <2>22. CASE FwReadEntry
    BY <2>22 DEF FwReadEntry, Poll, Step
  <2>23. CASE FwReadExit
    BY <2>23 DEF FwReadExit, Poll, Step, Exit
  <2>24. CASE FwEntryStamp
    BY <2>24 DEF FwEntryStamp, Poll, Step
  <2>25. CASE FwEntrySnap
    BY <2>25 DEF FwEntrySnap, Poll, Step, Exit
  <2>26. CASE FwExitStamp
    BY <2>26 DEF FwExitStamp, Poll, Step
  <2>27. CASE FwExitStat
    BY <2>27 DEF FwExitStat, Poll, Step
  <2>28. CASE FwTotals
    BY <2>28 DEF FwTotals, Poll, Step
  <2>29. CASE FwRecord
    BY <2>29 DEF FwRecord, Poll, Step
  <2>30. CASE FwCount
    BY <2>30 DEF FwCount, Poll, Step
  <2>31. CASE UNCHANGED vars
    BY <2>31 DEF vars
  <2>32. QED
    BY <2>1, <2>2, <2>3, <2>4, <2>5, <2>6, <2>7, <2>8, <2>9, <2>10, <2>11,
       <2>12, <2>13, <2>14, <2>15, <2>16, <2>17, <2>18, <2>19, <2>20,
       <2>21, <2>22, <2>23, <2>24, <2>25, <2>26, <2>27, <2>28, <2>29,
       <2>30, <2>31
       DEF Next, Core, Firmware, Boot, PollLoop
<1>3. QED
  BY <1>1, <1>2, PTL DEF Spec

\* The firmware never logs more calls than have ended, however its two reads and
\* the program's calls interleave.
THEOREM NeverAhead == Spec => []LogNeverAhead
<1>1. LogInv => LogNeverAhead
  BY DEF LogInv, Numbers, Ready, Cleared, Logged, Triggered, InPass, LogNeverAhead, PollSteps
<1>2. QED
  BY <1>1, LogInductive, PTL

-----------------------------------------------------------------------------
\* Late holds in every reachable state.
THEOREM LateInductive == Spec => []Late
<1> USE DEF Late, InPass, PollSteps
<1>1. Init => Late
  BY DEF Init
<1>2. LogInv /\ Late /\ [Next]_vars => Late'
  <2> SUFFICES ASSUME LogInv, Late, [Next]_vars PROVE Late'
    OBVIOUS
  <2> USE DEF LogInv, Numbers, Ready, Triggered, coreVars, logVars, localVars, Elapsed
  <2>1. CASE CSetRunning("halt", "clear", FALSE)
    BY <2>1 DEF CSetRunning, Go
  <2>2. CASE CClear
    BY <2>2 DEF CClear, Go
  <2>3. CASE CStart
    BY <2>3 DEF CStart, Go
  <2>4. CASE CWaitStarted
    BY <2>4 DEF CWaitStarted, Go
  <2>5. CASE CConfigure
    BY <2>5 DEF CConfigure, Go
  <2>6. CASE CTrigger
    BY <2>6 DEF CTrigger, Go
  <2>7. CASE CWaitReady
    BY <2>7 DEF CWaitReady, Go
  <2>8. CASE CEntry
    BY <2>8 DEF CEntry
  <2>9. CASE CExit
    BY <2>9 DEF CExit
  <2>10. CASE CFinish
    BY <2>10 DEF CFinish, Go
  <2>11. CASE CSetRunning("halt_end", IF Program = "evu_test" THEN "end" ELSE "read_count", FALSE)
    BY <2>11 DEF CSetRunning, Go
  <2>12. CASE CReadCount
    BY <2>12 DEF CReadCount, Go
  <2>13. CASE CReadTotals
    BY <2>13 DEF CReadTotals
  <2>14. CASE FwCmd("b_cmd", "b_log")
    BY <2>14 DEF FwCmd, Step
  <2>15. CASE FwClearLog
    BY <2>15 DEF FwClearLog, Step
  <2>16. CASE FwStatus("b_started", "b_wait", "started")
    BY <2>16 DEF FwStatus, Step
  <2>17. CASE FwWait
    BY <2>17 DEF FwWait, Step
  <2>18. CASE FwCmd("b_clear", "b_ready")
    BY <2>18 DEF FwCmd, Step
  <2>19. CASE FwStatus("b_ready", "b_zero20", "all_sent")
    BY <2>19 DEF FwStatus, Step
  <2>20. CASE FwZero20
    BY <2>20 DEF FwZero20, Step
  <2>21. CASE FwZero21
    BY <2>21 DEF FwZero21, Step
  <2>22. CASE FwReadEntry
    BY <2>22 DEF FwReadEntry, Poll, Step
  <2>23. CASE FwReadExit
    BY <2>23 DEF FwReadExit, Poll, Step, Exit
  <2>24. CASE FwEntryStamp
    BY <2>24 DEF FwEntryStamp, Poll, Step
  <2>25. CASE FwEntrySnap
    BY <2>25 DEF FwEntrySnap, Poll, Step, Exit
  <2>26. CASE FwExitStamp
    BY <2>26 DEF FwExitStamp, Poll, Step
  <2>27. CASE FwExitStat
    BY <2>27 DEF FwExitStat, Poll, Step
  <2>28. CASE FwTotals
    BY <2>28 DEF FwTotals, Poll, Step
  <2>29. CASE FwRecord
    BY <2>29 DEF FwRecord, Poll, Step
  <2>30. CASE FwCount
    BY <2>30 DEF FwCount, Poll, Step
  <2>31. CASE UNCHANGED vars
    BY <2>31 DEF vars
  <2>32. QED
    BY <2>1, <2>2, <2>3, <2>4, <2>5, <2>6, <2>7, <2>8, <2>9, <2>10, <2>11,
       <2>12, <2>13, <2>14, <2>15, <2>16, <2>17, <2>18, <2>19, <2>20,
       <2>21, <2>22, <2>23, <2>24, <2>25, <2>26, <2>27, <2>28, <2>29,
       <2>30, <2>31
       DEF Next, Core, Firmware, Boot, PollLoop
<1>3. QED
  BY <1>1, <1>2, LogInductive, PTL DEF Spec

\* The counters are exact where the first call waits for the firmware's first
\* full iteration: that it is called ready before it zeroes them does not matter.
THEOREM Exactness == Spec => [](SlowStart => CountersExact)
<1>1. Late => (SlowStart => CountersExact)
  BY DEF Late, CountersExact
<1>2. QED
  BY <1>1, LateInductive, PTL

-----------------------------------------------------------------------------
\* Where every interval of the program lasts for a full iteration, the firmware
\* sees the milestones one by one and has processed one before the next comes.
Steady == SlowCalls /\ SlowGaps /\ SlowStart

ExitSteps == {"x_stamp", "x_stat", "x_totals", "x_record", "x_count"}

\* the last milestone is processed, or is an entry or an exit that is not
Caught == prevEntry = entered /\ prevExit = returned
AfterEntry == entered = returned + 1 /\ prevEntry = returned /\ prevExit = returned
AfterExit == entered = returned /\ prevEntry = entered /\ returned = prevExit + 1

\* before the pass the firmware has nothing to process
Idle ==
    pc = "wait_ready" /\ fpc \in PollSteps =>
        /\ prevEntry = 0 /\ prevExit = 0 /\ Cleared
        /\ fpc \in {"read_entry", "read_exit"}
        /\ fpc = "read_exit" => curEntry = 0

\* during the pass it is at most one milestone behind, and that only until it
\* has begun and completed an iteration
Tracking ==
    /\ polls \in 0 .. 2
    /\ Steady /\ InPass /\ fpc \in PollSteps =>
        /\ entered \in {returned, returned + 1}
        /\ callCount = prevExit
        /\ \/ Caught /\ fpc = "read_entry"
           \/ Caught /\ fpc = "read_exit" /\ curEntry = entered
           \/ AfterEntry /\ polls = 0 /\ fpc = "read_entry"
           \/ AfterEntry /\ polls = 0 /\ fpc = "read_exit" /\ curEntry = prevEntry
           \/ AfterEntry /\ polls = 1 /\ fpc = "read_exit" /\ curEntry = entered
           \/ AfterEntry /\ polls = 1 /\ fpc \in {"e_stamp", "e_snap"}
                 /\ curEntry = entered /\ curExit = returned
           \/ AfterExit /\ polls = 0 /\ fpc = "read_entry"
           \/ AfterExit /\ polls < 2 /\ fpc = "read_exit" /\ curEntry = entered
           \/ AfterExit /\ polls < 2 /\ fpc \in ExitSteps /\ curExit = returned

Record == [cyc : Int \X Int, stat : Int \X Int]
Typed ==
    /\ rec \in Record /\ records \in Seq(Record)
    /\ {mcycleEntry, snap, totals} \subseteq Int

\* the stamps and deltas are those of the open call, or of the one being logged
OpenCall ==
    Steady /\ InPass /\ fpc \in PollSteps =>
        /\ entered > 0 /\ (fpc = "e_snap" \/ prevEntry = entered)
              => mcycleEntry = 2 * entered - 1
        /\ entered > 0 /\ prevEntry = entered => snap = 2 * entered - 1
        /\ fpc \in ExitSteps \ {"x_stamp"} => Exact(rec.cyc, returned)
        /\ fpc \in ExitSteps \ {"x_stamp", "x_stat"} => Exact(rec.stat, returned)

\* the log has the calls before
LogExact ==
    Steady /\ InPass /\ fpc \in PollSteps =>
        /\ totals = callCount + IF fpc \in {"x_record", "x_count"} THEN 1 ELSE 0
        /\ LET logged == callCount + IF fpc = "x_count" THEN 1 ELSE 0
           IN  Len(records) = IF logged <= MaxLogRecords THEN logged ELSE MaxLogRecords
        /\ \A i \in 1 .. Len(records) : Exact(records[i].cyc, i) /\ Exact(records[i].stat, i)

\* core 0 reads the log when the last call has been logged
Reported ==
    /\ result \in [count : Nat, totals : Int]
    /\ Steady /\ SlowEnd =>
        /\ pc \in {"halt_end", "read_count", "read_totals"} =>
              returned = Calls /\ entered = Calls /\ polls = 2 /\ fpc \in PollSteps
        /\ pc = "read_totals" => result.count = Calls
        /\ pc = "end" \/ (pc = "halt_end" /\ Program = "evu_test")
              => result = [count |-> Calls, totals |-> Calls]

-----------------------------------------------------------------------------
\* Idle holds in every reachable state.
THEOREM IdleInductive == Spec => []Idle
<1> USE ConstantsAssumption DEF Idle, Triggered, InPass, PollSteps
<1>1. Init => Idle
  BY DEF Init, NoRecord
<1>2. LogInv /\ Idle /\ [Next]_vars => Idle'
  <2> SUFFICES ASSUME LogInv, Idle, [Next]_vars PROVE Idle'
    OBVIOUS
  <2> USE DEF LogInv, Numbers, Ready, Cleared, coreVars, logVars, localVars, Started
  <2>1. CASE CSetRunning("halt", "clear", FALSE)
    BY <2>1 DEF CSetRunning, Go
  <2>2. CASE CClear
    BY <2>2 DEF CClear, Go
  <2>3. CASE CStart
    BY <2>3 DEF CStart, Go
  <2>4. CASE CWaitStarted
    BY <2>4 DEF CWaitStarted, Go
  <2>5. CASE CConfigure
    BY <2>5 DEF CConfigure, Go
  <2>6. CASE CTrigger
    BY <2>6 DEF CTrigger, Go
  <2>7. CASE CWaitReady
    BY <2>7 DEF CWaitReady, Go
  <2>8. CASE CEntry
    BY <2>8 DEF CEntry
  <2>9. CASE CExit
    BY <2>9 DEF CExit
  <2>10. CASE CFinish
    BY <2>10 DEF CFinish, Go
  <2>11. CASE CSetRunning("halt_end", IF Program = "evu_test" THEN "end" ELSE "read_count", FALSE)
    BY <2>11 DEF CSetRunning, Go
  <2>12. CASE CReadCount
    BY <2>12 DEF CReadCount, Go
  <2>13. CASE CReadTotals
    BY <2>13 DEF CReadTotals
  <2>14. CASE FwCmd("b_cmd", "b_log")
    BY <2>14 DEF FwCmd, Step
  <2>15. CASE FwClearLog
    BY <2>15 DEF FwClearLog, Step
  <2>16. CASE FwStatus("b_started", "b_wait", "started")
    BY <2>16 DEF FwStatus, Step
  <2>17. CASE FwWait
    BY <2>17 DEF FwWait, Step
  <2>18. CASE FwCmd("b_clear", "b_ready")
    BY <2>18 DEF FwCmd, Step
  <2>19. CASE FwStatus("b_ready", "b_zero20", "all_sent")
    BY <2>19 DEF FwStatus, Step
  <2>20. CASE FwZero20
    BY <2>20 DEF FwZero20, Step
  <2>21. CASE FwZero21
    BY <2>21 DEF FwZero21, Step
  <2>22. CASE FwReadEntry
    BY <2>22 DEF FwReadEntry, Poll, Step
  <2>23. CASE FwReadExit
    BY <2>23 DEF FwReadExit, Poll, Step, Exit
  <2>24. CASE FwEntryStamp
    BY <2>24 DEF FwEntryStamp, Poll, Step
  <2>25. CASE FwEntrySnap
    BY <2>25 DEF FwEntrySnap, Poll, Step, Exit
  <2>26. CASE FwExitStamp
    BY <2>26 DEF FwExitStamp, Poll, Step
  <2>27. CASE FwExitStat
    BY <2>27 DEF FwExitStat, Poll, Step
  <2>28. CASE FwTotals
    BY <2>28 DEF FwTotals, Poll, Step
  <2>29. CASE FwRecord
    BY <2>29 DEF FwRecord, Poll, Step
  <2>30. CASE FwCount
    BY <2>30 DEF FwCount, Poll, Step
  <2>31. CASE UNCHANGED vars
    BY <2>31 DEF vars
  <2>32. QED
    BY <2>1, <2>2, <2>3, <2>4, <2>5, <2>6, <2>7, <2>8, <2>9, <2>10, <2>11,
       <2>12, <2>13, <2>14, <2>15, <2>16, <2>17, <2>18, <2>19, <2>20,
       <2>21, <2>22, <2>23, <2>24, <2>25, <2>26, <2>27, <2>28, <2>29,
       <2>30, <2>31
       DEF Next, Core, Firmware, Boot, PollLoop
<1> HIDE DEF Idle, Triggered, InPass, PollSteps
<1>3. QED
  BY <1>1, <1>2, LogInductive, PTL DEF Spec

\* Tracking holds in every reachable state.
THEOREM TrackingInductive == Spec => []Tracking
<1> USE ConstantsAssumption DEF Tracking, Triggered, InPass, PollSteps
<1>1. Init => Tracking
  BY DEF Init, NoRecord
<1>2. LogInv /\ Late /\ Idle /\ Tracking /\ [Next]_vars => Tracking'
  <2> SUFFICES ASSUME LogInv, Late, Idle, Tracking, [Next]_vars PROVE Tracking'
    OBVIOUS
  <2> USE DEF LogInv, Numbers, Ready, Cleared, coreVars, logVars, localVars, Late, Idle, Steady, Elapsed,
             Caught, AfterEntry, AfterExit, ExitSteps, Logged
  <2>1. CASE CSetRunning("halt", "clear", FALSE)
    BY <2>1 DEF CSetRunning, Go
  <2>2. CASE CClear
    BY <2>2 DEF CClear, Go
  <2>3. CASE CStart
    BY <2>3 DEF CStart, Go
  <2>4. CASE CWaitStarted
    BY <2>4 DEF CWaitStarted, Go
  <2>5. CASE CConfigure
    BY <2>5 DEF CConfigure, Go
  <2>6. CASE CTrigger
    BY <2>6 DEF CTrigger, Go
  <2>7. CASE CWaitReady
    BY <2>7 DEF CWaitReady, Go
  <2>8. CASE CEntry
    BY <2>8 DEF CEntry
  <2>9. CASE CExit
    BY <2>9 DEF CExit
  <2>10. CASE CFinish
    BY <2>10 DEF CFinish, Go
  <2>11. CASE CSetRunning("halt_end", IF Program = "evu_test" THEN "end" ELSE "read_count", FALSE)
    BY <2>11 DEF CSetRunning, Go
  <2>12. CASE CReadCount
    BY <2>12 DEF CReadCount, Go
  <2>13. CASE CReadTotals
    BY <2>13 DEF CReadTotals
  <2>14. CASE FwCmd("b_cmd", "b_log")
    BY <2>14 DEF FwCmd, Step
  <2>15. CASE FwClearLog
    BY <2>15 DEF FwClearLog, Step
  <2>16. CASE FwStatus("b_started", "b_wait", "started")
    BY <2>16 DEF FwStatus, Step
  <2>17. CASE FwWait
    BY <2>17 DEF FwWait, Step
  <2>18. CASE FwCmd("b_clear", "b_ready")
    BY <2>18 DEF FwCmd, Step
  <2>19. CASE FwStatus("b_ready", "b_zero20", "all_sent")
    BY <2>19 DEF FwStatus, Step
  <2>20. CASE FwZero20
    BY <2>20 DEF FwZero20, Step
  <2>21. CASE FwZero21
    BY <2>21 DEF FwZero21, Step
  <2>22. CASE FwReadEntry
    BY <2>22 DEF FwReadEntry, Poll, Step
  <2>23. CASE FwReadExit
    BY <2>23 DEF FwReadExit, Poll, Step, Exit
  <2>24. CASE FwEntryStamp
    BY <2>24 DEF FwEntryStamp, Poll, Step
  <2>25. CASE FwEntrySnap
    BY <2>25 DEF FwEntrySnap, Poll, Step, Exit
  <2>26. CASE FwExitStamp
    BY <2>26 DEF FwExitStamp, Poll, Step
  <2>27. CASE FwExitStat
    BY <2>27 DEF FwExitStat, Poll, Step
  <2>28. CASE FwTotals
    BY <2>28 DEF FwTotals, Poll, Step
  <2>29. CASE FwRecord
    BY <2>29 DEF FwRecord, Poll, Step
  <2>30. CASE FwCount
    BY <2>30 DEF FwCount, Poll, Step
  <2>31. CASE UNCHANGED vars
    BY <2>31 DEF vars
  <2>32. QED
    BY <2>1, <2>2, <2>3, <2>4, <2>5, <2>6, <2>7, <2>8, <2>9, <2>10, <2>11,
       <2>12, <2>13, <2>14, <2>15, <2>16, <2>17, <2>18, <2>19, <2>20,
       <2>21, <2>22, <2>23, <2>24, <2>25, <2>26, <2>27, <2>28, <2>29,
       <2>30, <2>31
       DEF Next, Core, Firmware, Boot, PollLoop
<1> HIDE DEF Tracking, Triggered, InPass, PollSteps
<1>3. QED
  BY <1>1, <1>2, LogInductive, LateInductive, IdleInductive, PTL DEF Spec

\* Typed holds in every reachable state.
THEOREM TypedInductive == Spec => []Typed
<1> USE ConstantsAssumption DEF Typed, Triggered, InPass, PollSteps
<1>1. Init => Typed
  BY DEF Init, NoRecord, Record
<1>2. LogInv /\ Typed /\ [Next]_vars => Typed'
  <2> SUFFICES ASSUME LogInv, Typed, [Next]_vars PROVE Typed'
    OBVIOUS
  <2> USE DEF LogInv, Numbers, coreVars, logVars, localVars, Record
  <2>1. CASE CSetRunning("halt", "clear", FALSE)
    BY <2>1 DEF CSetRunning, Go
  <2>2. CASE CClear
    BY <2>2 DEF CClear, Go
  <2>3. CASE CStart
    BY <2>3 DEF CStart, Go
  <2>4. CASE CWaitStarted
    BY <2>4 DEF CWaitStarted, Go
  <2>5. CASE CConfigure
    BY <2>5 DEF CConfigure, Go
  <2>6. CASE CTrigger
    BY <2>6 DEF CTrigger, Go
  <2>7. CASE CWaitReady
    BY <2>7 DEF CWaitReady, Go
  <2>8. CASE CEntry
    BY <2>8 DEF CEntry
  <2>9. CASE CExit
    BY <2>9 DEF CExit
  <2>10. CASE CFinish
    BY <2>10 DEF CFinish, Go
  <2>11. CASE CSetRunning("halt_end", IF Program = "evu_test" THEN "end" ELSE "read_count", FALSE)
    BY <2>11 DEF CSetRunning, Go
  <2>12. CASE CReadCount
    BY <2>12 DEF CReadCount, Go
  <2>13. CASE CReadTotals
    BY <2>13 DEF CReadTotals
  <2>14. CASE FwCmd("b_cmd", "b_log")
    BY <2>14 DEF FwCmd, Step
  <2>15. CASE FwClearLog
    BY <2>15 DEF FwClearLog, Step
  <2>16. CASE FwStatus("b_started", "b_wait", "started")
    BY <2>16 DEF FwStatus, Step
  <2>17. CASE FwWait
    BY <2>17 DEF FwWait, Step
  <2>18. CASE FwCmd("b_clear", "b_ready")
    BY <2>18 DEF FwCmd, Step
  <2>19. CASE FwStatus("b_ready", "b_zero20", "all_sent")
    BY <2>19 DEF FwStatus, Step
  <2>20. CASE FwZero20
    BY <2>20 DEF FwZero20, Step
  <2>21. CASE FwZero21
    BY <2>21 DEF FwZero21, Step
  <2>22. CASE FwReadEntry
    BY <2>22 DEF FwReadEntry, Poll, Step
  <2>23. CASE FwReadExit
    BY <2>23 DEF FwReadExit, Poll, Step, Exit
  <2>24. CASE FwEntryStamp
    BY <2>24 DEF FwEntryStamp, Poll, Step, now
  <2>25. CASE FwEntrySnap
    BY <2>25 DEF FwEntrySnap, Poll, Step, Exit, now
  <2>26. CASE FwExitStamp
    <3>1. <<mcycleEntry, now>> \in Int \X Int
      BY DEF now
    <3>2. [rec EXCEPT !.cyc = <<mcycleEntry, now>>] \in Record
      BY <3>1
    <3>3. QED
      <4> HIDE DEF Record, LogInv, now
      <4>1. QED
        BY <2>26, <3>2 DEF FwExitStamp
  <2>27. CASE FwExitStat
    <3>1. <<snap, now>> \in Int \X Int
      BY DEF now
    <3>2. [rec EXCEPT !.stat = <<snap, now>>] \in Record
      BY <3>1
    <3>3. QED
      <4> HIDE DEF Record, LogInv, now
      <4>1. QED
        BY <2>27, <3>2 DEF FwExitStat
  <2>28. CASE FwTotals
    <3>1. Length(rec.cyc) \in Int
      BY DEF Length
    <3>2. QED
      BY <2>28, <3>1 DEF FwTotals, Poll, Step
  <2>29. CASE FwRecord
    <3>1. Append(records, rec) \in Seq(Record)
      OBVIOUS
    <3>2. QED
      BY <2>29, <3>1 DEF FwRecord, Poll, Step
  <2>30. CASE FwCount
    BY <2>30 DEF FwCount, Poll, Step
  <2>31. CASE UNCHANGED vars
    BY <2>31 DEF vars
  <2>32. QED
    BY <2>1, <2>2, <2>3, <2>4, <2>5, <2>6, <2>7, <2>8, <2>9, <2>10, <2>11,
       <2>12, <2>13, <2>14, <2>15, <2>16, <2>17, <2>18, <2>19, <2>20,
       <2>21, <2>22, <2>23, <2>24, <2>25, <2>26, <2>27, <2>28, <2>29,
       <2>30, <2>31
       DEF Next, Core, Firmware, Boot, PollLoop
<1> HIDE DEF Typed, Triggered, InPass, PollSteps
<1>3. QED
  BY <1>1, <1>2, LogInductive, PTL DEF Spec

\* OpenCall holds in every reachable state.
THEOREM OpenCallInductive == Spec => []OpenCall
<1> USE ConstantsAssumption DEF OpenCall, Triggered, InPass, PollSteps
<1>1. Init => OpenCall
  BY DEF Init, NoRecord
<1>2. LogInv /\ Late /\ Idle /\ Tracking /\ Typed /\ OpenCall /\ [Next]_vars => OpenCall'
  <2> SUFFICES ASSUME LogInv, Late, Idle, Tracking, Typed, OpenCall, [Next]_vars PROVE OpenCall'
    OBVIOUS
  <2> USE DEF LogInv, Numbers, Ready, Cleared, coreVars, logVars, localVars, Idle, Late, Steady, Tracking, Caught, AfterEntry,
             AfterExit, ExitSteps, Elapsed, Exact, now, Typed, Record
  <2>1. CASE CSetRunning("halt", "clear", FALSE)
    BY <2>1 DEF CSetRunning, Go
  <2>2. CASE CClear
    BY <2>2 DEF CClear, Go
  <2>3. CASE CStart
    BY <2>3 DEF CStart, Go
  <2>4. CASE CWaitStarted
    BY <2>4 DEF CWaitStarted, Go
  <2>5. CASE CConfigure
    BY <2>5 DEF CConfigure, Go
  <2>6. CASE CTrigger
    BY <2>6 DEF CTrigger, Go
  <2>7. CASE CWaitReady
    BY <2>7 DEF CWaitReady, Go
  <2>8. CASE CEntry
    BY <2>8 DEF CEntry
  <2>9. CASE CExit
    BY <2>9 DEF CExit
  <2>10. CASE CFinish
    BY <2>10 DEF CFinish, Go
  <2>11. CASE CSetRunning("halt_end", IF Program = "evu_test" THEN "end" ELSE "read_count", FALSE)
    BY <2>11 DEF CSetRunning, Go
  <2>12. CASE CReadCount
    BY <2>12 DEF CReadCount, Go
  <2>13. CASE CReadTotals
    BY <2>13 DEF CReadTotals
  <2>14. CASE FwCmd("b_cmd", "b_log")
    BY <2>14 DEF FwCmd, Step
  <2>15. CASE FwClearLog
    BY <2>15 DEF FwClearLog, Step
  <2>16. CASE FwStatus("b_started", "b_wait", "started")
    BY <2>16 DEF FwStatus, Step
  <2>17. CASE FwWait
    BY <2>17 DEF FwWait, Step
  <2>18. CASE FwCmd("b_clear", "b_ready")
    BY <2>18 DEF FwCmd, Step
  <2>19. CASE FwStatus("b_ready", "b_zero20", "all_sent")
    BY <2>19 DEF FwStatus, Step
  <2>20. CASE FwZero20
    BY <2>20 DEF FwZero20, Step
  <2>21. CASE FwZero21
    BY <2>21 DEF FwZero21, Step
  <2>22. CASE FwReadEntry
    BY <2>22 DEF FwReadEntry, Poll, Step
  <2>23. CASE FwReadExit
    BY <2>23 DEF FwReadExit, Poll, Step, Exit
  <2>24. CASE FwEntryStamp
    <3> HIDE DEF LogInv, Numbers, Ready, Cleared, Idle, Late, Typed, Record, Tracking, OpenCall, Exact
    <3>1. /\ fpc = "e_stamp" /\ fpc' = "e_snap" /\ mcycleEntry' = entered + returned
          /\ UNCHANGED <<pc, entered, returned, prevEntry>>
      BY <2>24 DEF FwEntryStamp, Poll, Step
    <3>2. Steady /\ InPass => AfterEntry
      BY <3>1 DEF Tracking
    <3>3. Steady /\ InPass => mcycleEntry' = 2 * entered' - 1 /\ prevEntry' # entered'
      BY <3>1, <3>2 DEF LogInv, Numbers
    <3>4. QED
      BY <3>1, <3>3 DEF OpenCall
  <2>25. CASE FwEntrySnap
    <3> HIDE DEF LogInv, Numbers, Ready, Cleared, Idle, Late, Typed, Record, Tracking, OpenCall, Exact
    <3>1. /\ fpc = "e_snap" /\ fpc' = Exit(curExit)
          /\ snap' = entered + returned /\ prevEntry' = curEntry
          /\ UNCHANGED <<pc, entered, returned, mcycleEntry, prevExit>>
      BY <2>25 DEF FwEntrySnap, Poll, Step
    <3>2. Steady /\ InPass => AfterEntry /\ curEntry = entered /\ curExit = prevExit
      BY <3>1 DEF Tracking
    <3>3. Steady /\ InPass => fpc' = "read_entry"
      BY <3>1, <3>2 DEF Exit
    <3>4. Steady /\ InPass => snap' = 2 * entered' - 1
      BY <3>1, <3>2 DEF LogInv, Numbers
    <3>5. Steady /\ InPass /\ entered > 0 => mcycleEntry' = 2 * entered' - 1
      BY <3>1 DEF OpenCall
    <3>6. QED
      BY <3>1, <3>3, <3>4, <3>5 DEF OpenCall
  <2>26. CASE FwExitStamp
    <3> HIDE DEF LogInv, Numbers, Ready, Cleared, Idle, Late, Typed, Record, Tracking, OpenCall, Exact
    <3>1. /\ fpc = "x_stamp" /\ fpc' = "x_stat"
          /\ rec' = [rec EXCEPT !.cyc = <<mcycleEntry, entered + returned>>]
          /\ UNCHANGED <<pc, entered, returned, mcycleEntry, snap, prevEntry>>
      BY <2>26 DEF FwExitStamp, Poll, Step
    <3>2. Steady /\ InPass => AfterExit
      BY <3>1 DEF Tracking
    <3>3. Steady /\ InPass => entered > 0
      BY <3>2 DEF LogInv, Numbers, Logged, Triggered
    <3>4. Steady /\ InPass => mcycleEntry = 2 * returned - 1 /\ snap = 2 * returned - 1
      BY <3>1, <3>2, <3>3 DEF OpenCall
    <3>5. rec'.cyc = <<mcycleEntry, entered + returned>>
      BY <3>1 DEF Typed, Record
    <3>6. Steady /\ InPass => Exact(rec'.cyc, returned')
      <4>1. Steady /\ InPass => entered + returned = 2 * returned
        BY <3>2 DEF LogInv, Numbers
      <4>2. QED
        BY <3>1, <3>4, <3>5, <4>1 DEF Exact
    <3>7. Steady /\ InPass /\ entered > 0 =>
             mcycleEntry' = 2 * entered' - 1 /\ snap' = 2 * entered' - 1
      BY <3>1, <3>2, <3>4
    <3>8. QED
      BY <3>1, <3>6, <3>7 DEF OpenCall
  <2>27. CASE FwExitStat
    <3> HIDE DEF LogInv, Numbers, Ready, Cleared, Idle, Late, Typed, Record, Tracking, OpenCall, Exact
    <3>1. /\ fpc = "x_stat" /\ fpc' = "x_totals"
          /\ rec' = [rec EXCEPT !.stat = <<snap, entered + returned>>]
          /\ UNCHANGED <<pc, entered, returned, mcycleEntry, snap, prevEntry>>
      BY <2>27 DEF FwExitStat, Poll, Step
    <3>2. Steady /\ InPass => AfterExit
      BY <3>1 DEF Tracking
    <3>3. Steady /\ InPass => entered > 0
      BY <3>2 DEF LogInv, Numbers, Logged, Triggered
    <3>4. Steady /\ InPass => mcycleEntry = 2 * returned - 1 /\ snap = 2 * returned - 1
      BY <3>1, <3>2, <3>3 DEF OpenCall
    <3>5. rec'.cyc = rec.cyc /\ rec'.stat = <<snap, entered + returned>>
      BY <3>1 DEF Typed, Record
    <3>6. Steady /\ InPass => Exact(rec'.cyc, returned')
      BY <3>1, <3>5 DEF OpenCall
    <3>7. Steady /\ InPass => Exact(rec'.stat, returned')
      <4>1. Steady /\ InPass => entered + returned = 2 * returned
        BY <3>2 DEF LogInv, Numbers
      <4>2. QED
        BY <3>1, <3>4, <3>5, <4>1 DEF Exact
    <3>8. Steady /\ InPass /\ entered > 0 =>
             mcycleEntry' = 2 * entered' - 1 /\ snap' = 2 * entered' - 1
      BY <3>1, <3>2, <3>4
    <3>9. QED
      BY <3>1, <3>6, <3>7, <3>8 DEF OpenCall
  <2>28. CASE FwTotals
    BY <2>28 DEF FwTotals, Poll, Step
  <2>29. CASE FwRecord
    BY <2>29 DEF FwRecord, Poll, Step
  <2>30. CASE FwCount
    BY <2>30 DEF FwCount, Poll, Step
  <2>31. CASE UNCHANGED vars
    BY <2>31 DEF vars
  <2>32. QED
    BY <2>1, <2>2, <2>3, <2>4, <2>5, <2>6, <2>7, <2>8, <2>9, <2>10, <2>11,
       <2>12, <2>13, <2>14, <2>15, <2>16, <2>17, <2>18, <2>19, <2>20,
       <2>21, <2>22, <2>23, <2>24, <2>25, <2>26, <2>27, <2>28, <2>29,
       <2>30, <2>31
       DEF Next, Core, Firmware, Boot, PollLoop
<1> HIDE DEF OpenCall, Triggered, InPass, PollSteps
<1>3. QED
  BY <1>1, <1>2, LogInductive, LateInductive, IdleInductive, TrackingInductive, TypedInductive, PTL DEF Spec

\* LogExact holds in every reachable state.
THEOREM LogExactInductive == Spec => []LogExact
<1> USE ConstantsAssumption DEF LogExact, Triggered, InPass, PollSteps
<1>1. Init => LogExact
  BY DEF Init, NoRecord
<1>2. LogInv /\ Late /\ Idle /\ Tracking /\ Typed /\ OpenCall /\ LogExact /\ [Next]_vars => LogExact'
  <2> SUFFICES ASSUME LogInv, Late, Idle, Tracking, Typed, OpenCall, LogExact, [Next]_vars PROVE LogExact'
    OBVIOUS
  <2> USE DEF LogInv, Numbers, Ready, Cleared, coreVars, logVars, localVars, Idle, Late, Steady, Tracking, Caught, AfterEntry,
             AfterExit, ExitSteps, Elapsed, Exact, OpenCall, Typed, Length
  <2>1. CASE CSetRunning("halt", "clear", FALSE)
    BY <2>1 DEF CSetRunning, Go
  <2>2. CASE CClear
    BY <2>2 DEF CClear, Go
  <2>3. CASE CStart
    BY <2>3 DEF CStart, Go
  <2>4. CASE CWaitStarted
    BY <2>4 DEF CWaitStarted, Go
  <2>5. CASE CConfigure
    BY <2>5 DEF CConfigure, Go
  <2>6. CASE CTrigger
    BY <2>6 DEF CTrigger, Go
  <2>7. CASE CWaitReady
    BY <2>7 DEF CWaitReady, Go
  <2>8. CASE CEntry
    BY <2>8 DEF CEntry
  <2>9. CASE CExit
    BY <2>9 DEF CExit
  <2>10. CASE CFinish
    BY <2>10 DEF CFinish, Go
  <2>11. CASE CSetRunning("halt_end", IF Program = "evu_test" THEN "end" ELSE "read_count", FALSE)
    BY <2>11 DEF CSetRunning, Go
  <2>12. CASE CReadCount
    BY <2>12 DEF CReadCount, Go
  <2>13. CASE CReadTotals
    BY <2>13 DEF CReadTotals
  <2>14. CASE FwCmd("b_cmd", "b_log")
    BY <2>14 DEF FwCmd, Step
  <2>15. CASE FwClearLog
    BY <2>15 DEF FwClearLog, Step
  <2>16. CASE FwStatus("b_started", "b_wait", "started")
    BY <2>16 DEF FwStatus, Step
  <2>17. CASE FwWait
    BY <2>17 DEF FwWait, Step
  <2>18. CASE FwCmd("b_clear", "b_ready")
    BY <2>18 DEF FwCmd, Step
  <2>19. CASE FwStatus("b_ready", "b_zero20", "all_sent")
    BY <2>19 DEF FwStatus, Step
  <2>20. CASE FwZero20
    BY <2>20 DEF FwZero20, Step
  <2>21. CASE FwZero21
    BY <2>21 DEF FwZero21, Step
  <2>22. CASE FwReadEntry
    BY <2>22 DEF FwReadEntry, Poll, Step
  <2>23. CASE FwReadExit
    BY <2>23 DEF FwReadExit, Poll, Step, Exit
  <2>24. CASE FwEntryStamp
    BY <2>24 DEF FwEntryStamp, Poll, Step
  <2>25. CASE FwEntrySnap
    BY <2>25 DEF FwEntrySnap, Poll, Step, Exit
  <2>26. CASE FwExitStamp
    BY <2>26 DEF FwExitStamp, Poll, Step
  <2>27. CASE FwExitStat
    BY <2>27 DEF FwExitStat, Poll, Step
  <2>28. CASE FwTotals
    <3> SUFFICES ASSUME Steady, InPass PROVE LogExact'
      BY <2>28 DEF FwTotals, Poll, Step
    <3>1. Length(rec.cyc) = 1
      BY <2>28 DEF FwTotals, Poll, Step
    <3>2. fpc = "x_totals" /\ fpc' = "x_record" /\ totals' = totals + 1
      BY <2>28, <3>1 DEF FwTotals, Poll, Step
    <3>3. UNCHANGED <<callCount, records>>
      BY <2>28 DEF FwTotals
    <3>4. totals = callCount /\ UNCHANGED <<callCount, records>>
      BY <3>2, <3>3
    <3>5. QED
      <4> HIDE DEF LogInv, Late, Idle, Tracking, Typed, OpenCall, Exact
      <4>1. QED
        BY <3>2, <3>4
  <2>29. CASE FwRecord
    <3> SUFFICES ASSUME Steady, InPass PROVE LogExact'
      BY <2>29 DEF FwRecord, Poll, Step
    <3>1. fpc = "x_record" /\ fpc' = "x_count" /\ callCount = returned - 1
      BY <2>29 DEF FwRecord, Poll, Step
    <3>2. callCount' = callCount /\ totals' = callCount + 1
      BY <2>29, <3>1 DEF FwRecord
    <3>3. Exact(rec.cyc, callCount + 1) /\ Exact(rec.stat, callCount + 1)
      BY <3>1
    <3>4. \A i \in 1 .. Len(records) : Exact(records[i].cyc, i) /\ Exact(records[i].stat, i)
      BY <3>1
    <3>5. CASE callCount < MaxLogRecords
      <4>1. Len(records) = callCount /\ records' = Append(records, rec)
        <5> HIDE DEF LogInv, Late, Idle, Tracking, Typed, OpenCall, Exact
        <5>1. QED
          BY <2>29, <3>1, <3>5 DEF FwRecord
      <4>2. Len(records') = callCount + 1 /\ records'[callCount + 1] = rec
        BY <4>1
      <4>3. \A i \in 1 .. Len(records) : records'[i] = records[i]
        BY <4>1
      <4>4. \A i \in 1 .. Len(records') :
               Exact(records'[i].cyc, i) /\ Exact(records'[i].stat, i)
        <5> HIDE DEF Exact
        <5>1. QED
          BY <3>3, <3>4, <4>1, <4>2, <4>3
      <4>5. Len(records') = IF callCount + 1 <= MaxLogRecords
                            THEN callCount + 1 ELSE MaxLogRecords
        BY <3>5, <4>2
      <4>6. QED
        <5> HIDE DEF LogInv, Late, Idle, Tracking, Typed, OpenCall, Exact
        <5>1. QED
          BY <3>1, <3>2, <4>4, <4>5
    <3>6. CASE ~(callCount < MaxLogRecords)
      <4>1. Len(records) = MaxLogRecords /\ records' = records
        <5> HIDE DEF LogInv, Late, Idle, Tracking, Typed, OpenCall, Exact
        <5>1. QED
          BY <2>29, <3>1, <3>6 DEF FwRecord
      <4>2. Len(records') = IF callCount + 1 <= MaxLogRecords
                            THEN callCount + 1 ELSE MaxLogRecords
        BY <3>6, <4>1
      <4>3. QED
        <5> HIDE DEF LogInv, Late, Idle, Tracking, Typed, OpenCall, Exact
        <5>1. QED
          BY <3>1, <3>2, <3>4, <4>1, <4>2
    <3>7. QED
      BY <3>5, <3>6
  <2>30. CASE FwCount
    <3> HIDE DEF LogInv, Numbers, Ready, Cleared, Idle, Late, Typed, Tracking, OpenCall, LogExact, Exact
    <3>1. /\ fpc = "x_count" /\ fpc' = "read_entry" /\ callCount' = callCount + 1
          /\ UNCHANGED <<pc, totals, records>>
      BY <2>30 DEF FwCount, Poll, Step
    <3>2. CASE Steady /\ InPass
      <4>1. /\ totals = callCount + 1
            /\ Len(records) = IF callCount + 1 <= MaxLogRecords
                              THEN callCount + 1 ELSE MaxLogRecords
            /\ \A i \in 1 .. Len(records) :
                  Exact(records[i].cyc, i) /\ Exact(records[i].stat, i)
        BY <3>1, <3>2 DEF LogExact
      <4>2. callCount' \in Nat
        BY <3>1 DEF LogInv, Numbers
      <4>3. QED
        BY <3>1, <4>1, <4>2 DEF LogExact
    <3>3. CASE ~(Steady /\ InPass)
      BY <3>1, <3>3 DEF LogExact, Steady
    <3>4. QED
      BY <3>2, <3>3
  <2>31. CASE UNCHANGED vars
    BY <2>31 DEF vars
  <2>32. QED
    BY <2>1, <2>2, <2>3, <2>4, <2>5, <2>6, <2>7, <2>8, <2>9, <2>10, <2>11,
       <2>12, <2>13, <2>14, <2>15, <2>16, <2>17, <2>18, <2>19, <2>20,
       <2>21, <2>22, <2>23, <2>24, <2>25, <2>26, <2>27, <2>28, <2>29,
       <2>30, <2>31
       DEF Next, Core, Firmware, Boot, PollLoop
<1> HIDE DEF LogExact, Triggered, InPass, PollSteps
<1>3. QED
  BY <1>1, <1>2, LogInductive, LateInductive, IdleInductive, TrackingInductive,
     TypedInductive, OpenCallInductive, PTL DEF Spec

\* Reported holds in every reachable state.
THEOREM ReportedInductive == Spec => []Reported
<1> USE ConstantsAssumption DEF Reported, Triggered, InPass, PollSteps
<1>1. Init => Reported
  BY DEF Init, NoRecord
<1>2. LogInv /\ Late /\ Tracking /\ Typed /\ LogExact /\ Reported /\ [Next]_vars => Reported'
  <2> SUFFICES ASSUME LogInv, Late, Tracking, Typed, LogExact, Reported, [Next]_vars PROVE Reported'
    OBVIOUS
  <2> USE DEF LogInv, Numbers, Ready, Cleared, coreVars, logVars, localVars, Late, Steady, Tracking, Caught, AfterEntry,
             AfterExit, ExitSteps, Elapsed, Typed, LogExact
  <2>1. CASE CSetRunning("halt", "clear", FALSE)
    BY <2>1 DEF CSetRunning, Go
  <2>2. CASE CClear
    BY <2>2 DEF CClear, Go
  <2>3. CASE CStart
    BY <2>3 DEF CStart, Go
  <2>4. CASE CWaitStarted
    BY <2>4 DEF CWaitStarted, Go
  <2>5. CASE CConfigure
    BY <2>5 DEF CConfigure, Go
  <2>6. CASE CTrigger
    BY <2>6 DEF CTrigger, Go
  <2>7. CASE CWaitReady
    BY <2>7 DEF CWaitReady, Go
  <2>8. CASE CEntry
    BY <2>8 DEF CEntry
  <2>9. CASE CExit
    BY <2>9 DEF CExit
  <2>10. CASE CFinish
    BY <2>10 DEF CFinish, Go
  <2>11. CASE CSetRunning("halt_end", IF Program = "evu_test" THEN "end" ELSE "read_count", FALSE)
    BY <2>11 DEF CSetRunning, Go
  <2>12. CASE CReadCount
    <3> HIDE DEF Late, Typed
    <3>1. /\ pc = "read_count" /\ pc' = "read_totals"
          /\ result' = [result EXCEPT !.count = callCount]
          /\ UNCHANGED <<entered, returned, polls, fpc>>
      BY <2>12 DEF CReadCount, Go
    <3>2. Steady /\ SlowEnd => callCount = Calls
      BY <3>1
    <3>3. callCount \in Nat
      BY DEF LogInv, Numbers
    <3>4. result' \in [count : Nat, totals : Int] /\ result'.count = callCount
      <4> HIDE DEF LogInv, Tracking, LogExact
      <4>1. QED
        BY <3>1, <3>3
    <3>5. QED
      <4> HIDE DEF LogInv, Tracking, LogExact
      <4>1. QED
        BY <3>1, <3>2, <3>4
  <2>13. CASE CReadTotals
    <3>1. pc = "read_totals" /\ result' = [result EXCEPT !.totals = totals]
      BY <2>13 DEF CReadTotals
    <3>2. Steady /\ SlowEnd => totals = Calls /\ result.count = Calls
      BY <3>1
    <3>3. result' \in [count : Nat, totals : Int]
      BY <3>1
    <3>4. Steady /\ SlowEnd => result' = [count |-> Calls, totals |-> Calls]
      BY <3>1, <3>2
    <3>5. QED
      BY <2>13, <3>1, <3>3, <3>4 DEF CReadTotals
  <2>14. CASE FwCmd("b_cmd", "b_log")
    BY <2>14 DEF FwCmd, Step
  <2>15. CASE FwClearLog
    BY <2>15 DEF FwClearLog, Step
  <2>16. CASE FwStatus("b_started", "b_wait", "started")
    BY <2>16 DEF FwStatus, Step
  <2>17. CASE FwWait
    BY <2>17 DEF FwWait, Step
  <2>18. CASE FwCmd("b_clear", "b_ready")
    BY <2>18 DEF FwCmd, Step
  <2>19. CASE FwStatus("b_ready", "b_zero20", "all_sent")
    BY <2>19 DEF FwStatus, Step
  <2>20. CASE FwZero20
    BY <2>20 DEF FwZero20, Step
  <2>21. CASE FwZero21
    BY <2>21 DEF FwZero21, Step
  <2>22. CASE FwReadEntry
    BY <2>22 DEF FwReadEntry, Poll, Step
  <2>23. CASE FwReadExit
    BY <2>23 DEF FwReadExit, Poll, Step, Exit
  <2>24. CASE FwEntryStamp
    BY <2>24 DEF FwEntryStamp, Poll, Step
  <2>25. CASE FwEntrySnap
    BY <2>25 DEF FwEntrySnap, Poll, Step, Exit
  <2>26. CASE FwExitStamp
    BY <2>26 DEF FwExitStamp, Poll, Step
  <2>27. CASE FwExitStat
    BY <2>27 DEF FwExitStat, Poll, Step
  <2>28. CASE FwTotals
    BY <2>28 DEF FwTotals, Poll, Step
  <2>29. CASE FwRecord
    BY <2>29 DEF FwRecord, Poll, Step
  <2>30. CASE FwCount
    BY <2>30 DEF FwCount, Poll, Step
  <2>31. CASE UNCHANGED vars
    BY <2>31 DEF vars
  <2>32. QED
    BY <2>1, <2>2, <2>3, <2>4, <2>5, <2>6, <2>7, <2>8, <2>9, <2>10, <2>11,
       <2>12, <2>13, <2>14, <2>15, <2>16, <2>17, <2>18, <2>19, <2>20,
       <2>21, <2>22, <2>23, <2>24, <2>25, <2>26, <2>27, <2>28, <2>29,
       <2>30, <2>31
       DEF Next, Core, Firmware, Boot, PollLoop
<1> HIDE DEF Reported, Triggered, InPass, PollSteps
<1>3. QED
  BY <1>1, <1>2, LogInductive, LateInductive, TrackingInductive,
     TypedInductive, LogExactInductive, PTL DEF Spec

-----------------------------------------------------------------------------
\* Where calls and gaps last for an iteration, every record measures its own call,
\* in every pass, for any number of calls, whether or not the record area is full.
THEOREM SteadyRecords == Spec => [](Steady => RecordsExact)
<1>1. LogInv /\ Typed /\ LogExact => (Steady => RecordsExact)
  <2> SUFFICES ASSUME LogInv, Typed, LogExact, Steady, InPass, NEW i \in DOMAIN records
               PROVE  Exact(records[i].cyc, i) /\ Exact(records[i].stat, i)
    BY DEF RecordsExact
  <2>1. CASE fpc \in PollSteps
    <3>1. DOMAIN records = 1 .. Len(records)
      BY DEF Typed
    <3>2. QED
      BY <2>1, <3>1 DEF LogExact
  <2>2. CASE fpc \notin PollSteps
    BY <2>2 DEF LogInv, Ready, Triggered, Cleared
  <2>3. QED
    BY <2>1, <2>2
<1>2. QED
  BY <1>1, LogInductive, TypedInductive, LogExactInductive, PTL

\* Where the end of the pass lasts for an iteration too, core 0 reads the whole
\* pass, although it halts the firmware before it waits.
THEOREM SteadyResult == Spec => [](Steady /\ SlowEnd => ResultComplete)
<1>1. Reported => (Steady /\ SlowEnd => ResultComplete)
  BY DEF Reported, ResultComplete
<1>2. QED
  BY <1>1, ReportedInductive, PTL

-----------------------------------------------------------------------------
(***************************************************************************)
(* Type correctness. The counters, the stamps and the count stay below the *)
(* calls made, and the record area below its size, because the firmware    *)
(* polls only where core 0 has triggered it in this pass.                  *)
(***************************************************************************)
\* where core 0 and the firmware are
Control ==
    /\ pc \in CoreSteps /\ pass \in 1 .. Passes /\ polls \in 0 .. 2
    /\ fpc \in BootSteps \cup PollSteps
    /\ status \in {"none", "started", "all_sent"}
    /\ pc = "end" => ~running
    /\ pc = "hung" => ~cmd /\ fpc \in {"b_cmd", "b_log", "b_started", "b_wait"}

Flags == running \in BOOLEAN /\ cmd \in BOOLEAN

\* what the firmware has read or stamped is not ahead of the program
Bounded ==
    /\ {cnt20, cnt21, curEntry, curExit, prevEntry, prevExit, callCount} \subseteq 0 .. Calls
    /\ mcycleEntry \in Stamps /\ snap \in Stamps
    /\ InPass => cnt20 <= entered
    /\ InPass /\ fpc \in PollSteps => mcycleEntry <= now /\ snap <= now
    /\ pc = "wait_ready" /\ fpc \in PollSteps => mcycleEntry = 0 /\ snap = 0

Span == {i \in Interval : i[1] <= i[2]}

\* intervals end after they begin, and the record area is not exceeded
Logs ==
    /\ rec \in [cyc : Span, stat : Span] /\ records \in Seq([cyc : Interval, stat : Interval])
    /\ totals \in Nat /\ result \in [count : Nat, totals : Nat]
    /\ Len(records) <= MaxLogRecords
    /\ Triggered /\ fpc \in PollSteps =>
          Len(records) <= callCount + IF fpc = "x_count" THEN 1 ELSE 0

\* A record appended to the log.
LEMMA Appended ==
  ASSUME NEW S, NEW log \in Seq(S), NEW r \in S
  PROVE  Append(log, r) \in Seq(S) /\ Len(Append(log, r)) = Len(log) + 1
OBVIOUS

\* The firmware polls only where core 0 has triggered it in this pass.
LEMMA PollsTriggered ==
  ASSUME LogInv, Control, running, fpc \in PollSteps
  PROVE  Triggered
BY ConstantsAssumption
   DEF LogInv, Stopped, Started, Control, CoreSteps, Triggered, InPass, PollSteps

\* Control holds in every reachable state.
THEOREM ControlInductive == Spec => []Control
<1>1. Init => Control
  <2>1. 1 \in 1 .. Passes
    BY ConstantsAssumption
  <2>. QED
    BY <2>1 DEF Init, Control, CoreSteps, BootSteps
<1>2. LogInv /\ Control /\ [Next]_vars => Control'
  <2> SUFFICES ASSUME LogInv, Control, [Next]_vars
               PROVE  Control'
    OBVIOUS
  <2> USE ConstantsAssumption DEF Control, CoreSteps, BootSteps, PollSteps
  <2>1. CASE CSetRunning("halt", "clear", FALSE) \/ CClear \/ CStart
    BY <2>1 DEF CSetRunning, CClear, CStart, Go
  <2>2. CASE CWaitStarted
    BY <2>2 DEF CWaitStarted, Go, LogInv, Started
  <2>3. CASE CConfigure \/ CTrigger \/ CWaitReady
    <3>1. /\ pc' \in {"trigger", "wait_ready", "run"} /\ polls' \in {0, polls}
          /\ UNCHANGED <<pass, fpc, status>>
      BY <2>3 DEF CConfigure, CTrigger, CWaitReady, Go
    <3>. QED
      BY <3>1
  <2>11. CASE CEntry \/ CExit
    BY <2>11 DEF CEntry, CExit
  <2>4. CASE CFinish
    BY <2>4 DEF CFinish, Go
  <2>5. CASE CSetRunning("halt_end", IF Program = "evu_test" THEN "end" ELSE "read_count", FALSE)
    BY <2>5 DEF CSetRunning, Go
  <2>6. CASE CReadCount
    BY <2>6 DEF CReadCount, Go
  <2>7. CASE CReadTotals
    <3>1. pass' \in 1 .. Passes
      BY <2>7 DEF CReadTotals
    <3>2. /\ pc = "read_totals" /\ pc' \in {"halt_end", "halt", "end"}
          /\ pc' = "end" => Program # "evu_test"
          /\ UNCHANGED <<polls, fpc, running, cmd, status>>
      BY <2>7 DEF CReadTotals
    <3>. QED
      BY <3>1, <3>2 DEF LogInv, Stopped
  <2>8. CASE Boot
    <3>1. UNCHANGED <<pc, pass, polls, running>>
      BY <2>8 DEF Boot, FwCmd, FwClearLog, FwStatus, FwWait, FwZero20, FwZero21, Step, coreVars
    <3>2. /\ fpc' \in BootSteps \cup PollSteps /\ (~cmd => ~cmd')
          /\ status' \in {"started", "all_sent", status}
      BY <2>8 DEF Boot, FwCmd, FwClearLog, FwStatus, FwWait, FwZero20, FwZero21, Step
    <3>3. ~cmd /\ fpc \in {"b_cmd", "b_log", "b_started", "b_wait"} =>
             fpc' \in {"b_cmd", "b_log", "b_started", "b_wait"}
      BY <2>8 DEF Boot, FwCmd, FwClearLog, FwStatus, FwWait, FwZero20, FwZero21, Step
    <3>4. running
      BY <2>8 DEF Boot, FwCmd, FwClearLog, FwStatus, FwWait, FwZero20, FwZero21, Step
    <3>. QED
      BY <3>1, <3>2, <3>3, <3>4
  <2>9. CASE PollLoop
    <3>1. /\ running /\ fpc \in PollSteps /\ fpc' \in PollSteps
          /\ UNCHANGED <<pc, pass, running, cmd, status>>
      BY <2>9 DEF PollLoop, FwReadEntry, FwReadExit, FwEntryStamp, FwEntrySnap, FwExitStamp,
         FwExitStat, FwTotals, FwRecord, FwCount, Poll, Step, Exit, coreVars
    <3>2. polls' = polls \/ polls' = IF polls = 2 THEN 2 ELSE polls + 1
      BY <2>9 DEF PollLoop, FwReadEntry, FwReadExit, FwEntryStamp, FwEntrySnap, FwExitStamp,
         FwExitStat, FwTotals, FwRecord, FwCount, localVars
    <3>. QED
      BY <3>1, <3>2
  <2>10. CASE UNCHANGED vars
    BY <2>10 DEF vars, coreVars
  <2>. QED
    BY <2>1, <2>2, <2>3, <2>4, <2>5, <2>6, <2>7, <2>8, <2>9, <2>10, <2>11
       DEF Next, Core, Firmware
<1>. QED
  BY <1>1, <1>2, LogInductive, PTL DEF Spec

\* Flags holds in every reachable state.
THEOREM FlagsInductive == Spec => []Flags
<1>1. Init => Flags
  BY DEF Init, Flags
<1>2. Flags /\ [Next]_vars => Flags'
  <2> SUFFICES ASSUME Flags, [Next]_vars
               PROVE  Flags'
    OBVIOUS
  <2>1. CASE Core
    <3>1. CASE \/ CSetRunning("halt", "clear", FALSE)
               \/ CSetRunning("halt_end", IF Program = "evu_test" THEN "end" ELSE "read_count",
                              FALSE)
      BY <3>1 DEF CSetRunning, Flags
    <3>2. CASE CClear \/ CStart \/ CTrigger
      BY <3>2 DEF CClear, CStart, CTrigger, Flags
    <3>3. CASE \/ CWaitStarted \/ CConfigure \/ CWaitReady \/ CEntry \/ CExit \/ CFinish
               \/ CReadCount \/ CReadTotals
      BY <3>3 DEF CWaitStarted, CConfigure, CWaitReady, CEntry, CExit, CFinish, CReadCount,
         CReadTotals, Flags
    <3>. QED
      BY <2>1, <3>1, <3>2, <3>3 DEF Core
  <2>2. CASE Boot
    BY <2>2 DEF Boot, FwCmd, FwClearLog, FwStatus, FwWait, FwZero20, FwZero21, Flags
  <2>3. CASE PollLoop
    BY <2>3 DEF PollLoop, FwReadEntry, FwReadExit, FwEntryStamp, FwEntrySnap, FwExitStamp,
       FwExitStat, FwTotals, FwRecord, FwCount, Poll, Flags
  <2>4. CASE UNCHANGED vars
    BY <2>4 DEF vars, Flags
  <2>. QED
    BY <2>1, <2>2, <2>3, <2>4 DEF Next, Firmware
<1>. QED
  BY <1>1, <1>2, PTL DEF Spec

\* Bounded holds in every reachable state.
THEOREM BoundedInductive == Spec => []Bounded
<1>1. Init => Bounded
  BY ConstantsAssumption DEF Init, Bounded, Stamps, InPass
<1>2. LogInv /\ LogInv' /\ Idle /\ Control /\ Bounded /\ [Next]_vars => Bounded'
  <2> SUFFICES ASSUME LogInv, LogInv', Idle, Control, Bounded, [Next]_vars
               PROVE  Bounded'
    OBVIOUS
  <2>0. /\ Calls \in Nat /\ entered \in Nat /\ returned \in Nat
        /\ entered <= Calls /\ returned <= entered
    BY ConstantsAssumption DEF LogInv, Numbers
  <2> USE <2>0 DEF Bounded, Stamps, InPass, PollSteps, now
  <2>1. CASE CSetRunning("halt", "clear", FALSE) \/ CClear \/ CStart \/ CWaitStarted
    BY <2>1 DEF CSetRunning, CClear, CStart, CWaitStarted, Go, logVars, localVars
  <2>2. CASE CConfigure
    BY <2>2 DEF CConfigure, Go, logVars, localVars
  <2>3. CASE CTrigger
    BY <2>3 DEF CTrigger, Go, logVars, localVars, LogInv, Started
  <2>4. CASE CWaitReady
    BY <2>4 DEF CWaitReady, Go, logVars, localVars, LogInv, Ready
  <2>5. CASE CEntry
    BY <2>5 DEF CEntry, logVars, localVars
  <2>6. CASE CExit
    <3>1. cnt21' \in 0 .. Calls
      BY <2>6 DEF CExit, LogInv, Ready, Numbers
    <3>. QED
      BY <2>6, <3>1 DEF CExit, logVars, localVars
  <2>7. CASE CFinish \/ CReadCount
    BY <2>7 DEF CFinish, CReadCount, Go, logVars, localVars
  <2>8. CASE CReadTotals
    BY <2>8 DEF CReadTotals, logVars, localVars
  <2>9. CASE CSetRunning("halt_end", IF Program = "evu_test" THEN "end" ELSE "read_count", FALSE)
    BY <2>9 DEF CSetRunning, Go, logVars, localVars
  <2>10. CASE Boot
    <3>1. UNCHANGED <<pc, entered, returned, curEntry, curExit>>
      BY <2>10 DEF Boot, FwCmd, FwClearLog, FwStatus, FwWait, FwZero20, FwZero21, Step,
         coreVars, localVars
    <3>2. /\ cnt20' \in {0, cnt20} /\ cnt21' \in {0, cnt21} /\ callCount' \in {0, callCount}
          /\ prevEntry' \in {0, prevEntry} /\ prevExit' \in {0, prevExit}
          /\ mcycleEntry' \in {0, mcycleEntry} /\ snap' \in {0, snap}
      BY <2>10 DEF Boot, FwCmd, FwClearLog, FwStatus, FwWait, FwZero20, FwZero21,
         logVars, localVars
    <3>3. fpc' \in PollSteps => mcycleEntry' = 0 /\ snap' = 0
      BY <2>10 DEF Boot, FwCmd, FwClearLog, FwStatus, FwWait, FwZero20, FwZero21, Step
    <3>. QED
      BY <3>1, <3>2, <3>3
  <2>11. CASE PollLoop
    <3>1. /\ running /\ fpc \in PollSteps /\ fpc' \in PollSteps
          /\ UNCHANGED <<pc, entered, returned, cnt20, cnt21>>
      BY <2>11 DEF PollLoop, FwReadEntry, FwReadExit, FwEntryStamp, FwEntrySnap, FwExitStamp,
         FwExitStat, FwTotals, FwRecord, FwCount, Poll, Step, Exit, coreVars
    <3>2. Triggered
      BY <3>1, PollsTriggered
    <3>3. callCount' \in 0 .. Calls
      BY <3>1, <3>2 DEF LogInv, Numbers, Logged, Triggered
    <3>4. /\ curEntry' \in {curEntry, cnt20} /\ curExit' \in {curExit, cnt21}
          /\ prevEntry' \in {prevEntry, curEntry} /\ prevExit' \in {prevExit, curExit}
      BY <2>11 DEF PollLoop, FwReadEntry, FwReadExit, FwEntryStamp, FwEntrySnap, FwExitStamp,
         FwExitStat, FwTotals, FwRecord, FwCount, localVars
    <3>5. /\ mcycleEntry' \in {mcycleEntry, entered + returned}
          /\ snap' \in {snap, entered + returned}
      BY <2>11 DEF PollLoop, FwReadEntry, FwReadExit, FwEntryStamp, FwEntrySnap, FwExitStamp,
         FwExitStat, FwTotals, FwRecord, FwCount, localVars
    <3>6. pc = "wait_ready" => UNCHANGED <<mcycleEntry, snap>>
      BY <2>11, <3>1 DEF Idle, PollLoop, FwReadEntry, FwReadExit, FwEntryStamp, FwEntrySnap,
         FwExitStamp, FwExitStat, FwTotals, FwRecord, FwCount, Poll, Step, localVars
    <3>. QED
      BY <3>1, <3>3, <3>4, <3>5, <3>6
  <2>12. CASE UNCHANGED vars
    BY <2>12 DEF vars, coreVars, logVars, localVars
  <2>. QED
    BY <2>1, <2>2, <2>3, <2>4, <2>5, <2>6, <2>7, <2>8, <2>9, <2>10, <2>11, <2>12
       DEF Next, Core, Firmware
<1>. QED
  BY <1>1, <1>2, LogInductive, IdleInductive, ControlInductive, PTL DEF Spec

\* Logs holds in every reachable state.
THEOREM LogsInductive == Spec => []Logs
<1>1. Init => Logs
  BY ConstantsAssumption
     DEF Init, Logs, NoRecord, Span, Interval, Stamps, Triggered, InPass
<1>2. LogInv /\ LogInv' /\ Idle /\ Control /\ Bounded /\ Logs /\ [Next]_vars => Logs'
  <2> SUFFICES ASSUME LogInv, LogInv', Idle, Control, Bounded, Logs, [Next]_vars
               PROVE  Logs'
    OBVIOUS
  <2>0. callCount \in Nat /\ callCount' \in Nat /\ Calls \in Nat /\ MaxLogRecords \in Nat
    BY ConstantsAssumption DEF LogInv, Numbers
  <2> DEFINE Log == <<rec, records, totals>>
  <2>1. CASE \/ CSetRunning("halt", "clear", FALSE) \/ CClear \/ CStart \/ CWaitStarted
             \/ CConfigure
    <3>1. UNCHANGED <<Log, result>> /\ ~Triggered'
      BY <2>1 DEF CSetRunning, CClear, CStart, CWaitStarted, CConfigure, Go, Triggered,
         InPass, logVars, localVars
    <3>. QED
      BY <3>1 DEF Logs
  <2>2. CASE CTrigger \/ CWaitReady
    <3>1. UNCHANGED <<Log, result, fpc, callCount>> /\ Triggered'
      BY <2>2 DEF CTrigger, CWaitReady, Go, Triggered, InPass, logVars, localVars
    <3>2. fpc \in PollSteps => Triggered
      BY <2>2 DEF CTrigger, CWaitReady, Go, Triggered, LogInv, Started, PollSteps
    <3>. QED
      BY <3>1, <3>2 DEF Logs
  <2>3. CASE CEntry \/ CExit \/ CFinish
    <3>1. UNCHANGED <<Log, result, fpc, callCount>> /\ Triggered
      BY <2>3 DEF CEntry, CExit, CFinish, Go, Triggered, InPass, logVars, localVars
    <3>. QED
      BY <3>1 DEF Logs
  <2>4. CASE CSetRunning("halt_end", IF Program = "evu_test" THEN "end" ELSE "read_count", FALSE)
    <3>1. UNCHANGED <<Log, result, fpc, callCount>> /\ Triggered
      BY <2>4 DEF CSetRunning, Go, Triggered, InPass, logVars, localVars
    <3>. QED
      BY <3>1 DEF Logs
  <2>5. CASE CReadCount
    <3>1. UNCHANGED <<Log, fpc, callCount>> /\ Triggered
      BY <2>5 DEF CReadCount, Go, Triggered, InPass, logVars, localVars
    <3>2. result' \in [count : Nat, totals : Nat]
      BY <2>0, <2>5 DEF CReadCount, Logs
    <3>. QED
      BY <3>1, <3>2 DEF Logs
  <2>6. CASE CReadTotals
    <3>1. UNCHANGED <<Log, fpc, callCount>> /\ Triggered
      BY <2>6 DEF CReadTotals, Triggered, InPass, logVars, localVars
    <3>2. result' \in [count : Nat, totals : Nat]
      BY <2>6 DEF CReadTotals, Logs
    <3>. QED
      BY <3>1, <3>2 DEF Logs
  <2>7. CASE Boot
    <3>1. UNCHANGED <<result, rec>> /\ ((records' = <<>> /\ totals' = 0) \/ UNCHANGED Log)
      BY <2>7 DEF Boot, FwCmd, FwClearLog, FwStatus, FwWait, FwZero20, FwZero21, Step,
         coreVars, logVars, localVars
    <3>2. fpc' \in PollSteps => FwZero21
      BY <2>7 DEF Boot, FwCmd, FwClearLog, FwStatus, FwWait, FwZero20, Step, PollSteps
    <3>3. FwZero21 /\ Triggered => Cleared' /\ fpc' = "read_entry"
      BY DEF FwZero21, Step, LogInv, Ready, PollSteps, Cleared, logVars
    <3>4. FwZero21 => Triggered = Triggered'
      BY DEF FwZero21, Step, coreVars, Triggered, InPass
    <3>5. <<>> \in Seq([cyc : Interval, stat : Interval]) /\ Len(<<>>) = 0
      OBVIOUS
    <3>6. CASE FwZero21
      <4>1. UNCHANGED <<rec, result, records, totals, callCount>> /\ fpc' = "read_entry"
        BY <3>6 DEF FwZero21, Step, coreVars, logVars
      <4>2. Triggered' => Len(records) = 0
        BY <3>3, <3>4, <3>6, <3>5, <4>1 DEF Cleared
      <4>. QED
        BY <2>0, <4>1, <4>2 DEF Logs
    <3>7. CASE ~FwZero21
      <4>1. fpc' \notin PollSteps
        BY <3>2, <3>7
      <4>2. CASE records' = <<>> /\ totals' = 0
        <5>1. /\ records' \in Seq([cyc : Interval, stat : Interval])
              /\ Len(records') <= MaxLogRecords /\ totals' \in Nat
          BY <2>0, <3>5, <4>2
        <5>2. rec' = rec /\ result' = result
          BY <3>1
        <5>. QED
          BY <4>1, <5>1, <5>2 DEF Logs
      <4>3. CASE UNCHANGED Log
        BY <3>1, <4>1, <4>3 DEF Logs
      <4>. QED
        BY <3>1, <4>2, <4>3
    <3>. QED
      BY <3>6, <3>7
  <2>8. CASE PollLoop
    <3>1. /\ running /\ fpc \in PollSteps /\ fpc' \in PollSteps
          /\ UNCHANGED <<pc, result>>
      BY <2>8 DEF PollLoop, FwReadEntry, FwReadExit, FwEntryStamp, FwEntrySnap, FwExitStamp,
         FwExitStat, FwTotals, FwRecord, FwCount, Poll, Step, Exit, PollSteps, coreVars
    <3>2. Triggered
      BY <3>1, PollsTriggered
    <3>3. CASE FwReadEntry \/ FwReadExit \/ FwEntryStamp \/ FwEntrySnap
      <4>1. UNCHANGED <<Log, callCount>> /\ fpc # "x_count" /\ fpc' # "x_count"
        BY <3>3 DEF FwReadEntry, FwReadExit, FwEntryStamp, FwEntrySnap, Poll, Step, Exit,
           logVars
      <4>. QED
        BY <3>1, <3>2, <4>1 DEF Logs
    <3>4. CASE FwExitStamp \/ FwExitStat
      <4>1. InPass
        BY <3>2, <3>4 DEF FwExitStamp, FwExitStat, Poll, Step, Idle, PollSteps, Triggered
      <4>2. now \in Stamps /\ <<mcycleEntry, now>> \in Span /\ <<snap, now>> \in Span
        BY <2>0, <3>1, <4>1, ConstantsAssumption
           DEF Bounded, now, LogInv, Numbers, Stamps, Interval, Span
      <4>3. rec' \in [cyc : Span, stat : Span]
        BY <3>4, <4>2 DEF FwExitStamp, FwExitStat, Logs
      <4>4. /\ UNCHANGED <<records, totals, callCount>>
            /\ fpc # "x_count" /\ fpc' # "x_count"
        BY <3>4 DEF FwExitStamp, FwExitStat, Poll, Step, logVars
      <4>. QED
        BY <3>1, <3>2, <4>3, <4>4 DEF Logs
    <3>5. CASE FwTotals
      <4>1. rec.cyc \in Span
        BY DEF Logs
      <4>2. Length(rec.cyc) \in Nat
        BY <2>0, <4>1 DEF Length, Span, Interval, Stamps
      <4>3. totals' \in Nat
        BY <3>5, <4>2 DEF FwTotals, Logs
      <4>4. /\ UNCHANGED <<records, rec, callCount>>
            /\ fpc # "x_count" /\ fpc' # "x_count"
        BY <3>5 DEF FwTotals, Poll, Step, localVars
      <4>. QED
        BY <3>1, <3>2, <4>3, <4>4 DEF Logs
    <3>6. CASE FwRecord
      <4>1. rec \in [cyc : Interval, stat : Interval]
        BY DEF Logs, Span
      <4>2. /\ fpc = "x_record" /\ fpc' = "x_count"
            /\ UNCHANGED <<callCount, totals, rec>>
            /\ records' = IF callCount < MaxLogRecords THEN Append(records, rec) ELSE records
        BY <3>6 DEF FwRecord, Poll, Step, localVars
      <4>3. /\ records \in Seq([cyc : Interval, stat : Interval])
            /\ Len(records) <= callCount /\ Len(records) <= MaxLogRecords
        BY <2>0, <3>1, <3>2, <4>2 DEF Logs
      <4>4. /\ records' \in Seq([cyc : Interval, stat : Interval])
            /\ Len(records') <= callCount + 1 /\ Len(records') <= MaxLogRecords
        <5> DEFINE R == [cyc : Interval, stat : Interval]
        <5>1. Append(records, rec) \in Seq(R) /\ Len(Append(records, rec)) = Len(records) + 1
          <6> HIDE DEF R
          <6>. QED
            BY <4>1, <4>3, Appended DEF R
        <5>2. Len(records) \in Nat
          BY <4>3
        <5> HIDE DEF R
        <5>3. CASE callCount < MaxLogRecords
          BY <2>0, <4>2, <4>3, <5>1, <5>2, <5>3 DEF R
        <5>4. CASE ~(callCount < MaxLogRecords)
          BY <2>0, <4>2, <4>3, <5>2, <5>4
        <5>. QED
          BY <5>3, <5>4
      <4>. QED
        BY <3>1, <4>2, <4>4 DEF Logs
    <3>7. CASE FwCount
      <4>1. /\ fpc = "x_count" /\ fpc' = "read_entry" /\ callCount' = callCount + 1
            /\ UNCHANGED Log
        BY <3>7 DEF FwCount, Poll, Step
      <4>. QED
        BY <2>0, <3>1, <3>2, <4>1 DEF Logs
    <3>. QED
      BY <2>8, <3>3, <3>4, <3>5, <3>6, <3>7 DEF PollLoop
  <2>9. CASE UNCHANGED vars
    BY <2>9 DEF vars, coreVars, logVars, localVars, Logs, Triggered, InPass
  <2>. QED
    BY <2>1, <2>2, <2>3, <2>4, <2>5, <2>6, <2>7, <2>8, <2>9 DEF Next, Core, Firmware
<1>. QED
  BY <1>1, <1>2, LogInductive, IdleInductive, ControlInductive, BoundedInductive, PTL DEF Spec

\* Counters, stamps, log and results keep their types: in particular the firmware
\* never counts more calls than are made, and never writes behind its record area.
THEOREM Typing == Spec => []TypeOK
<1>1. LogInv /\ Control /\ Flags /\ Bounded /\ Logs => TypeOK
  <2> SUFFICES ASSUME LogInv, Control, Flags, Bounded, Logs
               PROVE  TypeOK
    OBVIOUS
  <2>1. entered \in 0 .. Calls /\ returned \in 0 .. Calls
    BY ConstantsAssumption DEF LogInv, Numbers
  <2>2. rec \in [cyc : Interval, stat : Interval]
    BY DEF Logs, Span
  <2>. QED
    BY <2>1, <2>2 DEF TypeOK, Control, Flags, Bounded, Logs
<1>. QED
  BY <1>1, LogInductive, ControlInductive, FlagsInductive, BoundedInductive, LogsInductive, PTL

=============================================================================
