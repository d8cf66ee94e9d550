----------------------- MODULE MempolInterrupts_proofs -----------------------
(***************************************************************************)
(* Proofs that the interrupts of the steady state are delivered one for    *)
(* one: where the hardware neither repeats nor drops a request, the counts *)
(* of firmware and cores agree and the handler's log tells the truth, for  *)
(* every number of cores and every wrap of the counts.                     *)
(***************************************************************************)
EXTENDS MempolHandshake_proofs

-----------------------------------------------------------------------------
\* The count of interrupts sent, as it will be once FwMark has written it.
SentNow(c) ==
    IF idx = c /\ fpc \in {"mark_pause", "mark_resume"} THEN Inc(sent[c]) ELSE sent[c]

\* Strengthens IrqAccounting: an interrupt is pending or in service exactly while
\* the word carries a command, and the handler's copy of the word is that command.
Delivery(c) ==
    /\ hpc[c] \in {"none", "complete"} => (pending[c] <=> word[c] # "ack")
    /\ hpc[c] \in {"read", "switch", "ack"} => ~pending[c] /\ word[c] # "ack"
    /\ hpc[c] = "switch" => counterVal[c] = word[c]
    /\ pending[c] => SentNow(c) = Inc(received[c])
    /\ ~pending[c] => SentNow(c) = received[c]

\* The hardware neither repeats nor drops a request.
Reliable == ~Spurious /\ ~Lossy

DeliveryInv == Reliable => \A c \in Cores : Delivery(c)

-----------------------------------------------------------------------------
\* Without repeated and dropped requests every reachable state keeps Delivery.
THEOREM Delivered == Spec => []DeliveryInv
<1>1. Init => DeliveryInv
  BY DEF Init, InitWith, DeliveryInv, Delivery, SentNow
<1>2. TypeOK /\ HandshakeInv /\ DeliveryInv /\ [Next]_vars => DeliveryInv'
  <2> SUFFICES ASSUME Reliable, TypeOK, HandshakeInv, DeliveryInv, [Next]_vars,
                      NEW d \in Cores
               PROVE  Delivery(d)'
    BY DEF DeliveryInv
  <2>0. Delivery(d) /\ CoreInv(d)
    BY DEF DeliveryInv, HandshakeInv
  <2> USE DEF TypeOK, Delivery, SentNow, channel, coreVars, firmwareVars
  <2>1. CASE FwRead
    BY <2>0, <2>1 DEF FwRead
  <2>2. CASE FwReset
    BY <2>0, <2>2 DEF FwReset
  <2>3. CASE FwCheck
    BY <2>0, <2>3 DEF FwCheck, FwNext
  <2>4. CASE FwSendPause
    BY <2>0, <2>4 DEF FwSendPause, FwSend, Raise, Reliable, CoreInv, HandlerSteps
  <2>5. CASE FwSendResume
    BY <2>0, <2>5 DEF FwSendResume, FwSend, Raise, Reliable, CoreInv, HandlerSteps
  <2>6. CASE FwMark
    BY <2>0, <2>6 DEF FwMark, FwNext
  <2>7. ASSUME NEW c \in Cores, Work(c) PROVE Delivery(d)'
    BY <2>0, <2>7 DEF Work
  <2>8. ASSUME NEW c \in Cores, HClaim(c) PROVE Delivery(d)'
    BY <2>0, <2>8 DEF HClaim
  <2>9. ASSUME NEW c \in Cores, HRead(c) PROVE Delivery(d)'
    BY <2>0, <2>9 DEF HRead
  <2>10. ASSUME NEW c \in Cores, HPause(c) PROVE Delivery(d)'
    BY <2>0, <2>10 DEF HPause
  <2>11. ASSUME NEW c \in Cores, HResume(c) PROVE Delivery(d)'
    BY <2>0, <2>11 DEF HResume
  <2>12. ASSUME NEW c \in Cores, HIgnore(c) PROVE Delivery(d)'
    BY <2>0, <2>12 DEF HIgnore
  <2>13. ASSUME NEW c \in Cores, HAck(c) PROVE Delivery(d)'
    BY <2>0, <2>13 DEF HAck
  <2>14. ASSUME NEW c \in Cores, HComplete(c) PROVE Delivery(d)'
    BY <2>0, <2>14 DEF HComplete, HandlerSteps
  <2>15. ASSUME NEW c \in Cores, Refire(c) PROVE Delivery(d)'
    BY <2>15 DEF Refire, Reliable
  <2>16. CASE UNCHANGED vars
    BY <2>0, <2>16 DEF vars
  <2>17. QED
    BY <2>1, <2>2, <2>3, <2>4, <2>5, <2>6, <2>7, <2>8, <2>9, <2>10, <2>11,
       <2>12, <2>13, <2>14, <2>15, <2>16 DEF Next, Firmware, Handler
<1>3. QED
  BY <1>1, <1>2, Typing, Inductive, PTL DEF Spec

-----------------------------------------------------------------------------
\* The interrupts the firmware has sent are those the core has counted and the
\* one that is pending.
THEOREM Accounting == Spec => []IrqAccounting
<1>1. DeliveryInv => IrqAccounting
  <2> SUFFICES ASSUME DeliveryInv, Reliable, NEW c \in Cores
               PROVE  SentNow(c) = IF pending[c] THEN Inc(received[c]) ELSE received[c]
    BY DEF Reliable, IrqAccounting, SentNow
  <2>1. QED
    BY DEF DeliveryInv, Delivery
<1>2. QED
  BY <1>1, Delivered, PTL

\* The handler logs an interrupt as the command it then reads.
THEOREM LogTruth == Spec => []IrqLogTruthful
<1>1. TypeOK /\ HandshakeInv /\ DeliveryInv => IrqLogTruthful
  <2> SUFFICES ASSUME TypeOK, HandshakeInv, DeliveryInv, Reliable,
                      NEW c \in Cores, hpc[c] = "read"
               PROVE  word[c] = IF paused[c] THEN "resume" ELSE "pause"
    BY DEF Reliable, IrqLogTruthful
  <2>1. Delivery(c) /\ CoreInv(c)
    BY DEF DeliveryInv, HandshakeInv
  <2>2. QED
    BY <2>1 DEF Delivery, CoreInv, TypeOK, Words
<1>2. QED
  BY <1>1, Delivered, Inductive, Typing, PTL
=============================================================================
