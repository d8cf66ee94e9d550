------------------------ MODULE MempolHandshake_proofs ------------------------
(***************************************************************************)
(* Proofs, for every number of cores, every set of program points, every   *)
(* budget and every traffic, with spurious and dropped interrupts allowed, *)
(* of the safety properties of MempolHandshake.                            *)
(***************************************************************************)
EXTENDS MempolHandshake, TLAPS

-----------------------------------------------------------------------------
\* Facts about the operators.

LEMMA CoreZero == 0 \in Cores
BY ConstantsAssumption DEF Cores

LEMMA IncType == \A n \in 0 .. MaxCount : Inc(n) \in 0 .. MaxCount
BY ConstantsAssumption DEF Inc

LEMMA ChargeType == \A t \in Int, v \in Nat : Charge(t, v) \in Int
<1>1. Cap \in Int
  BY ConstantsAssumption DEF Cap
<1>2. QED
  BY <1>1, ConstantsAssumption DEF Charge

LEMMA NextIdx ==
  ASSUME idx \in Cores
  PROVE  (IF idx = NumCores - 1 THEN 0 ELSE idx + 1) \in Cores
BY ConstantsAssumption DEF Cores

-----------------------------------------------------------------------------
\* Type correctness: no interleaving takes a variable out of its type.
THEOREM Typing == Spec => []TypeOK
<1> USE DEF TypeOK
<1>1. Init => TypeOK
  BY CoreZero, ConstantsAssumption
     DEF Init, InitWith, Words, Addresses, HandlerSteps, FirmwareSteps
<1>2. TypeOK /\ [Next]_vars => TypeOK'
  <2> SUFFICES ASSUME TypeOK, [Next]_vars PROVE TypeOK'
    OBVIOUS
  <2> USE DEF channel, coreVars, firmwareVars
  <2>1. CASE FwRead
    BY <2>1 DEF FwRead, FirmwareSteps
  <2>2. CASE FwReset
    <3>1. token' \in [Cores -> Int]
      BY <2>2, ChargeType DEF FwReset
    <3>2. QED
      BY <2>2, <3>1 DEF FwReset, FirmwareSteps
  <2>3. CASE FwCheck
    BY <2>3, NextIdx DEF FwCheck, FwNext, FirmwareSteps
  <2>4. CASE FwSendPause
    BY <2>4 DEF FwSendPause, FwSend, Raise, FirmwareSteps, Words
  <2>5. CASE FwSendResume
    BY <2>5 DEF FwSendResume, FwSend, Raise, FirmwareSteps, Words
  <2>6. CASE FwMark
    BY <2>6, NextIdx, IncType DEF FwMark, FwNext, FirmwareSteps
  <2>7. ASSUME NEW c \in Cores, Work(c) PROVE TypeOK'
    <3>1. PICK v \in Costs : traffic' = [traffic EXCEPT ![c] = @ + v]
      BY <2>7 DEF Work
    <3>2. traffic' \in [Cores -> Nat]
      BY <3>1, ConstantsAssumption
    <3>3. QED
      BY <2>7, <3>2 DEF Work, Addresses
  <2>8. ASSUME NEW c \in Cores, HClaim(c) PROVE TypeOK'
    BY <2>8, IncType DEF HClaim, HandlerSteps
  <2>9. ASSUME NEW c \in Cores, HRead(c) PROVE TypeOK'
    BY <2>9 DEF HRead, HandlerSteps
  <2>10. ASSUME NEW c \in Cores, HPause(c) PROVE TypeOK'
    BY <2>10 DEF HPause, HandlerSteps, Addresses
  <2>11. ASSUME NEW c \in Cores, HResume(c) PROVE TypeOK'
    BY <2>11 DEF HResume, HandlerSteps
  <2>12. ASSUME NEW c \in Cores, HIgnore(c) PROVE TypeOK'
    BY <2>12 DEF HIgnore, HandlerSteps
  <2>13. ASSUME NEW c \in Cores, HAck(c) PROVE TypeOK'
    BY <2>13 DEF HAck, HandlerSteps, Words
  <2>14. ASSUME NEW c \in Cores, HComplete(c) PROVE TypeOK'
    BY <2>14 DEF HComplete, HandlerSteps
  <2>15. ASSUME NEW c \in Cores, Refire(c) PROVE TypeOK'
    BY <2>15 DEF Refire
  <2>16. CASE UNCHANGED vars
    BY <2>16 DEF vars
  <2>17. QED
    BY <2>1, <2>2, <2>3, <2>4, <2>5, <2>6, <2>7, <2>8, <2>9, <2>10, <2>11,
       <2>12, <2>13, <2>14, <2>15, <2>16 DEF Next, Firmware, Handler
<1>3. QED
  BY <1>1, <1>2, PTL DEF Spec

-----------------------------------------------------------------------------
\* The inductive invariant holds in every reachable state.
THEOREM Inductive == Spec => []HandshakeInv
<1>1. Init => HandshakeInv
  <2> SUFFICES ASSUME Init, NEW d \in Cores PROVE CoreInv(d)
    BY DEF HandshakeInv
  <2>1. at[d] \in Positions
    BY DEF Init, InitWith
  <2>2. QED
    BY <2>1, ConstantsAssumption DEF Init, InitWith, CoreInv, Decided
<1>2. TypeOK /\ HandshakeInv /\ [Next]_vars => HandshakeInv'
  <2> SUFFICES ASSUME TypeOK, HandshakeInv, [Next]_vars, NEW d \in Cores
               PROVE  CoreInv(d)'
    BY DEF HandshakeInv
  <2>0. CoreInv(d)
    BY DEF HandshakeInv
  <2> USE DEF TypeOK, CoreInv, Decided, channel, coreVars, firmwareVars
  <2>1. CASE FwRead
    BY <2>0, <2>1 DEF FwRead
  <2>2. CASE FwReset
    BY <2>0, <2>2 DEF FwReset
  <2>3. CASE FwCheck
    BY <2>0, <2>3 DEF FwCheck, FwNext, Acked
  <2>4. CASE FwSendPause
    BY <2>0, <2>4 DEF FwSendPause, FwSend
  <2>5. CASE FwSendResume
    BY <2>0, <2>5 DEF FwSendResume, FwSend
  <2>6. CASE FwMark
    BY <2>0, <2>6 DEF FwMark, FwNext
  <2>7. ASSUME NEW c \in Cores, Work(c) PROVE CoreInv(d)'
    <3>1. ~paused[c]
      BY <2>7, ConstantsAssumption DEF Work, HandshakeInv
    <3>2. PICK p \in Positions : at' = [at EXCEPT ![c] = p]
      BY <2>7 DEF Work
    <3>3. UNCHANGED <<word, throttled, hpc, counterVal, saved, paused, idx, fpc>>
      BY <2>7 DEF Work
    <3>4. QED
      BY <2>0, <3>1, <3>2, <3>3, ConstantsAssumption
  <2>8. ASSUME NEW c \in Cores, HClaim(c) PROVE CoreInv(d)'
    BY <2>0, <2>8 DEF HClaim
  <2>9. ASSUME NEW c \in Cores, HRead(c) PROVE CoreInv(d)'
    BY <2>0, <2>9 DEF HRead
  <2>10. ASSUME NEW c \in Cores, HPause(c) PROVE CoreInv(d)'
    BY <2>0, <2>10, ConstantsAssumption DEF HPause, IsPause, Addresses
  <2>11. ASSUME NEW c \in Cores, HResume(c) PROVE CoreInv(d)'
    BY <2>0, <2>11, ConstantsAssumption DEF HResume
  <2>12. ASSUME NEW c \in Cores, HIgnore(c) PROVE CoreInv(d)'
    BY <2>0, <2>12 DEF HIgnore
  <2>13. ASSUME NEW c \in Cores, HAck(c) PROVE CoreInv(d)'
    BY <2>0, <2>13 DEF HAck, Words
  <2>14. ASSUME NEW c \in Cores, HComplete(c) PROVE CoreInv(d)'
    BY <2>0, <2>14 DEF HComplete
  <2>15. ASSUME NEW c \in Cores, Refire(c) PROVE CoreInv(d)'
    BY <2>0, <2>15 DEF Refire
  <2>16. CASE UNCHANGED vars
    BY <2>0, <2>16 DEF vars
  <2>17. QED
    BY <2>1, <2>2, <2>3, <2>4, <2>5, <2>6, <2>7, <2>8, <2>9, <2>10, <2>11,
       <2>12, <2>13, <2>14, <2>15, <2>16 DEF Next, Firmware, Handler
<1>3. QED
  BY <1>1, <1>2, Typing, PTL DEF Spec

-----------------------------------------------------------------------------
\* The counters 28-31 agree with the cores at every acknowledgement.
THEOREM Agreement == Spec => []ThrottleAgreement
<1>1. HandshakeInv => ThrottleAgreement
  BY DEF HandshakeInv, CoreInv, ThrottleAgreement
<1>2. QED
  BY <1>1, Inductive, PTL

\* Handlers return to the program point they interrupted or to wfi_loop.
THEOREM ReturnSafety == Spec => []SafeReturn
<1>1. HandshakeInv => SafeReturn
  BY DEF HandshakeInv, CoreInv, SafeReturn
<1>2. QED
  BY <1>1, Inductive, PTL

\* Every command is obeyed before it leaves the channel.
THEOREM Obedience == Spec => CommandsObeyed
<1>1. TypeOK /\ HandshakeInv /\ [Next]_vars =>
        [\A c \in Cores :
            word[c] # "ack" /\ word'[c] # word[c]
               => word'[c] = "ack" /\ paused[c] = (word[c] = "pause")]_vars
  <2> SUFFICES ASSUME TypeOK, HandshakeInv, Next, NEW d \in Cores,
                      word[d] # "ack", word'[d] # word[d]
               PROVE  word'[d] = "ack" /\ paused[d] = (word[d] = "pause")
    OBVIOUS
  <2>0. CoreInv(d)
    BY DEF HandshakeInv
  <2>1. ~FwSendPause /\ ~FwSendResume
    BY <2>0 DEF CoreInv, TypeOK, FwSendPause, FwSendResume, FwSend
  <2>2. PICK c \in Cores : HAck(c)
    BY <2>1 DEF Next, Firmware, Handler, FwRead, FwReset, FwCheck, FwMark, Work,
                HClaim, HRead, HPause, HResume, HIgnore, HComplete, Refire, channel
  <2>3. c = d
    BY <2>2 DEF HAck, TypeOK
  <2>4. QED
    BY <2>0, <2>2, <2>3 DEF HAck, TypeOK, CoreInv, Words
<1>2. QED
  BY <1>1, Typing, Inductive, PTL DEF Spec, CommandsObeyed

-----------------------------------------------------------------------------
\* A step that leaves the words, g_paused, the addresses and the saved addresses
\* alone is invisible in the abstract view.
LEMMA Invisible ==
  ASSUME UNCHANGED <<word, paused, at, saved>>
  PROVE  UNCHANGED Abs!vars
BY DEF Abs!vars, absMode, absOrder, absPos

\* The poll loop and the handlers implement CoreThrottle: orders alternate, each
\* is obeyed once, and a paused program does not move.
THEOREM Refinement == Spec => AbsSpec
<1>1. Init => Abs!Init
  BY ConstantsAssumption DEF Init, InitWith, Abs!Init, absMode, absOrder, absPos
<1>2. TypeOK /\ HandshakeInv /\ [Next]_vars => [Abs!Next]_Abs!vars
  <2> SUFFICES ASSUME TypeOK, HandshakeInv, [Next]_vars
               PROVE  Abs!Next \/ UNCHANGED Abs!vars
    OBVIOUS
  <2> USE DEF TypeOK, channel, coreVars
  <2>1. CASE FwRead
    BY <2>1, Invisible DEF FwRead
  <2>2. CASE FwReset
    BY <2>2, Invisible DEF FwReset
  <2>3. CASE FwCheck
    BY <2>3, Invisible DEF FwCheck
  <2>4. CASE FwSendPause
    <3>1. word[idx] = "ack" /\ ~paused[idx]
      BY <2>4 DEF FwSendPause, FwSend, HandshakeInv, CoreInv, Decided
    <3>2. absOrder' = [absOrder EXCEPT ![idx] = "pause"]
      BY <2>4, <3>1 DEF FwSendPause, FwSend, absOrder
    <3>3. UNCHANGED <<absMode, absPos>>
      BY <2>4 DEF FwSendPause, FwSend, absMode, absPos
    <3>4. absMode[idx] = "running" /\ absOrder[idx] = "none"
      BY <3>1 DEF absMode, absOrder
    <3>5. QED
      BY <3>2, <3>3, <3>4 DEF Abs!Next, Abs!OrderPause
  <2>5. CASE FwSendResume
    <3>1. word[idx] = "ack" /\ paused[idx]
      BY <2>5 DEF FwSendResume, FwSend, HandshakeInv, CoreInv, Decided
    <3>2. absOrder' = [absOrder EXCEPT ![idx] = "resume"]
      BY <2>5, <3>1 DEF FwSendResume, FwSend, absOrder
    <3>3. UNCHANGED <<absMode, absPos>>
      BY <2>5 DEF FwSendResume, FwSend, absMode, absPos
    <3>4. absMode[idx] = "paused" /\ absOrder[idx] = "none"
      BY <3>1 DEF absMode, absOrder
    <3>5. QED
      BY <3>2, <3>3, <3>4 DEF Abs!Next, Abs!OrderResume
  <2>6. CASE FwMark
    BY <2>6, Invisible DEF FwMark
  <2>7. ASSUME NEW c \in Cores, Work(c) PROVE Abs!Next
    <3>1. ~paused[c]
      BY <2>7, ConstantsAssumption DEF Work, HandshakeInv, CoreInv
    <3>2. PICK p \in Positions : at' = [at EXCEPT ![c] = p]
      BY <2>7 DEF Work
    <3>3. absPos' = [absPos EXCEPT ![c] = p]
      BY <2>7, <3>1, <3>2 DEF Work, absPos
    <3>4. UNCHANGED <<absMode, absOrder>>
      BY <2>7 DEF Work, absMode, absOrder
    <3>5. absMode[c] = "running"
      BY <3>1 DEF absMode
    <3>6. QED
      BY <3>3, <3>4, <3>5 DEF Abs!Next, Abs!Work
  <2>8. ASSUME NEW c \in Cores, HClaim(c) PROVE UNCHANGED Abs!vars
    BY <2>8, Invisible DEF HClaim
  <2>9. ASSUME NEW c \in Cores, HRead(c) PROVE UNCHANGED Abs!vars
    BY <2>9, Invisible DEF HRead
  <2>10. ASSUME NEW c \in Cores, HPause(c) PROVE Abs!Next
    <3>1. word[c] = "pause" /\ ~paused[c]
      BY <2>10 DEF HPause, IsPause, HandshakeInv, CoreInv
    <3>2. absMode' = [absMode EXCEPT ![c] = "paused"]
      BY <2>10 DEF HPause, absMode
    <3>3. absOrder' = [absOrder EXCEPT ![c] = "none"]
      BY <2>10, <3>1 DEF HPause, absOrder
    <3>4. UNCHANGED absPos
      BY <2>10, <3>1 DEF HPause, absPos
    <3>5. absOrder[c] = "pause"
      BY <3>1 DEF absOrder
    <3>6. QED
      BY <3>2, <3>3, <3>4, <3>5 DEF Abs!Next, Abs!Obey
  <2>11. ASSUME NEW c \in Cores, HResume(c) PROVE Abs!Next
    <3>1. word[c] = "resume" /\ paused[c]
      BY <2>11 DEF HResume, HandshakeInv, CoreInv
    <3>2. absMode' = [absMode EXCEPT ![c] = "running"]
      BY <2>11 DEF HResume, absMode
    <3>3. absOrder' = [absOrder EXCEPT ![c] = "none"]
      BY <2>11, <3>1 DEF HResume, absOrder
    <3>4. UNCHANGED absPos
      BY <2>11, <3>1 DEF HResume, absPos
    <3>5. absOrder[c] = "resume"
      BY <3>1 DEF absOrder
    <3>6. QED
      BY <3>2, <3>3, <3>4, <3>5 DEF Abs!Next, Abs!Obey
  <2>12. ASSUME NEW c \in Cores, HIgnore(c) PROVE UNCHANGED Abs!vars
    BY <2>12, Invisible DEF HIgnore
  <2>13. ASSUME NEW c \in Cores, HAck(c) PROVE UNCHANGED Abs!vars
    <3>1. word[c] = "pause" => paused[c]
      BY <2>13 DEF HAck, HandshakeInv, CoreInv
    <3>2. word[c] = "resume" => ~paused[c]
      BY <2>13 DEF HAck, HandshakeInv, CoreInv
    <3>3. absOrder' = absOrder
      BY <2>13, <3>1, <3>2 DEF HAck, absOrder
    <3>4. QED
      BY <2>13, <3>3 DEF HAck, Abs!vars, absMode, absPos
  <2>14. ASSUME NEW c \in Cores, HComplete(c) PROVE UNCHANGED Abs!vars
    BY <2>14, Invisible DEF HComplete
  <2>15. ASSUME NEW c \in Cores, Refire(c) PROVE UNCHANGED Abs!vars
    BY <2>15, Invisible DEF Refire
  <2>16. CASE UNCHANGED vars
    BY <2>16, Invisible DEF vars
  <2>17. QED
    BY <2>1, <2>2, <2>3, <2>4, <2>5, <2>6, <2>7, <2>8, <2>9, <2>10, <2>11,
       <2>12, <2>13, <2>14, <2>15, <2>16 DEF Next, Firmware, Handler
<1>3. QED
  BY <1>1, <1>2, Typing, Inductive, PTL DEF Spec, AbsSpec, Abs!Spec
=============================================================================
