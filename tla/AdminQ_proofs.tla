---------------------------- MODULE AdminQ_proofs ----------------------------
(***************************************************************************)
(* Proofs about the admin queue, for every ring size, counter width and    *)
(* poll bound that RingAssumption and PollAssumption allow.                *)
(***************************************************************************)
EXTENDS AdminQ, Integers, TLAPS

(* The counter arithmetic of the code (uint32 increment, decrement and     *)
(* difference, and i & adminq_mask) stays within its ranges.               *)
LEMMA IncDecRange ==
  ASSUME NEW x \in Int
  PROVE  /\ Inc(x) \in Counter
         /\ Dec(x) \in Counter
         /\ Dist(x, x) = 0
         /\ SlotOf(x) \in 0 .. Mask
  <1>1. Modulus \in Nat \ {0, 1} /\ NSlots \in Nat \ {0, 1}
    BY RingAssumption
  <1>2. Inc(x) \in Counter
    BY <1>1 DEF Inc, Counter
  <1>3. Dec(x) \in Counter
    BY <1>1 DEF Dec, Counter
  <1>4. Dist(x, x) = 0
    BY <1>1 DEF Dist
  <1>5. SlotOf(x) \in 0 .. Mask
    BY <1>1 DEF SlotOf, Mask
  <1>6. QED
    BY <1>2, <1>3, <1>4, <1>5

(* Counter values are naturals.                                          *)
LEMMA CounterNat == Counter \subseteq Nat
  BY RingAssumption DEF Counter

(* The zeroed slot of BUS_DMA_ZERO memory is a slot.                      *)
LEMMA ZeroSlotType == ZeroSlot \in Slot
  <1>1. 0 \in Counter
    BY RingAssumption DEF Counter
  <1>2. QED
    BY <1>1 DEF ZeroSlot, Slot, AllStatuses

(* Every status word translates to an errno.                              *)
LEMMA ParseErrType ==
  ASSUME NEW s
  PROVE  ParseErr(s) \in Errnos
  BY DEF ParseErr, Errnos

(* Incrementing and decrementing a uint32 counter undo each other, also   *)
(* across the wrap of prod_cnt and of the event counter.                    *)
LEMMA IncDecInverse ==
  ASSUME NEW x \in Counter
  PROVE  /\ Dec(Inc(x)) = x
         /\ Inc(Dec(x)) = x
  <1>1. Modulus \in Nat \ {0, 1} /\ x \in 0 .. Modulus - 1
    BY RingAssumption DEF Counter
  <1>2. CASE x = Modulus - 1
    <2>1. Inc(x) = 0 /\ Dec(x) = x - 1
      BY <1>1, <1>2 DEF Inc, Dec
    <2>2. QED
      BY <1>1, <1>2, <2>1 DEF Inc, Dec
  <1>3. CASE x = 0
    <2>1. Inc(x) = 1 /\ Dec(x) = Modulus - 1
      BY <1>1, <1>3 DEF Inc, Dec
    <2>2. QED
      BY <1>1, <1>3, <2>1 DEF Inc, Dec
  <1>4. CASE x # 0 /\ x # Modulus - 1
    <2>1. Inc(x) = x + 1 /\ Dec(x) = x - 1
      BY <1>1, <1>4 DEF Inc, Dec
    <2>2. QED
      BY <1>1, <1>4, <2>1 DEF Inc, Dec
  <1>5. QED
    BY <1>2, <1>3, <1>4

(* The initial state of the driver is well typed.                          *)
LEMMA TypeInit == Init => TypeOK
  <2> SUFFICES ASSUME Init PROVE TypeOK
    OBVIOUS
  <2>1. ring \in [0 .. Mask -> Slot]
    BY ZeroSlotType DEF Init
  <2>2. /\ issueCnt \in [Opcodes -> Counter]
        /\ prodCnt \in Counter /\ cmdFail \in Counter /\ timeouts \in Counter
        /\ tail \in Counter /\ head \in Counter
        /\ eventCounter \in Counter /\ doorbell \in Counter
    BY RingAssumption DEF Init, Counter
  <2>3. aqOk \in BOOLEAN /\ aqMem \in BOOLEAN /\ cmd \in Opcodes
    BY DEF Init
  <2>4. /\ pc \in PCs /\ polls \in 0 .. MaxPolls
        /\ ret \in Errnos /\ addrReg \in {"none", "set", "releasing"}
    BY PollAssumption DEF Init, PCs, Errnos
  <2>5. QED
    BY <2>1, <2>2, <2>3, <2>4 DEF TypeOK
(* Every step of the driver, the callers and the device keeps the state   *)
(* well typed.                                                              *)
LEMMA TypeStep == TypeOK /\ [Next]_vars => TypeOK'
  <2> SUFFICES ASSUME TypeOK, [Next]_vars PROVE TypeOK'
    OBVIOUS
  <2>. USE DEF TypeOK
  <2>1. CASE AllocAdminq
    BY <2>1, ZeroSlotType, RingAssumption DEF AllocAdminq, Counter, Errnos
  <2>2. CASE AllocFail
    BY <2>2 DEF AllocFail, Errnos, driverVars, deviceVars
  <2>3. CASE ReleaseBegin
    BY <2>3 DEF ReleaseBegin, PCs, driverVars
  <2>4. CASE ReleaseDone
    BY <2>4 DEF ReleaseDone, PCs, deviceVars
  <2>5. CASE \E o \in Opcodes : ExecBusy(o)
    BY <2>5 DEF ExecBusy, Errnos, driverVars, deviceVars
  <2>6. CASE \E o \in Opcodes : ExecBegin(o)
    BY <2>6 DEF ExecBegin, PCs, driverVars, deviceVars
  <2>7. CASE Issue
    <3>1. [opcode |-> cmd, status |-> "UNSET", seq |-> prodCnt] \in Slot
      BY DEF Slot, AllStatuses, Counter
    <3>2. SlotOf(prodCnt) \in 0 .. Mask /\ Inc(prodCnt) \in Counter
      BY CounterNat, IncDecRange
    <3>3. Inc(issueCnt[cmd]) \in Counter
      <4>1. issueCnt[cmd] \in Counter
        BY DEF TypeOK
      <4>2. issueCnt[cmd] \in Nat
        BY <4>1, CounterNat, Zenon
      <4>3. QED
        BY <4>2, IncDecRange
    <3>4. ring' \in [0 .. Mask -> Slot]
      BY <2>7, <3>1, <3>2 DEF Issue
    <3>5. issueCnt' \in [Opcodes -> Counter]
      BY <2>7, <3>3 DEF Issue
    <3>6. prodCnt' \in Counter /\ pc' \in PCs
      BY <2>7, <3>2 DEF Issue, PCs
    <3>7. UNCHANGED <<aqOk, aqMem, cmdFail, timeouts, cmd, tail, head, polls,
                      ret, addrReg, eventCounter, doorbell>>
      BY <2>7 DEF Issue, deviceVars
    <3>8. QED
      BY <3>4, <3>5, <3>6, <3>7
  <2>8. CASE Kick
    BY <2>8, PollAssumption DEF Kick, PCs, driverVars
  <2>9. CASE WaitDone
    BY <2>9 DEF WaitDone, PCs, driverVars, deviceVars
  <2>10. CASE WaitSleep
    BY <2>10, PollAssumption DEF WaitSleep, driverVars, deviceVars
  <2>11. CASE WaitTimeout
    <3>1. Inc(timeouts) \in Counter
      BY CounterNat, IncDecRange
    <3>2. timeouts' \in Counter /\ ret' \in Errnos /\ pc' \in PCs
      BY <2>11, <3>1 DEF WaitTimeout, Errnos, PCs
    <3>3. UNCHANGED <<aqOk, aqMem, ring, prodCnt, issueCnt, cmdFail, cmd, tail,
                      head, polls, addrReg, eventCounter, doorbell>>
      BY <2>11 DEF WaitTimeout, deviceVars
    <3>4. QED
      BY <3>2, <3>3
  <2>12. CASE ScanPass
    BY <2>12 DEF ScanPass, PCs, Errnos, driverVars, deviceVars
  <2>13. CASE ScanFail
    <3>1. Inc(cmdFail) \in Counter
      BY CounterNat, IncDecRange
    <3>2. \A s : /\ ParseErr(s) \in Errnos
               /\ (IF CountedFailure(s) THEN Inc(cmdFail) ELSE cmdFail) \in Counter
      BY <3>1, ParseErrType
    <3>3. ret' \in Errnos /\ cmdFail' \in Counter
      BY <2>13, <3>2 DEF ScanFail
    <3>4. pc' \in PCs
      BY <2>13 DEF ScanFail, PCs
    <3>5. UNCHANGED <<aqOk, aqMem, ring, prodCnt, issueCnt, timeouts, cmd, tail,
                      head, polls, addrReg, eventCounter, doorbell>>
      BY <2>13 DEF ScanFail, deviceVars
    <3>6. QED
      BY <3>3, <3>4, <3>5
  <2>14. CASE \E s \in DeviceStatuses : DeviceComplete(s)
    <3>1. PICK s \in DeviceStatuses : DeviceComplete(s)
      BY <2>14
    <3>2. SlotOf(eventCounter) \in 0 .. Mask /\ Inc(eventCounter) \in Counter
      BY CounterNat, IncDecRange
    <3>3. s \in AllStatuses
      BY StatusAssumption
    <3>4. QED
      BY <3>1, <3>2, <3>3 DEF DeviceComplete, Slot, threadVars
  <2>15. CASE DeviceRelease
    BY <2>15, RingAssumption DEF DeviceRelease, Counter, driverVars, threadVars
  <2>16. CASE UNCHANGED vars
    BY <2>16 DEF vars, driverVars, threadVars, deviceVars
  <2>17. QED
    BY <2>1, <2>2, <2>3, <2>4, <2>5, <2>6, <2>7, <2>8, <2>9, <2>10, <2>11,
       <2>12, <2>13, <2>14, <2>15, <2>16 DEF Next, ExecStep

(* TypeOK is an invariant of the admin queue: every counter the driver and *)
(* the device keep stays a uint32 and every slot a command.                *)
THEOREM TypeCorrect == Spec => []TypeOK
  BY TypeInit, TypeStep, PTL DEF Spec

-----------------------------------------------------------------------------
(* The initial state satisfies the ring invariant: nothing is allocated.   *)
LEMMA RingInit == Init => RingInv
  <1> SUFFICES ASSUME Init PROVE RingInv
    OBVIOUS
  <1>1. TypeOK
    BY TypeInit
  <1>2. QED
    BY <1>1 DEF Init, RingInv

(* Every step preserves the ring invariant.                                *)
LEMMA RingStep == RingInv /\ [Next]_vars => RingInv'
  <1> SUFFICES ASSUME RingInv, [Next]_vars PROVE RingInv'
    OBVIOUS
  <1>0. TypeOK /\ TypeOK'
    BY TypeStep DEF RingInv
  <1>. USE DEF RingInv
  <1>1. CASE AllocAdminq
    BY <1>0, <1>1 DEF AllocAdminq
  <1>2. CASE AllocFail
    BY <1>0, <1>2 DEF AllocFail, driverVars, deviceVars
  <1>3. CASE ReleaseBegin
    BY <1>0, <1>3 DEF ReleaseBegin, driverVars
  <1>4. CASE ReleaseDone
    BY <1>0, <1>4 DEF ReleaseDone, deviceVars
  <1>5. CASE \E o \in Opcodes : ExecBusy(o)
    BY <1>0, <1>5 DEF ExecBusy, driverVars, deviceVars
  <1>6. CASE \E o \in Opcodes : ExecBegin(o)
    BY <1>0, <1>6 DEF ExecBegin, driverVars, deviceVars
  <1>7. CASE Issue
    <2>1. aqOk /\ addrReg = "set" /\ eventCounter = prodCnt /\ doorbell = prodCnt
      BY <1>7 DEF Issue
    <2>2. Dec(Inc(prodCnt)) = prodCnt
      BY <1>0, IncDecInverse DEF TypeOK
    <2>3. SlotOf(prodCnt) \in DOMAIN ring
      BY <1>0, CounterNat, IncDecRange DEF TypeOK
    <2>4. ring'[SlotOf(Dec(prodCnt'))].seq = Dec(prodCnt')
      BY <1>7, <2>2, <2>3 DEF Issue
    <2>5. /\ pc' = "kick" /\ prodCnt' = Inc(doorbell')
          /\ eventCounter' = doorbell'
          /\ UNCHANGED <<aqOk, aqMem, addrReg>>
      BY <1>7, <2>1 DEF Issue, deviceVars
    <2>6. QED
      BY <1>0, <2>1, <2>4, <2>5
  <1>8. CASE Kick
    <2>1. aqOk /\ addrReg = "set" /\ eventCounter = doorbell
          /\ prodCnt = Inc(doorbell)
      BY <1>8 DEF Kick
    <2>2. Dec(prodCnt) = eventCounter
      BY <1>0, <2>1, IncDecInverse DEF TypeOK
    <2>3. /\ pc' = "wait" /\ doorbell' = prodCnt'
          /\ eventCounter' = Dec(prodCnt')
          /\ head' = prodCnt' /\ tail' = Dec(head')
          /\ UNCHANGED <<aqOk, aqMem, ring, prodCnt, addrReg, eventCounter>>
      BY <1>8, <2>2 DEF Kick, driverVars
    <2>4. eventCounter' # prodCnt' =>
            ring'[SlotOf(Dec(prodCnt'))].seq = Dec(prodCnt')
      BY <2>1, <2>3, Zenon
    <2>5. QED
      BY <1>0, <2>1, <2>3, <2>4
  <1>9. CASE WaitDone
    BY <1>0, <1>9 DEF WaitDone, driverVars, deviceVars
  <1>10. CASE WaitSleep
    BY <1>0, <1>10 DEF WaitSleep, driverVars, deviceVars
  <1>11. CASE WaitTimeout
    BY <1>0, <1>11 DEF WaitTimeout, deviceVars
  <1>12. CASE ScanPass
    BY <1>0, <1>12 DEF ScanPass, driverVars, deviceVars
  <1>13. CASE ScanFail
    BY <1>0, <1>13 DEF ScanFail, deviceVars
  <1>14. CASE \E s \in DeviceStatuses : DeviceComplete(s)
    <2>1. PICK s \in DeviceStatuses : DeviceComplete(s)
      BY <1>14
    <2>2. addrReg # "none" /\ eventCounter # doorbell
      BY <2>1 DEF DeviceComplete
    <2>3. pc \notin {"issue", "kick"} /\ doorbell = prodCnt
          /\ eventCounter = Dec(prodCnt)
      BY <2>2
    <2>4. Inc(Dec(prodCnt)) = prodCnt
      BY <1>0, IncDecInverse DEF TypeOK
    <2>5. /\ eventCounter' = prodCnt'
          /\ UNCHANGED <<aqOk, aqMem, prodCnt, pc, head, tail, addrReg, doorbell>>
      BY <2>1, <2>3, <2>4 DEF DeviceComplete, threadVars
    <2>6. QED
      BY <1>0, <2>2, <2>3, <2>5
  <1>15. CASE DeviceRelease
    BY <1>0, <1>15 DEF DeviceRelease, driverVars, threadVars
  <1>16. CASE UNCHANGED vars
    BY <1>0, <1>16 DEF vars, driverVars, threadVars, deviceVars
  <1>17. QED
    BY <1>1, <1>2, <1>3, <1>4, <1>5, <1>6, <1>7, <1>8, <1>9, <1>10, <1>11,
       <1>12, <1>13, <1>14, <1>15, <1>16 DEF Next, ExecStep

(* The ring invariant holds in every reachable state.                       *)
THEOREM RingInvariant == Spec => []RingInv
  BY RingInit, RingStep, PTL DEF Spec

(* The ring invariant gives the two ring safety invariants the runs check. *)
LEMMA RingInvSafe ==
  RingInv => DeviceConsumesOnlyIssued /\ IssueNeverOverflows
  <1> SUFFICES ASSUME RingInv PROVE
               DeviceConsumesOnlyIssued /\ IssueNeverOverflows
    OBVIOUS
  <1>0. /\ prodCnt \in Int /\ doorbell \in Int /\ eventCounter \in Int
        /\ Mask \in Nat
    BY CounterNat, RingAssumption DEF RingInv, TypeOK, Mask
  <1>1. Dist(prodCnt, prodCnt) = 0 /\ Dist(doorbell, doorbell) = 0
    BY <1>0, IncDecRange
  <1>3. IssueNeverOverflows
    BY <1>0, <1>1 DEF RingInv, IssueNeverOverflows
  <1>4. DeviceConsumesOnlyIssued
    <2> SUFFICES ASSUME addrReg # "none"
                 PROVE  DeviceConsumesOnlyIssued!2
      BY DEF DeviceConsumesOnlyIssued
    <2>1. Dist(prodCnt, eventCounter) \in Int
      BY <1>0, RingAssumption DEF Dist
    <2>2. CASE pc = "issue"
      BY <1>1, <2>1, <2>2 DEF RingInv
    <2>3. CASE pc = "kick"
      BY <1>1, <2>1, <2>3 DEF RingInv
    <2>4. CASE pc \notin {"issue", "kick"}
      BY <1>1, <2>1, <2>4 DEF RingInv
    <2>5. QED
      BY <2>2, <2>3, <2>4
  <1>5. QED
    BY <1>3, <1>4

(* In every reachable state the device consumes only commands the driver   *)
(* issued at their count, and gve_adminq_issue_cmd never finds the ring    *)
(* full.                                                                   *)
THEOREM RingSafety ==
  Spec => [](DeviceConsumesOnlyIssued /\ IssueNeverOverflows)
  BY RingInvariant, RingInvSafe, PTL

(* gve_adminq_issue_cmd never finds the ring full in a reachable state, so *)
(* its drain-and-retry branch and its ENOMEM return are dead code, for any *)
(* ring size and counter width.                                            *)
THEOREM NeverOverflows == Spec => []IssueNeverOverflows
  BY RingInvariant, RingInvSafe, PTL

-----------------------------------------------------------------------------
(* The scan loop of gve_adminq_kick_and_wait visits at most one index, and  *)
(* if it visits one, that is the count of the command just issued: tail is  *)
(* the count before head, and as plain integers the range tail .. head - 1  *)
(* is that one count, or empty when head has wrapped to 0.                   *)
LEMMA ScanRange ==
  ASSUME RingInv, pc = "scan"
  PROVE  ScanErrs \subseteq {Dec(head)}
  <1>1. head \in Counter /\ tail = Dec(head)
    BY DEF RingInv, TypeOK
  <1>2. Modulus \in Nat \ {0, 1} /\ head \in 0 .. Modulus - 1
    BY <1>1, RingAssumption DEF Counter
  <1>3. CASE head = 0
    <2>1. tail = Modulus - 1
      BY <1>1, <1>2, <1>3 DEF Dec
    <2>2. tail .. (head - 1) = {}
      BY <1>2, <1>3, <2>1
    <2>3. QED
      BY <2>2 DEF ScanErrs
  <1>4. CASE head # 0
    <2>1. tail = head - 1 /\ Dec(head) = head - 1
      BY <1>1, <1>2, <1>4 DEF Dec
    <2>2. tail .. (head - 1) = {Dec(head)}
      BY <1>2, <2>1
    <2>3. QED
      BY <2>2 DEF ScanErrs
  <1>5. QED
    BY <1>3, <1>4

(* A step that ends a scan with an error returns the translation of the     *)
(* status in the slot of the command just issued.                            *)
LEMMA ScanErrorStep ==
  ASSUME RingInv, [Next]_vars, pc = "scan", pc' = "idle", ret' # "OK"
  PROVE  ret' = ParseErr(ring[SlotOf(Dec(head))].status)
  <1>1. ScanFail
    <2>1. ~ScanPass
      BY DEF ScanPass
    <2>2. QED
      BY <2>1 DEF Next, ExecStep, vars, threadVars, AllocAdminq, AllocFail,
         ReleaseBegin, ReleaseDone, ExecBusy, ExecBegin, Issue, Kick,
         WaitDone, WaitSleep, WaitTimeout, DeviceComplete, DeviceRelease
  <1>2. ScanErrs # {} /\ ScanErrs \subseteq {Dec(head)}
    BY <1>1, ScanRange DEF ScanFail
  <1>3. ScanErrs = {Dec(head)}
    BY <1>2
  <1>4. (CHOOSE i \in ScanErrs : \A j \in ScanErrs : i <= j) = Dec(head)
    BY <1>3
  <1>5. QED
    BY <1>1, <1>4 DEF ScanFail

(* gve_adminq_kick_and_wait never reports a stale error: when its scan      *)
(* returns an error, that error is the translation of the status the device *)
(* wrote into the slot of the command just issued.                           *)
THEOREM ErrorGenuine == Spec => ReportedErrorGenuine
  <1>1. RingInv /\ [Next]_vars =>
          [pc = "scan" /\ pc' = "idle" /\ ret' # "OK" =>
             ret' = ParseErr(ring[SlotOf(Dec(head))].status)]_vars
    BY ScanErrorStep
  <1>2. QED
    BY <1>1, RingInvariant, PTL DEF Spec, ReportedErrorGenuine

(* gve_adminq_parse_err returns 0 for PASSED and for no other status.      *)
LEMMA ParseErrOK ==
  ASSUME NEW s, ParseErr(s) = "OK"
  PROVE  s = "PASSED"
  BY DEF ParseErr, Retryable, Denied

(* When the scan of gve_adminq_kick_and_wait finds nothing and head has not *)
(* wrapped to 0, the device completed the command just issued with PASSED.  *)
LEMMA ScanPassPassed ==
  ASSUME RingInv, pc = "scan", head # 0, ScanErrs = {}
  PROVE  ring[SlotOf(Dec(head))].status = "PASSED"
  <1>1. head \in Counter /\ tail = Dec(head)
    BY DEF RingInv, TypeOK
  <1>2. Modulus \in Nat \ {0, 1} /\ head \in 1 .. Modulus - 1
    BY <1>1, RingAssumption DEF Counter
  <1>3. tail = head - 1 /\ Dec(head) = head - 1
    BY <1>1, <1>2 DEF Dec
  <1>4. Dec(head) \in tail .. (head - 1)
    BY <1>2, <1>3
  <1>5. ParseErr(ring[SlotOf(Dec(head))].status) = "OK"
    BY <1>4 DEF ScanErrs
  <1>6. QED
    BY <1>5, ParseErrOK

(* A scan that stops at a failed status returns an error, never 0.         *)
LEMMA ScanFailErr ==
  ASSUME RingInv, ScanFail
  PROVE  ret' # "OK"
  <1>1. ScanErrs # {} /\ ScanErrs \subseteq {Dec(head)}
    BY ScanRange DEF ScanFail
  <1>2. ScanErrs = {Dec(head)}
    BY <1>1
  <1>3. (CHOOSE i \in ScanErrs : \A j \in ScanErrs : i <= j) = Dec(head)
    BY <1>2
  <1>4. ParseErr(ring[SlotOf(Dec(head))].status) # "OK"
    BY <1>2 DEF ScanErrs
  <1>5. QED
    BY <1>3, <1>4 DEF ScanFail


(* Once head is not 0, a step that ends the scan of kick_and_wait returns  *)
(* the translation of the status the device wrote for the command just     *)
(* issued, success included.                                                *)
LEMMA ScanResultStep ==
  ASSUME RingInv, [Next]_vars, pc = "scan", pc' = "idle", head # 0
  PROVE  ret' = ParseErr(ring[SlotOf(Dec(head))].status)
  <1>1. CASE ret' # "OK"
    BY <1>1, ScanErrorStep
  <1>2. CASE ret' = "OK"
    <2>1. ScanPass \/ ScanFail
      BY DEF Next, ExecStep, vars, threadVars, AllocAdminq, AllocFail,
         ReleaseBegin, ReleaseDone, ExecBusy, ExecBegin, Issue, Kick,
         WaitDone, WaitSleep, WaitTimeout, DeviceComplete, DeviceRelease
    <2>2. ~ScanFail
      BY <1>2, ScanFailErr
    <2>3. ScanErrs = {}
      BY <2>1, <2>2 DEF ScanPass
    <2>4. ring[SlotOf(Dec(head))].status = "PASSED"
      BY <2>3, ScanPassPassed
    <2>5. ParseErr("PASSED") = "OK"
      BY DEF ParseErr, Retryable, Denied
    <2>6. QED
      BY <1>2, <2>4, <2>5
  <1>3. QED
    BY <1>1, <1>2
=============================================================================
