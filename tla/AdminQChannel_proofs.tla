------------------------ MODULE AdminQChannel_proofs ------------------------
(***************************************************************************)
(* The admin queue implements the one-command channel of Channel: every    *)
(* step of gve_adminq_alloc, gve_adminq_execute_cmd, gve_release_adminq and *)
(* of the device is a step of the channel, or leaves the channel's state    *)
(* alone, under the refinement mapping of AdminQChannel.                    *)
(*                                                                         *)
(* Only one step needs more than the ring invariant: the scan that finds    *)
(* nothing must be looking at the command just issued, which fails when     *)
(* head has wrapped to 0 (finding 1).  Driven by the lifecycle operations,  *)
(* prod_cnt does not wrap as long as NoWrap holds, and the refinement       *)
(* follows for every instance that satisfies it.                            *)
(***************************************************************************)
EXTENDS Lifecycle_proofs, AdminQChannel

(* The slot before a count is never the count's own slot: the ring has at  *)
(* least two slots and its size divides the counter's modulus.              *)
LEMMA SlotsDiffer ==
  ASSUME NEW x \in Counter
  PROVE  SlotOf(Dec(x)) # SlotOf(x)
  <1>0. /\ NSlots \in Nat \ {0, 1} /\ Modulus \in Nat \ {0, 1}
        /\ Modulus % NSlots = 0
    BY RingAssumption
  <1>1. /\ NSlots \in Nat \ {0, 1} /\ Modulus \in Nat \ {0, 1}
        /\ Modulus % NSlots = 0 /\ x \in 0 .. Modulus - 1
    BY <1>0 DEF Counter
  <1>2. CASE x = 0
    <2>1. Dec(x) = Modulus - 1
      BY <1>1, <1>2 DEF Dec
    <2>2. (Modulus - 1) % NSlots # 0 % NSlots
      BY <1>1
    <2>3. QED
      BY <1>1, <1>2, <2>1, <2>2 DEF SlotOf
  <1>3. CASE x # 0
    <2>1. Dec(x) = x - 1
      BY <1>1, <1>3 DEF Dec
    <2>2. (x - 1) % NSlots # x % NSlots
      BY <1>1, <1>3
    <2>3. QED
      BY <2>1, <2>2 DEF SlotOf
  <1>4. QED
    BY <1>2, <1>3

(* An increment of a counter never leaves it where it was.                 *)
LEMMA IncMoves ==
  ASSUME NEW x \in Counter
  PROVE  Inc(x) # x
  BY RingAssumption DEF Inc, Counter

(* The slot before the event counter is a ring slot.                       *)
LEMMA LastStatusSlot ==
  ASSUME NEW x \in Counter
  PROVE  SlotOf(Dec(x)) \in 0 .. Mask
  <1>1. Dec(x) \in Counter
    BY CounterNat, IncDecRange
  <1>2. Dec(x) \in Nat
    BY <1>1, CounterNat
  <1>3. QED
    BY <1>2, IncDecRange

(* The status word of any slot of a well-typed ring is a status.           *)
LEMMA SlotStatusType ==
  ASSUME NEW r \in [0 .. Mask -> Slot], NEW e \in Counter
  PROVE  r[SlotOf(Dec(e))].status \in AllStatuses
  BY LastStatusSlot DEF Slot

(* The caller's state the mapping reads off the thread's pc.               *)
LEMMA CallerMapValues ==
  /\ pc \in {"idle", "issue"} => CallerMap = "idle"
  /\ pc \in {"kick", "wait", "scan"} => CallerMap = "busy"
  /\ pc = "release_wait" => CallerMap = "release"
  BY Zenon DEF CallerMap

(* The admin queue starts as a closed, idle channel.                       *)
LEMMA ChannelInit == Init => Chan!Init
  <1> SUFFICES ASSUME Init PROVE Chan!Init
    OBVIOUS
  <1>1. SlotOf(Dec(eventCounter)) \in 0 .. Mask
    <2>1. eventCounter \in Counter
      BY RingAssumption DEF Init, Counter
    <2>2. QED
      BY <2>1, LastStatusSlot
  <1>2. ring[SlotOf(Dec(eventCounter))].status \in AllStatuses
    BY <1>1 DEF Init, ZeroSlot, AllStatuses
  <1>3. QED
    BY <1>2 DEF Init, Chan!Init, PendingMap, CallerMap

(* Every admin-queue step maps to a channel step or leaves the channel     *)
(* alone, given the ring invariant and that the scan looks at a command    *)
(* just issued with a non-zero count.                                      *)
LEMMA ChannelStepAQ ==
  ASSUME RingInv, pc = "scan" => eventCounter = prodCnt /\ prodCnt # 0,
         [Next]_vars
  PROVE  [Chan!Next]_Chan!cvars
  <1>0. /\ TypeOK /\ TypeOK' /\ RingInv'
        /\ prodCnt \in Counter /\ eventCounter \in Counter
    BY RingStep DEF RingInv, TypeOK
  <1>1. CASE AllocAdminq
    <2>1. CallerMap = "idle" /\ CallerMap' = "idle"
      BY <1>1, CallerMapValues, Zenon DEF AllocAdminq, CallerMap
    <2>2. addrReg = "none" /\ eventCounter = 0
      BY <1>1 DEF AllocAdminq, RingInv
    <2>3. PendingMap = <<>> /\ PendingMap' = <<>>
      BY <1>1, <2>2 DEF AllocAdminq, PendingMap
    <2>4. ring'[SlotOf(Dec(eventCounter'))].status \in AllStatuses
      BY <1>0, SlotStatusType DEF TypeOK
    <2>5. Chan!Open
      BY <1>1, <2>1, <2>3, <2>4 DEF AllocAdminq, Chan!Open
    <2>6. QED
      BY <2>5 DEF Chan!Next
  <1>2. CASE AllocFail
    <2>1. CallerMap = "idle"
      BY <1>2, CallerMapValues DEF AllocFail
    <2>2. Chan!OpenFail
      BY <1>2, <2>1 DEF AllocFail, Chan!OpenFail, driverVars, deviceVars,
                        threadVars, PendingMap, CallerMap
    <2>3. QED
      BY <2>2 DEF Chan!Next
  <1>3. CASE ReleaseBegin
    <2>1. CallerMap = "idle" /\ CallerMap' = "release"
      BY <1>3, CallerMapValues, Zenon DEF ReleaseBegin, CallerMap
    <2>2. addrReg = "set" /\ addrReg' = "releasing"
      BY <1>3 DEF ReleaseBegin, RingInv
    <2>3. PendingMap' = PendingMap
      BY <1>3, <2>2 DEF ReleaseBegin, PendingMap, driverVars
    <2>4. Chan!CloseBegin
      BY <1>3, <2>1, <2>2, <2>3 DEF ReleaseBegin, Chan!CloseBegin, driverVars
    <2>5. QED
      BY <2>4 DEF Chan!Next
  <1>4. CASE ReleaseDone
    <2>1. CallerMap = "release" /\ CallerMap' = "idle"
      BY <1>4, CallerMapValues, Zenon DEF ReleaseDone, CallerMap
    <2>2. PendingMap' = PendingMap
      BY <1>4 DEF ReleaseDone, PendingMap, deviceVars
    <2>3. Chan!CloseDone
      BY <1>4, <2>1, <2>2 DEF ReleaseDone, Chan!CloseDone, deviceVars
    <2>4. QED
      BY <2>3 DEF Chan!Next
  <1>5. CASE \E o \in Opcodes : ExecBusy(o)
    <2>1. PICK o \in Opcodes : ExecBusy(o)
      BY <1>5
    <2>2. CallerMap = "idle" /\ CallerMap' = "idle"
      BY <2>1, CallerMapValues, Zenon DEF ExecBusy, CallerMap, threadVars
    <2>3. addrReg = "set" /\ eventCounter # prodCnt
      BY <2>1 DEF ExecBusy, RingInv
    <2>4. PendingMap # <<>> /\ PendingMap' = PendingMap
      BY <2>1, <2>3 DEF ExecBusy, PendingMap, driverVars, deviceVars
    <2>5. Chan!Refuse
      BY <2>1, <2>2, <2>4 DEF ExecBusy, Chan!Refuse, driverVars, deviceVars
    <2>6. QED
      BY <2>5 DEF Chan!Next
  <1>6. CASE \E o \in Opcodes : ExecBegin(o)
    <2>1. PICK o \in Opcodes : ExecBegin(o)
      BY <1>6
    <2>2. CallerMap = "idle" /\ CallerMap' = "idle"
      BY <2>1, CallerMapValues, Zenon DEF ExecBegin, CallerMap
    <2>3. QED
      BY <2>1, <2>2 DEF ExecBegin, Chan!cvars, PendingMap, driverVars,
                        deviceVars
  <1>7. CASE Issue
    <2>1. CallerMap = "idle" /\ CallerMap' = "busy"
      BY <1>7, CallerMapValues, Zenon DEF Issue, CallerMap
    <2>2. /\ aqOk /\ addrReg = "set" /\ eventCounter = prodCnt
          /\ cmd \in Opcodes
      BY <1>7 DEF Issue, RingInv, TypeOK
    <2>3. PendingMap = <<>>
      BY <2>2 DEF PendingMap
    <2>4. /\ SlotOf(prodCnt) \in 0 .. Mask
          /\ SlotOf(Dec(eventCounter)) # SlotOf(prodCnt)
          /\ Inc(prodCnt) # prodCnt
      BY <1>0, <2>2, SlotsDiffer, IncMoves, IncDecRange, CounterNat
    <2>5. PendingMap' = <<cmd>>
      BY <1>0, <1>7, <2>2, <2>4 DEF Issue, PendingMap, TypeOK, deviceVars
    <2>6. ring'[SlotOf(Dec(eventCounter'))].status
            = ring[SlotOf(Dec(eventCounter))].status
      BY <1>0, <1>7, <2>4 DEF Issue, TypeOK, deviceVars
    <2>7. Chan!Submit(cmd)
      BY <1>7, <2>1, <2>2, <2>3, <2>5, <2>6
      DEF Issue, Chan!Submit, deviceVars
    <2>8. QED
      BY <2>2, <2>7 DEF Chan!Next
  <1>8. CASE Kick \/ WaitDone \/ WaitSleep
    <2>1. pc \in {"kick", "wait"} /\ pc' \in {"wait", "scan"}
      BY <1>8 DEF Kick, WaitDone, WaitSleep, threadVars
    <2>2. CallerMap = "busy" /\ CallerMap' = "busy"
      BY <2>1, CallerMapValues, Zenon DEF CallerMap
    <2>3. UNCHANGED <<aqOk, ring, prodCnt, addrReg, eventCounter, ret>>
      BY <1>8 DEF Kick, WaitDone, WaitSleep, driverVars, deviceVars,
                  threadVars
    <2>4. QED
      BY <2>2, <2>3 DEF Chan!cvars, PendingMap
  <1>9. CASE WaitTimeout
    <2>1. CallerMap = "busy" /\ CallerMap' = "idle"
      BY <1>9, CallerMapValues, Zenon DEF WaitTimeout, CallerMap
    <2>2. addrReg = "set" /\ eventCounter # prodCnt
      BY <1>9 DEF WaitTimeout, RingInv
    <2>3. PendingMap # <<>> /\ PendingMap' = PendingMap
      BY <1>9, <2>2 DEF WaitTimeout, PendingMap, deviceVars
    <2>4. Chan!GiveUp
      BY <1>9, <2>1, <2>3 DEF WaitTimeout, Chan!GiveUp, deviceVars
    <2>5. QED
      BY <2>4 DEF Chan!Next
  <1>10. CASE ScanPass \/ ScanFail
    <2>1. CallerMap = "busy" /\ CallerMap' = "idle"
      BY <1>10, CallerMapValues, Zenon DEF ScanPass, ScanFail, CallerMap
    <2>2. /\ eventCounter = prodCnt /\ prodCnt # 0 /\ head = prodCnt
      BY <1>10 DEF ScanPass, ScanFail, RingInv
    <2>3. UNCHANGED <<aqOk, ring, prodCnt, addrReg, eventCounter>>
      BY <1>10 DEF ScanPass, ScanFail, driverVars, deviceVars
    <2>4. PendingMap = <<>> /\ PendingMap' = <<>>
      BY <2>2, <2>3 DEF PendingMap
    <2>5. ret' = ParseErr(ring[SlotOf(Dec(eventCounter))].status)
      <3>1. CASE ScanPass
        <4>1. ring[SlotOf(Dec(head))].status = "PASSED"
          BY <2>2, <3>1, ScanPassPassed DEF ScanPass
        <4>2. ParseErr("PASSED") = "OK"
          BY DEF ParseErr, Retryable, Denied
        <4>3. ret' = "OK"
          BY <3>1 DEF ScanPass
        <4>4. QED
          BY <2>2, <4>1, <4>2, <4>3
      <3>2. CASE ScanFail
        <4>1. ret' # "OK" /\ pc = "scan" /\ pc' = "idle"
          BY <3>2, ScanFailErr DEF ScanFail
        <4>2. QED
          BY <2>2, <4>1, ScanErrorStep
      <3>3. QED
        BY <1>10, <3>1, <3>2
    <2>6. Chan!Return
      BY <2>1, <2>3, <2>4, <2>5 DEF Chan!Return
    <2>7. QED
      BY <2>6 DEF Chan!Next
  <1>11. CASE \E s \in DeviceStatuses : DeviceComplete(s)
    <2>1. PICK s \in DeviceStatuses : DeviceComplete(s)
      BY <1>11
    <2>2. Pending
      BY <2>1, QuietDevice
    <2>3. /\ Inc(eventCounter) = prodCnt
          /\ SlotOf(eventCounter) \in 0 .. Mask
          /\ Dec(Inc(eventCounter)) = eventCounter
      BY <1>0, <2>2, PendingIsLast, IncDecInverse, IncDecRange, CounterNat
    <2>4. /\ PendingMap = <<ring[SlotOf(eventCounter)].opcode>>
          /\ PendingMap' = <<>>
      BY <2>1, <2>2, <2>3 DEF DeviceComplete, Pending, PendingMap
    <2>5. ring'[SlotOf(Dec(eventCounter'))].status = s
      BY <1>0, <2>1, <2>3 DEF DeviceComplete, TypeOK
    <2>6. CallerMap' = CallerMap
      BY <2>1, Zenon DEF DeviceComplete, threadVars, CallerMap
    <2>7. s \in AllStatuses
      BY StatusAssumption
    <2>8. Chan!Complete(s)
      BY <2>1, <2>4, <2>5, <2>6 DEF DeviceComplete, Chan!Complete, threadVars
    <2>9. QED
      BY <2>7, <2>8 DEF Chan!Next
  <1>12. CASE DeviceRelease
    <2>1. aqOk /\ pc = "release_wait"
      BY <1>12 DEF DeviceRelease, RingInv
    <2>2. CallerMap = "release" /\ CallerMap' = "release"
      BY <1>12, <2>1, CallerMapValues, Zenon DEF DeviceRelease, threadVars,
                                              CallerMap
    <2>3. PendingMap' = <<>>
      BY <1>12 DEF DeviceRelease, PendingMap
    <2>4. ring'[SlotOf(Dec(eventCounter'))].status \in AllStatuses
      BY <1>0, SlotStatusType DEF TypeOK
    <2>5. Chan!LetGo
      BY <1>12, <2>2, <2>3, <2>4 DEF DeviceRelease, Chan!LetGo, driverVars,
                                     threadVars
    <2>6. QED
      BY <2>5 DEF Chan!Next
  <1>13. CASE UNCHANGED vars
    <2>1. CallerMap' = CallerMap
      BY <1>13, Zenon DEF vars, threadVars, CallerMap
    <2>2. QED
      BY <1>13, <2>1 DEF vars, driverVars, threadVars, deviceVars, Chan!cvars,
                         PendingMap
  <1>14. QED
    BY <1>1, <1>2, <1>3, <1>4, <1>5, <1>6, <1>7, <1>8, <1>9, <1>10, <1>11,
       <1>12, <1>13 DEF Next, ExecStep

(* Driven by the lifecycle operations (gve_adminq_configure_*, the queue    *)
(* loops, gve_adminq_register_page_list and gve_adminq_free), the admin     *)
(* queue implements the safety part of the one-command channel: it opens   *)
(* and closes as the channel does, refuses a command while one is          *)
(* outstanding, and every return of gve_adminq_execute_cmd other than a    *)
(* timeout reports the verdict on the status the device wrote last, for    *)
(* every ring size and counter width whose counter cannot wrap (NoWrap).   *)
THEOREM ChannelRefinement ==
  ASSUME NoWrap
  PROVE  LifeSpec => Chan!Init /\ [][Chan!Next]_Chan!cvars
  <1>1. LifeInit => Chan!Init
    BY ChannelInit DEF LifeInit
  <1>2. LoopInv /\ [LifeNext]_allVars => [Chan!Next]_Chan!cvars
    <2> SUFFICES ASSUME LoopInv, [LifeNext]_allVars
                 PROVE  [Chan!Next]_Chan!cvars
      OBVIOUS
    <2>1. RingInv /\ LifeTypeOK
      BY DEF LoopInv, LifeInv
    <2>2. [Next]_vars
      BY <2>1, LifeStepIsAdminQStep
    <2>3. pc = "scan" => eventCounter = prodCnt /\ prodCnt # 0
      BY DEF LoopInv, DriverInv, CountInv
    <2>4. QED
      BY <2>1, <2>2, <2>3, ChannelStepAQ
  <1>3. LoopInv /\ [LifeNext]_allVars => LoopInv'
    BY LoopInvStep
  <1>4. QED
    BY <1>1, <1>2, <1>3, LoopInvInit, PTL DEF LifeSpec
=============================================================================
