--------------------------- MODULE Lifecycle_proofs ---------------------------
(***************************************************************************)
(* Proofs about the lifecycle operations composed with the admin queue,    *)
(* for every ring size, counter width, poll bound, number of queues and    *)
(* operation bound that the assumptions allow.                             *)
(*                                                                         *)
(* The composition only ever takes AdminQ steps (or leaves AdminQ's state  *)
(* alone), so everything proved of AdminQ's Next carries over: the ring    *)
(* invariant, and with it the ring safety properties, hold in the          *)
(* composed system too.                                                    *)
(***************************************************************************)
EXTENDS Lifecycle, AdminQ_proofs

(* The opcode the caller executes next is one the admin queue issues.      *)
LEMMA CallOpcodeType ==
  ASSUME op \in Ops, opcode \in Opcodes
  PROVE  CallOpcode \in Opcodes
  <1>1. CASE op \in LoopOps
    <2>1. CallOpcode = LoopOpcode[op]
      BY <1>1, LifecycleAssumption DEF CallOpcode, LoopOpcode
    <2>2. QED
      BY <1>1, <2>1, LifecycleAssumption
  <1>2. CASE op = "register"
    <2>1. op \notin LoopOps
      BY <1>2, LifecycleAssumption DEF LoopOpcode
    <2>2. QED
      BY <1>2, <2>1, LifecycleAssumption DEF CallOpcode
  <1>3. CASE op = "single"
    <2>1. op \notin LoopOps
      BY <1>3, LifecycleAssumption DEF LoopOpcode
    <2>2. QED
      BY <1>3, <2>1 DEF CallOpcode
  <1>4. QED
    BY <1>1, <1>2, <1>3 DEF Ops

(* Every step of the composition is a step of the admin queue, or leaves   *)
(* the admin queue's state unchanged.                                      *)
LEMMA LifeStepIsAdminQStep ==
  ASSUME LifeTypeOK, [LifeNext]_allVars
  PROVE  [Next]_vars
  <1>1. CASE AdminqSetup
    BY <1>1 DEF AdminqSetup, Next
  <1>2. CASE \E l \in LoopOps : LoopBegin(l)
    BY <1>2 DEF LoopBegin
  <1>3. CASE \E o \in SingleOps : SingleBegin(o)
    BY <1>3 DEF SingleBegin
  <1>4. CASE RegisterBegin \/ RegisterAllocFail
    BY <1>4 DEF RegisterBegin, RegisterAllocFail
  <1>5. CASE CallExecute
    <2>1. CallOpcode \in Opcodes
      BY CallOpcodeType DEF LifeTypeOK
    <2>2. QED
      BY <1>5, <2>1 DEF CallExecute, Next
  <1>6. CASE LoopDone \/ ExecReturned
    BY <1>6 DEF LoopDone, ExecReturned
  <1>7. CASE IssueArg \/ ExecProgress
    BY <1>7 DEF IssueArg, ExecProgress, Next, ExecStep
  <1>8. CASE \E s \in DeviceStatuses : DeviceRuns(s)
    BY <1>8 DEF DeviceRuns, Next
  <1>9. CASE DeviceLetsGo
    BY <1>9 DEF DeviceLetsGo, Next
  <1>10. CASE UNCHANGED allVars
    BY <1>10 DEF allVars
  <1>11. QED
    BY <1>1, <1>2, <1>3, <1>4, <1>5, <1>6, <1>7, <1>8, <1>9, <1>10
       DEF LifeNext, CallerStep

-----------------------------------------------------------------------------
(* The initial state of the composition satisfies LifeInv.                 *)
LEMMA LifeInvInit == LifeInit => LifeInv
  <1> SUFFICES ASSUME LifeInit PROVE LifeInv
    OBVIOUS
  <1>1. RingInv /\ TypeOK
    BY RingInit DEF LifeInit, RingInv
  <1>2. /\ ops = 0 /\ 0 \in 0 .. MaxOps /\ 0 \in 0 .. NumQueues
        /\ opcode \in Opcodes
    BY LifecycleAssumption DEF LifeInit, Init
  <1>3. slotArg \in [0 .. Mask -> Nat] /\ devQ \in [{"rx", "tx"} -> SUBSET Queues]
    BY DEF LifeInit
  <1>4. \A sl \in 0 .. Mask : ring[sl].opcode = "NONE"
    BY DEF LifeInit, Init, ZeroSlot
  <1>5. "NONE" \notin DOMAIN QueueOpcodeDir
    BY DEF QueueOpcodeDir
  <1>6. QED
    BY <1>1, <1>2, <1>3, <1>4, <1>5
       DEF LifeInit, Init, LifeInv, LifeTypeOK, CallerInv, Ops, Errnos

(* A queue command is executed only by a queue loop.                       *)
LEMMA QueueOpcodeOnlyInLoops ==
  ASSUME op \in Ops, lpc # "idle", op = "single" => opcode \in SingleOps,
         CallOpcode \in DOMAIN QueueOpcodeDir
  PROVE  op \in LoopOps
  <1> SUFFICES ASSUME op \notin LoopOps PROVE FALSE
    OBVIOUS
  <1>1. CASE op = "register"
    BY <1>1, LifecycleAssumption DEF CallOpcode, QueueOpcodeDir, LoopOpcode
  <1>2. CASE op = "single"
    <2>1. CallOpcode = opcode /\ opcode \in SingleOps
      BY <1>2, LifecycleAssumption DEF CallOpcode, LoopOpcode
    <2>2. DOMAIN QueueOpcodeDir = {LoopOpcode[l] : l \in DOMAIN LoopOpcode}
      BY DEF QueueOpcodeDir, LoopOpcode
    <2>3. QED
      BY <2>1, <2>2, LifecycleAssumption
  <1>3. QED
    BY <1>1, <1>2 DEF Ops

(* The loop names are not the names of the other operations.               *)
LEMMA LoopOpsNames == "register" \notin LoopOps /\ "single" \notin LoopOps
  BY LifecycleAssumption DEF LoopOpcode

(* A step that leaves the caller, the ring, the thread's pc and its command *)
(* alone keeps the caller's part of LifeInv.                                 *)
LEMMA CallerFrame ==
  ASSUME LifeTypeOK, CallerInv, TypeOK',
         UNCHANGED <<lifeVars, ring, pc, cmd>>
  PROVE  LifeTypeOK' /\ CallerInv'
  <1>1. CallOpcode' = CallOpcode
    BY DEF CallOpcode, lifeVars
  <1>2. LifeTypeOK'
    BY DEF LifeTypeOK, lifeVars
  <1>3. CallerInv'
    BY <1>1 DEF CallerInv, lifeVars
  <1>4. QED
    BY <1>2, <1>3

(* Every step of the composition preserves LifeInv.                        *)
LEMMA LifeInvStep == LifeInv /\ [LifeNext]_allVars => LifeInv'
  <1> SUFFICES ASSUME LifeInv, [LifeNext]_allVars PROVE LifeInv'
    OBVIOUS
  <1>0. /\ RingInv' /\ TypeOK /\ TypeOK' /\ LifeTypeOK /\ CallerInv
        /\ NumQueues \in Nat /\ MaxOps \in Nat
    <2>1. [Next]_vars
      BY LifeStepIsAdminQStep DEF LifeInv
    <2>2. QED
      BY <2>1, RingStep, LifecycleAssumption DEF LifeInv, RingInv
  <1>. SUFFICES LifeTypeOK' /\ CallerInv'
    BY <1>0 DEF LifeInv
  <1>1. CASE AdminqSetup
    <2>1. UNCHANGED lifeVars /\ lpc = "idle" /\ lpc' = "idle"
      BY <1>1 DEF AdminqSetup, lifeVars
    <2>2. pc' \in {"idle", "release_wait"} /\ cmd' = cmd
      BY <1>1 DEF AdminqSetup, AllocAdminq, AllocFail, ReleaseBegin,
         ReleaseDone, threadVars
    <2>3. ring' = ring \/ ring' = [i \in 0 .. Mask |-> ZeroSlot]
      BY <1>1 DEF AdminqSetup, AllocAdminq, AllocFail, ReleaseBegin,
         ReleaseDone, driverVars
    <2>4. \A sl \in 0 .. Mask :
            ring'[sl].opcode \in DOMAIN QueueOpcodeDir => slotArg'[sl] \in Queues
      <3>1. "NONE" \notin DOMAIN QueueOpcodeDir
        BY DEF QueueOpcodeDir
      <3>2. CASE ring' = ring
        BY <2>1, <3>2, <1>0 DEF CallerInv, lifeVars
      <3>3. CASE ring' = [i \in 0 .. Mask |-> ZeroSlot]
        <4>1. \A sl \in 0 .. Mask : ring'[sl].opcode = "NONE"
          BY <3>3 DEF ZeroSlot
        <4>2. QED
          BY <4>1, <3>1
      <3>4. QED
        BY <2>3, <3>2, <3>3
    <2>5. LifeTypeOK'
      BY <1>0, <2>1 DEF LifeTypeOK, lifeVars
    <2>6. CallerInv'
      BY <2>1, <2>2, <2>4 DEF CallerInv
    <2>7. QED
      BY <2>5, <2>6
  <1>2. CASE \E l \in LoopOps : LoopBegin(l)
    <2>1. PICK l \in LoopOps : LoopBegin(l)
      BY <1>2
    <2>2. /\ lpc' = "call" /\ op' = l /\ qi' = 0 /\ ops' = ops + 1
          /\ ops < MaxOps /\ pc = "idle"
          /\ UNCHANGED <<opcode, lret, devQ, slotArg, staging, ring, pc>>
      BY <2>1 DEF LoopBegin, CanStart, vars, driverVars, threadVars
    <2>3. l \in Ops /\ l # "single"
      BY LoopOpsNames DEF Ops
    <2>4. LifeTypeOK'
      BY <1>0, <2>2, <2>3 DEF LifeTypeOK
    <2>5. CallerInv'
      BY <1>0, <2>2, <2>3 DEF CallerInv, LifeTypeOK
    <2>6. QED
      BY <2>4, <2>5
  <1>3. CASE \E o \in SingleOps : SingleBegin(o)
    <2>1. PICK o \in SingleOps : SingleBegin(o)
      BY <1>3
    <2>2. /\ lpc' = "call" /\ op' = "single" /\ opcode' = o /\ ops' = ops + 1
          /\ ops < MaxOps /\ pc = "idle"
          /\ UNCHANGED <<qi, lret, devQ, slotArg, staging, ring, pc>>
      BY <2>1 DEF SingleBegin, CanStart, vars, driverVars, threadVars
    <2>3. o \in Opcodes /\ "single" \in Ops
      BY LifecycleAssumption DEF Ops
    <2>4. LifeTypeOK'
      BY <1>0, <2>2, <2>3 DEF LifeTypeOK
    <2>5. CallerInv'
      BY <1>0, <2>2 DEF CallerInv, LifeTypeOK
    <2>6. QED
      BY <2>4, <2>5
  <1>4. CASE RegisterBegin
    <2>1. /\ lpc' = "call" /\ op' = "register" /\ ops' = ops + 1
          /\ staging' = staging \cup {ops}
          /\ ops < MaxOps /\ pc = "idle"
          /\ UNCHANGED <<opcode, qi, lret, devQ, slotArg, ring, pc>>
      BY <1>4 DEF RegisterBegin, CanStart, vars, driverVars, threadVars
    <2>2. "register" \in Ops
      BY DEF Ops
    <2>3. LifeTypeOK'
      BY <1>0, <2>1, <2>2 DEF LifeTypeOK
    <2>4. CallerInv'
      BY <1>0, <2>1 DEF CallerInv, LifeTypeOK
    <2>5. QED
      BY <2>3, <2>4
  <1>5. CASE RegisterAllocFail
    <2>1. /\ lret' = "ENOMEM" /\ ops' = ops + 1 /\ ops < MaxOps
          /\ lpc = "idle" /\ pc = "idle"
          /\ UNCHANGED <<lpc, op, opcode, qi, devQ, slotArg, staging, ring,
                         pc, cmd>>
      BY <1>5 DEF RegisterAllocFail, CanStart, vars, driverVars, threadVars
    <2>2. LifeTypeOK'
      BY <1>0, <2>1 DEF LifeTypeOK, Errnos
    <2>3. CallOpcode' = CallOpcode
      BY <2>1 DEF CallOpcode
    <2>4. CallerInv'
      BY <1>0, <2>1, <2>3 DEF CallerInv
    <2>5. QED
      BY <2>2, <2>4
  <1>6. CASE CallExecute
    <2>1. /\ lpc = "call" /\ lpc' = "wait" /\ pc = "idle"
          /\ UNCHANGED <<op, opcode, qi, lret, ops, devQ, slotArg, staging,
                         ring>>
          /\ cmd' = CallOpcode
          /\ pc' \in {"idle", "issue"}
          /\ op \in LoopOps => qi < NumQueues
      BY <1>6 DEF CallExecute, ExecBegin, ExecBusy, driverVars
    <2>2. CallOpcode' = CallOpcode
      BY <2>1 DEF CallOpcode
    <2>3. LifeTypeOK'
      BY <1>0, <2>1 DEF LifeTypeOK
    <2>4. CallerInv'
      BY <1>0, <2>1, <2>2 DEF CallerInv
    <2>5. QED
      BY <2>3, <2>4
  <1>7. CASE LoopDone
    <2>1. /\ lpc = "call" /\ lpc' = "idle" /\ lret' = "OK"
          /\ UNCHANGED <<op, opcode, qi, ops, devQ, slotArg, staging, ring,
                         pc, cmd>>
      BY <1>7 DEF LoopDone, vars, driverVars, threadVars
    <2>2. LifeTypeOK'
      BY <1>0, <2>1 DEF LifeTypeOK, Errnos
    <2>3. CallOpcode' = CallOpcode
      BY <2>1 DEF CallOpcode
    <2>4. CallerInv'
      BY <1>0, <2>1, <2>3 DEF CallerInv
    <2>5. QED
      BY <2>2, <2>4
  <1>8. CASE ExecReturned
    <2>1. /\ lpc = "wait" /\ pc = "idle"
          /\ UNCHANGED <<op, opcode, ops, devQ, slotArg, ring, pc, cmd>>
          /\ lpc' \in {"idle", "call"}
          /\ qi' \in {qi, qi + 1} /\ (qi' = qi + 1 => op \in LoopOps)
          /\ lret' \in {lret, ret}
          /\ staging' \subseteq staging
      <3>1. /\ lpc = "wait" /\ pc = "idle"
            /\ UNCHANGED <<op, opcode, ops, devQ, slotArg, ring, pc, cmd>>
        BY <1>8 DEF ExecReturned, vars, driverVars, threadVars
      <3>2. /\ lpc' \in {"idle", "call"}
            /\ qi' \in {qi, qi + 1} /\ (qi' = qi + 1 => op \in LoopOps)
            /\ lret' \in {lret, ret}
            /\ staging' \subseteq staging
        <4>1. CASE op \in LoopOps /\ ret = "OK" /\ qi' = qi + 1 /\ lpc' = "call"
                   /\ UNCHANGED <<lret, staging>>
          BY <4>1
        <4>2. CASE lret' = ret /\ lpc' = "idle" /\ UNCHANGED <<qi, staging>>
          BY <1>0, <4>2 DEF LifeTypeOK
        <4>3. CASE staging' = staging \ {ops - 1} /\ lret' = ret /\ lpc' = "idle"
                   /\ UNCHANGED qi
          BY <1>0, <4>3 DEF LifeTypeOK
        <4>4. QED
          BY <1>8, <4>1, <4>2, <4>3 DEF ExecReturned
      <3>3. QED
        BY <3>1, <3>2
    <2>2. qi' \in 0 .. NumQueues
      BY <1>0, <2>1 DEF CallerInv, LifeTypeOK
    <2>3. lret' \in Errnos
      BY <1>0, <2>1 DEF TypeOK, LifeTypeOK
    <2>4. LifeTypeOK'
      BY <1>0, <2>1, <2>2, <2>3 DEF LifeTypeOK
    <2>5. CallerInv'
      BY <1>0, <2>1 DEF CallerInv
    <2>6. QED
      BY <2>4, <2>5
  <1>9. CASE IssueArg
    <2>1. /\ pc = "issue" /\ pc' = "kick" /\ lpc = "wait"
          /\ cmd = CallOpcode /\ cmd' = cmd
          /\ UNCHANGED <<lpc, op, opcode, qi, lret, ops, devQ, staging>>
      BY <1>0, <1>9 DEF IssueArg, Issue, CallerInv
    <2>2. SlotOf(prodCnt) \in 0 .. Mask
      <3>1. prodCnt \in Nat
        BY <1>0, CounterNat DEF TypeOK
      <3>2. QED
        BY <3>1, IncDecRange
    <2>3. /\ ring' = [ring EXCEPT ![SlotOf(prodCnt)] =
                        [opcode |-> cmd, status |-> "UNSET", seq |-> prodCnt]]
          /\ slotArg' = [slotArg EXCEPT ![SlotOf(prodCnt)] = CallArg]
      BY <1>9 DEF IssueArg, Issue
    <2>4. CallArg \in Nat
      BY <1>0, <2>1 DEF CallArg, CallerInv, LifeTypeOK
    <2>5. cmd \in DOMAIN QueueOpcodeDir => CallArg \in Queues
      <3> SUFFICES ASSUME cmd \in DOMAIN QueueOpcodeDir PROVE CallArg \in Queues
        OBVIOUS
      <3>1. op \in LoopOps
        BY <1>0, <2>1, QueueOpcodeOnlyInLoops DEF CallerInv, LifeTypeOK
      <3>2. qi \in Nat /\ qi < NumQueues
        BY <1>0, <2>1, <3>1 DEF CallerInv, LifeTypeOK
      <3>3. QED
        BY <1>0, <3>1, <3>2 DEF CallArg, Queues
    <2>6. \A sl \in 0 .. Mask :
            ring'[sl].opcode \in DOMAIN QueueOpcodeDir => slotArg'[sl] \in Queues
      <3> SUFFICES ASSUME NEW sl \in 0 .. Mask,
                          ring'[sl].opcode \in DOMAIN QueueOpcodeDir
                   PROVE  slotArg'[sl] \in Queues
        OBVIOUS
      <3>1. ring \in [0 .. Mask -> Slot] /\ slotArg \in [0 .. Mask -> Nat]
        BY <1>0 DEF TypeOK, LifeTypeOK
      <3>2. CASE sl = SlotOf(prodCnt)
        <4>1. ring'[sl].opcode = cmd /\ slotArg'[sl] = CallArg
          BY <2>2, <2>3, <3>1, <3>2
        <4>2. QED
          BY <2>5, <4>1
      <3>3. CASE sl # SlotOf(prodCnt)
        <4>1. ring'[sl] = ring[sl] /\ slotArg'[sl] = slotArg[sl]
          BY <2>3, <3>1, <3>3
        <4>2. QED
          BY <1>0, <4>1 DEF CallerInv
      <3>4. QED
        BY <3>2, <3>3
    <2>7. slotArg' \in [0 .. Mask -> Nat]
      BY <1>0, <2>2, <2>3, <2>4 DEF LifeTypeOK
    <2>8. LifeTypeOK'
      BY <1>0, <2>1, <2>7 DEF LifeTypeOK
    <2>9. CallerInv'
      BY <1>0, <2>1, <2>6 DEF CallerInv
    <2>10. QED
      BY <2>8, <2>9
  <1>10. CASE ExecProgress
    <2>1. /\ UNCHANGED <<lifeVars, ring, cmd>>
          /\ pc \in {"kick", "wait", "scan"}
          /\ pc' \in {"wait", "scan", "idle"}
      BY <1>10 DEF ExecProgress, Kick, WaitDone, WaitSleep, WaitTimeout,
         ScanPass, ScanFail, driverVars, threadVars
    <2>2. CallOpcode' = CallOpcode
      BY <2>1 DEF CallOpcode, lifeVars
    <2>3. LifeTypeOK'
      BY <1>0, <2>1 DEF LifeTypeOK, lifeVars
    <2>4. CallerInv'
      BY <1>0, <2>1, <2>2 DEF CallerInv, lifeVars
    <2>5. QED
      BY <2>3, <2>4
  <1>11. CASE \E s \in DeviceStatuses : DeviceRuns(s)
    <2>1. PICK s \in DeviceStatuses : DeviceRuns(s)
      BY <1>11
    <2>2. DEFINE sl0 == SlotOf(eventCounter)
                 o == ring[sl0].opcode
                 q == slotArg[sl0]
    <2>3. sl0 \in 0 .. Mask
      BY <1>0, CounterNat, IncDecRange DEF TypeOK
    <2>4. o \in DOMAIN QueueOpcodeDir => q \in Queues
      BY <1>0, <2>3 DEF CallerInv
    <2>5. DeviceEffect(o, q, s) \in [{"rx", "tx"} -> SUBSET Queues]
      BY <1>0, <2>4 DEF DeviceEffect, LifeTypeOK
    <2>6. /\ devQ' = DeviceEffect(o, q, s)
          /\ UNCHANGED <<lpc, op, opcode, qi, lret, ops, slotArg, staging,
                         pc, cmd>>
          /\ ring' = [ring EXCEPT ![sl0].status = s]
      BY <2>1 DEF DeviceRuns, DeviceComplete, threadVars
    <2>7. \A sl \in 0 .. Mask : ring'[sl].opcode = ring[sl].opcode
      BY <1>0, <2>3, <2>6 DEF TypeOK
    <2>8. LifeTypeOK'
      BY <1>0, <2>5, <2>6 DEF LifeTypeOK
    <2>9. CallOpcode' = CallOpcode
      BY <2>6 DEF CallOpcode
    <2>10. CallerInv'
      BY <1>0, <2>6, <2>7, <2>9 DEF CallerInv
    <2>11. QED
      BY <2>8, <2>10
  <1>12. CASE DeviceLetsGo
    <2>1. UNCHANGED <<lifeVars, ring, pc, cmd>>
      BY <1>12 DEF DeviceLetsGo, DeviceRelease, driverVars, threadVars
    <2>2. QED
      BY <1>0, <2>1, CallerFrame
  <1>13. CASE UNCHANGED allVars
    <2>1. UNCHANGED <<lifeVars, ring, pc, cmd>>
      BY <1>13 DEF allVars, vars, driverVars, threadVars
    <2>2. QED
      BY <1>0, <2>1, CallerFrame
  <1>14. QED
    BY <1>1, <1>2, <1>3, <1>4, <1>5, <1>6, <1>7, <1>8, <1>9, <1>10, <1>11,
       <1>12, <1>13 DEF LifeNext, CallerStep

(* LifeInv holds in every reachable state of the composition.              *)
THEOREM LifeInvariant == LifeSpec => []LifeInv
  BY LifeInvInit, LifeInvStep, PTL DEF LifeSpec

(* The lifecycle operations keep every variable of the composition in its  *)
(* type: a loop index never passes num_queues, the device only ever holds   *)
(* queues below num_queues, and every ring slot's argument is a number.     *)
THEOREM LifeTypeCorrect == LifeSpec => []LifeTypeOK
  BY LifeInvariant, PTL DEF LifeInv

(* Driven by the lifecycle operations, the admin queue keeps its ring      *)
(* safety: the device consumes only commands the driver issued and         *)
(* issue_cmd never finds the ring full.                                    *)
THEOREM LifeRingSafety ==
  LifeSpec => [](DeviceConsumesOnlyIssued /\ IssueNeverOverflows)
  <1>1. LifeInv => DeviceConsumesOnlyIssued /\ IssueNeverOverflows
    BY RingInvSafe DEF LifeInv
  <1>2. QED
    BY <1>1, LifeInvariant, PTL

-----------------------------------------------------------------------------
(***************************************************************************)
(* The queue loops' results, as long as prod_cnt does not wrap.            *)
(***************************************************************************)

(* The loop opcodes are queue commands of the loop's direction, and a      *)
(* create loop's opcode is a create.                                       *)
LEMMA LoopOpcodeFacts ==
  ASSUME NEW l \in LoopOps
  PROVE  /\ LoopOpcode[l] \in DOMAIN QueueOpcodeDir
         /\ QueueOpcodeDir[LoopOpcode[l]] = LoopDir[l]
         /\ LoopOpcode[l] \in CreateOpcodes <=> l \in {"create_rx", "create_tx"}
  <1>1. l \in {"create_rx", "create_tx", "destroy_rx", "destroy_tx"}
    BY LifecycleAssumption DEF LoopOpcode
  <1>2. QED
    BY <1>1 DEF LoopOpcode, QueueOpcodeDir, LoopDir, CreateOpcodes

(* The initial state satisfies LoopInv.                                    *)
LEMMA LoopInvInit == LifeInit => LoopInv
  <1> SUFFICES ASSUME LifeInit PROVE LoopInv
    OBVIOUS
  <1>1. LifeInv
    BY LifeInvInit
  <1>2. /\ aqMem = FALSE /\ aqOk = FALSE /\ pc = "idle" /\ lpc = "idle"
        /\ prodCnt = 0 /\ ops = 0 /\ addrReg = "none" /\ op = "single"
    BY DEF LifeInit, Init
  <1>3. IssueBudget = 0
    BY <1>2, LifecycleAssumption DEF IssueBudget
  <1>4. "single" \notin LoopOps
    BY LoopOpsNames
  <1>5. DriverInv
    BY <1>2 DEF DriverInv
  <1>8. CountInv
    <2>1. prodCnt <= IssueBudget
      BY <1>2, <1>3
    <2>2. QED
      BY <1>2, <2>1 DEF CountInv
  <1>6. LastEffect /\ LoopProgress /\ LoopFinal
    BY <1>2, <1>4 DEF LastEffect, LoopProgress, LoopFinal
  <1>7. QED
    BY <1>1, <1>5, <1>8, <1>6 DEF LoopInv

(* Every step preserves the driver side of LoopInv.                        *)
LEMMA DriverInvStep ==
  ASSUME LoopInv, [LifeNext]_allVars
  PROVE  DriverInv'
  <1>0. /\ LifeInv /\ RingInv /\ TypeOK /\ CallerInv /\ DriverInv
    BY DEF LoopInv, LifeInv, RingInv
  <1>1. aqMem' = aqOk'
    <2>1. CASE AdminqSetup
      <3>1. CASE AllocAdminq
        BY <3>1 DEF AllocAdminq
      <3>2. CASE ReleaseDone
        BY <3>2 DEF ReleaseDone
      <3>3. CASE AllocFail \/ ReleaseBegin
        BY <1>0, <3>3 DEF AllocFail, ReleaseBegin, driverVars, DriverInv
      <3>4. QED
        BY <2>1, <3>1, <3>2, <3>3 DEF AdminqSetup
    <2>2. CASE ~AdminqSetup
      <3>1. UNCHANGED <<aqOk, aqMem>>
        BY <2>2 DEF LifeNext, CallerStep, LoopBegin, SingleBegin,
           RegisterBegin, RegisterAllocFail, CallExecute, ExecBegin, ExecBusy,
           LoopDone, ExecReturned, IssueArg, Issue, ExecProgress, Kick,
           WaitDone, WaitSleep, WaitTimeout, ScanPass, ScanFail, DeviceRuns,
           DeviceComplete, DeviceLetsGo, DeviceRelease, allVars, vars,
           driverVars
      <3>2. QED
        BY <1>0, <3>1 DEF DriverInv
    <2>3. QED
      BY <2>1, <2>2
  <1>2. lpc' # "idle" => aqOk' /\ pc' # "release_wait"
    <2>1. CASE AdminqSetup
      BY <2>1 DEF AdminqSetup, lifeVars
    <2>2. CASE \E l \in LoopOps : LoopBegin(l)
      BY <2>2 DEF LoopBegin, CanStart, vars, driverVars, threadVars
    <2>3. CASE \E o \in SingleOps : SingleBegin(o)
      BY <2>3 DEF SingleBegin, CanStart, vars, driverVars, threadVars
    <2>4. CASE RegisterBegin \/ RegisterAllocFail
      BY <2>4 DEF RegisterBegin, RegisterAllocFail, CanStart, vars,
         driverVars, threadVars
    <2>5. CASE CallExecute
      BY <1>0, <2>5 DEF CallExecute, ExecBegin, ExecBusy, driverVars,
         CallerInv
    <2>6. CASE LoopDone \/ ExecReturned
      BY <1>0, <2>6 DEF LoopDone, ExecReturned, vars, driverVars, threadVars,
         DriverInv
    <2>7. CASE IssueArg \/ ExecProgress
      <3>1. lpc' = lpc /\ aqOk' = aqOk
        BY <2>7 DEF IssueArg, Issue, ExecProgress, Kick, WaitDone,
           WaitSleep, WaitTimeout, ScanPass, ScanFail, lifeVars, driverVars
      <3>2. pc' \in {"kick", "wait", "scan", "idle"}
        BY <2>7 DEF IssueArg, Issue, ExecProgress, Kick, WaitDone,
           WaitSleep, WaitTimeout, ScanPass, ScanFail
      <3>3. QED
        BY <1>0, <3>1, <3>2 DEF DriverInv
    <2>8. CASE \E s \in DeviceStatuses : DeviceRuns(s)
      BY <1>0, <2>8 DEF DeviceRuns, DeviceComplete, threadVars, DriverInv
    <2>9. CASE DeviceLetsGo
      BY <1>0, <2>9 DEF DeviceLetsGo, DeviceRelease, lifeVars, driverVars,
         threadVars, DriverInv
    <2>10. CASE UNCHANGED allVars
      BY <1>0, <2>10 DEF allVars, lifeVars, vars, driverVars, threadVars,
         DriverInv
    <2>11. QED
      BY <2>1, <2>2, <2>3, <2>4, <2>5, <2>6, <2>7, <2>8, <2>9, <2>10
         DEF LifeNext, CallerStep
  <1>3. pc' = "scan" => eventCounter' = prodCnt'
    <2>1. CASE ExecProgress
      <3>1. CASE WaitDone
        BY <1>0, <3>1 DEF WaitDone, RingInv, driverVars, deviceVars
      <3>2. CASE ~WaitDone
        BY <1>0, <2>1, <3>2 DEF ExecProgress, Kick, WaitSleep, WaitTimeout,
           ScanPass, ScanFail, DriverInv, driverVars
      <3>3. QED
        BY <3>1, <3>2
    <2>2. CASE \E s \in DeviceStatuses : DeviceRuns(s)
      <3>1. pc # "scan"
        BY <1>0, <2>2 DEF DeviceRuns, DeviceComplete, RingInv, DriverInv
      <3>2. QED
        BY <2>2, <3>1 DEF DeviceRuns, DeviceComplete, threadVars
    <2>3. CASE DeviceLetsGo
      <3>1. pc # "scan"
        BY <1>0, <2>3 DEF DeviceLetsGo, DeviceRelease, RingInv
      <3>2. QED
        BY <2>3, <3>1 DEF DeviceLetsGo, DeviceRelease, threadVars
    <2>4. CASE AdminqSetup
      BY <2>4 DEF AdminqSetup, AllocAdminq, AllocFail, ReleaseBegin,
         ReleaseDone
    <2>5. CASE CallExecute
      BY <2>5 DEF CallExecute, ExecBegin, ExecBusy
    <2>6. CASE IssueArg
      BY <2>6 DEF IssueArg, Issue
    <2>7. CASE \/ \E l \in LoopOps : LoopBegin(l)
               \/ \E o \in SingleOps : SingleBegin(o)
               \/ RegisterBegin \/ RegisterAllocFail \/ LoopDone
               \/ ExecReturned \/ UNCHANGED allVars
      BY <1>0, <2>7 DEF LoopBegin, SingleBegin, RegisterBegin,
         RegisterAllocFail, LoopDone, ExecReturned, allVars, vars, driverVars,
         threadVars, deviceVars, DriverInv
    <2>8. QED
      BY <2>1, <2>2, <2>3, <2>4, <2>5, <2>6, <2>7 DEF LifeNext, CallerStep
  <1>4. QED
    BY <1>1, <1>2, <1>3 DEF DriverInv

(* The commands a loop has issued for its queues so far, plus one per      *)
(* queue still to come, stay within num_queues per operation.              *)
LEMMA LoopShare ==
  ASSUME LifeInv
  PROVE  LET B == IF op \in LoopOps THEN qi ELSE 0
         IN  /\ B \in 0 .. NumQueues
             /\ lpc = "wait" => B \in 0 .. NumQueues - 1
  <1>1. NumQueues \in Nat \ {0} /\ qi \in 0 .. NumQueues
    BY LifecycleAssumption DEF LifeInv, LifeTypeOK
  <1>2. lpc = "wait" /\ op \in LoopOps => qi < NumQueues
    BY DEF LifeInv, CallerInv
  <1>3. QED
    BY <1>1, <1>2

(* Every step keeps prod_cnt within the operations' budget, and as long as  *)
(* that budget is below the counter's modulus gve_adminq_issue_cmd's        *)
(* increment of prod_cnt does not wrap it to 0.                             *)
LEMMA CountInvStep ==
  ASSUME NoWrap, LoopInv, [LifeNext]_allVars
  PROVE  CountInv'
  <1>0. /\ LifeInv /\ RingInv /\ TypeOK /\ CallerInv /\ CountInv
        /\ LifeTypeOK
        /\ NumQueues \in Nat \ {0} /\ MaxOps \in Nat /\ ops \in 0 .. MaxOps
        /\ prodCnt \in Nat /\ qi \in 0 .. NumQueues
        /\ IssueBudget \in Int /\ IssueBudget' \in Int
    <2>1. LifeInv'
      BY LifeInvStep DEF LoopInv
    <2>2. /\ ops' \in 0 .. MaxOps /\ qi' \in 0 .. NumQueues
          /\ ops \in 0 .. MaxOps /\ qi \in 0 .. NumQueues
      BY <2>1 DEF LoopInv, LifeInv, LifeTypeOK
    <2>3. NumQueues \in Nat
      BY LifecycleAssumption
    <2>4. IssueBudget \in Int /\ IssueBudget' \in Int
      BY <2>2, <2>3 DEF IssueBudget
    <2>5. QED
      BY <2>4, LifecycleAssumption, CounterNat DEF LoopInv, LifeInv, RingInv,
         LifeTypeOK, TypeOK
  <1>1. CASE AdminqSetup
    <2>1. /\ UNCHANGED lifeVars /\ lpc = "idle"
          /\ prodCnt' \in {0, prodCnt} /\ pc' \in {"idle", "release_wait"}
      BY <1>1 DEF AdminqSetup, AllocAdminq, AllocFail, ReleaseBegin,
         ReleaseDone, driverVars
    <2>2. prodCnt' <= IssueBudget'
      BY <1>0, <2>1 DEF CountInv, IssueBudget, lifeVars
    <2>3. QED
      BY <2>1, <2>2 DEF CountInv
  <1>2. CASE \/ \E l \in LoopOps : LoopBegin(l)
             \/ \E o \in SingleOps : SingleBegin(o)
             \/ RegisterBegin
    <2>1. /\ lpc = "idle" /\ lpc' = "call" /\ ops' = ops + 1
          /\ pc = "idle" /\ UNCHANGED <<pc, prodCnt>>
          /\ (op' \in LoopOps => qi' = 0)
      <3>1. CASE \E l \in LoopOps : LoopBegin(l)
        BY <3>1 DEF LoopBegin, CanStart, vars, driverVars, threadVars
      <3>2. CASE \E o \in SingleOps : SingleBegin(o)
        BY <3>2, LoopOpsNames DEF SingleBegin, CanStart, vars, driverVars,
           threadVars
      <3>3. CASE RegisterBegin
        BY <3>3, LoopOpsNames DEF RegisterBegin, CanStart, vars, driverVars,
           threadVars
      <3>4. QED
        BY <1>2, <3>1, <3>2, <3>3
    <2>2. prodCnt <= ops * NumQueues
      BY <1>0, <2>1 DEF CountInv, IssueBudget
    <2>3. IssueBudget' = ops * NumQueues
      BY <1>0, <2>1 DEF IssueBudget
    <2>4. QED
      BY <2>1, <2>2, <2>3 DEF CountInv
  <1>3. CASE RegisterAllocFail
    <2>1. /\ lpc = "idle" /\ lpc' = "idle" /\ ops' = ops + 1
          /\ pc = "idle" /\ UNCHANGED <<pc, prodCnt>>
      BY <1>3 DEF RegisterAllocFail, CanStart, vars, driverVars, threadVars
    <2>2. ops * NumQueues <= (ops + 1) * NumQueues
      BY <1>0
    <2>3. QED
      BY <1>0, <2>1, <2>2 DEF CountInv, IssueBudget
  <1>4. CASE CallExecute
    <2>1. /\ lpc = "call" /\ lpc' = "wait" /\ pc = "idle"
          /\ pc' \in {"idle", "issue"}
          /\ UNCHANGED <<op, qi, ops, prodCnt>>
      BY <1>4 DEF CallExecute, ExecBegin, ExecBusy, driverVars
    <2>2. IssueBudget <= IssueBudget'
      BY <1>0, <2>1 DEF IssueBudget
    <2>3. QED
      BY <1>0, <2>1, <2>2 DEF CountInv
  <1>5. CASE LoopDone
    <2>1. /\ lpc = "call" /\ lpc' = "idle" /\ op \in LoopOps
          /\ ops >= 1 /\ qi <= NumQueues
          /\ UNCHANGED <<op, qi, ops, prodCnt, pc>>
      BY <1>0, <1>5 DEF LoopDone, vars, driverVars, threadVars, CallerInv,
         LifeTypeOK
    <2>2. (ops - 1) * NumQueues + qi <= ops * NumQueues
      BY <1>0, <2>1
    <2>3. IssueBudget <= IssueBudget'
      BY <1>0, <2>1, <2>2 DEF IssueBudget
    <2>4. QED
      BY <1>0, <2>1, <2>3 DEF CountInv
  <1>6. CASE ExecReturned
    <2>1. /\ lpc = "wait" /\ pc = "idle" /\ ops >= 1
          /\ UNCHANGED <<op, ops, prodCnt, pc>>
      BY <1>0, <1>6 DEF ExecReturned, vars, driverVars, threadVars, CallerInv
    <2>2. DEFINE B == IF op \in LoopOps THEN qi ELSE 0
    <2>3. B \in 0 .. NumQueues - 1
      BY <1>0, <2>1, LoopShare
    <2>4. IssueBudget = (ops - 1) * NumQueues + B + 1
      BY <2>1 DEF IssueBudget, B
    <2>5. CASE op \in LoopOps /\ ret = "OK"
      <3>1. qi' = qi + 1 /\ lpc' = "call"
        BY <1>6, <2>5, LoopOpsNames DEF ExecReturned
      <3>2. IssueBudget' = (ops - 1) * NumQueues + qi + 1
        <4>1. ops' = ops /\ op' = op /\ op' \in LoopOps
          BY <2>1, <2>5
        <4>2. IssueBudget' = (ops' - 1) * NumQueues + qi' + 0
          BY <3>1, <4>1 DEF IssueBudget
        <4>3. QED
          BY <1>0, <3>1, <4>1, <4>2
      <3>3. QED
        BY <1>0, <2>1, <2>4, <2>5, <3>2 DEF CountInv
    <2>6. CASE ~(op \in LoopOps /\ ret = "OK")
      <3>1. lpc' = "idle"
        BY <1>6, <2>6 DEF ExecReturned
      <3>2. IssueBudget' = ops * NumQueues
        BY <2>1, <3>1 DEF IssueBudget
      <3>3. (ops - 1) * NumQueues + B + 1 <= ops * NumQueues
        BY <1>0, <2>1, <2>3
      <3>4. QED
        BY <1>0, <2>1, <2>4, <3>2, <3>3 DEF CountInv
    <2>7. QED
      BY <2>5, <2>6
  <1>7. CASE IssueArg
    <2>1. /\ pc = "issue" /\ pc' = "kick" /\ lpc = "wait" /\ ops >= 1
          /\ prodCnt' = Inc(prodCnt)
          /\ UNCHANGED <<lpc, op, qi, ops>>
      BY <1>0, <1>7 DEF IssueArg, Issue, CallerInv
    <2>2. DEFINE B == IF op \in LoopOps THEN qi ELSE 0
    <2>3. B \in 0 .. NumQueues - 1
      BY <1>0, <2>1, LoopShare
    <2>4. /\ IssueBudget = (ops - 1) * NumQueues + B
          /\ IssueBudget' = (ops - 1) * NumQueues + B + 1
      <3>1. ops' = ops /\ op' = op /\ qi' = qi /\ lpc' = "wait"
        BY <2>1
      <3>2. IssueBudget = (ops - 1) * NumQueues + B + 0
        BY <2>1 DEF IssueBudget, B
      <3>3. IssueBudget' = (ops' - 1) * NumQueues
                             + (IF op' \in LoopOps THEN qi' ELSE 0) + 1
        BY <2>1, <3>1 DEF IssueBudget
      <3>4. QED
        BY <1>0, <3>1, <3>2, <3>3 DEF B
    <2>5. (ops - 1) * NumQueues + B + 1 <= MaxOps * NumQueues
      <3>1. (ops - 1) * NumQueues + B + 1 <= ops * NumQueues
        BY <1>0, <2>1, <2>3
      <3>2. ops * NumQueues <= MaxOps * NumQueues
        BY <1>0
      <3>3. QED
        BY <1>0, <2>1, <2>3, <3>1, <3>2
    <2>6. prodCnt + 1 < Modulus
      BY <1>0, <2>4, <2>5, RingAssumption DEF CountInv, NoWrap
    <2>7. prodCnt' = prodCnt + 1
      BY <1>0, <2>1, <2>6, RingAssumption DEF Inc
    <2>8. QED
      BY <1>0, <2>4, <2>7 DEF CountInv
  <1>8. CASE ExecProgress
    <2>1. /\ UNCHANGED <<lifeVars, prodCnt>>
          /\ pc \in {"kick", "wait", "scan"}
          /\ pc' \in {"wait", "scan", "idle"}
          /\ pc' \in {"wait", "scan"} => pc \in {"kick", "wait"}
      BY <1>8 DEF ExecProgress, Kick, WaitDone, WaitSleep, WaitTimeout,
         ScanPass, ScanFail, driverVars, threadVars
    <2>2. IssueBudget' = IssueBudget
      BY <2>1 DEF IssueBudget, lifeVars
    <2>3. QED
      BY <1>0, <2>1, <2>2 DEF CountInv
  <1>9. CASE \/ \E s \in DeviceStatuses : DeviceRuns(s)
             \/ DeviceLetsGo \/ UNCHANGED allVars
    <2>1. UNCHANGED <<lpc, op, qi, ops, prodCnt, pc>>
      BY <1>9 DEF DeviceRuns, DeviceComplete, DeviceLetsGo, DeviceRelease,
         allVars, vars, driverVars, threadVars, lifeVars
    <2>2. IssueBudget' = IssueBudget
      BY <2>1 DEF IssueBudget
    <2>3. QED
      BY <1>0, <2>1, <2>2 DEF CountInv
  <1>10. QED
    BY <1>1, <1>2, <1>3, <1>4, <1>5, <1>6, <1>7, <1>8, <1>9
       DEF LifeNext, CallerStep


(* At most one command is outstanding: when the device has a command to    *)
(* complete, it is the last one issued, in the slot before prod_cnt.        *)
LEMMA PendingIsLast ==
  ASSUME RingInv, Pending
  PROVE  /\ eventCounter = Dec(prodCnt)
         /\ Inc(eventCounter) = prodCnt
         /\ SlotOf(eventCounter) = LastSlot
  <1>1. /\ addrReg # "none" /\ eventCounter # prodCnt
        /\ prodCnt \in Counter /\ doorbell \in Counter
    BY DEF Pending, RingInv, TypeOK
  <1>2. eventCounter = Dec(prodCnt)
    <2>1. CASE pc = "issue"
      BY <1>1, <2>1 DEF RingInv
    <2>2. CASE pc = "kick"
      <3>1. eventCounter = doorbell /\ prodCnt = Inc(doorbell)
        BY <1>1, <2>2 DEF RingInv
      <3>2. QED
        BY <1>1, <3>1, IncDecInverse
    <2>3. CASE pc \notin {"issue", "kick"}
      BY <1>1, <2>3 DEF RingInv
    <2>4. QED
      BY <2>1, <2>2, <2>3
  <1>3. QED
    BY <1>1, <1>2, IncDecInverse DEF LastSlot

(* When nothing is outstanding the device has nothing to complete: the     *)
(* doorbell the driver last rang equals the event counter.                 *)
LEMMA QuietDevice ==
  ASSUME RingInv, ~Pending, NEW s
  PROVE  ~DeviceComplete(s)
  <1>1. CASE addrReg = "none"
    BY <1>1 DEF DeviceComplete
  <1>2. CASE addrReg # "none"
    <2>1. eventCounter = prodCnt
      BY <1>2 DEF Pending
    <2>2. eventCounter = doorbell
      BY <1>2, <2>1 DEF RingInv
    <2>3. QED
      BY <2>2 DEF DeviceComplete
  <1>3. QED
    BY <1>1, <1>2

(* A step that leaves the ring, the counters, the ADDR register, the        *)
(* device's queues and the slots' arguments alone keeps LastEffect.         *)
LEMMA LastEffectFrame ==
  ASSUME LastEffect,
         UNCHANGED <<ring, prodCnt, eventCounter, addrReg, devQ, slotArg>>
  PROVE  LastEffect'
  BY DEF LastEffect, LastSlot, Pending

(* Every step keeps LastEffect: the device applies the last command when   *)
(* it completes it with PASSED, and a newly issued command's slot holds no  *)
(* status yet.                                                              *)
LEMMA LastEffectStep ==
  ASSUME LoopInv, [LifeNext]_allVars
  PROVE  LastEffect'
  <1>0. /\ LifeInv /\ RingInv /\ TypeOK /\ CallerInv /\ DriverInv
        /\ LastEffect /\ LifeTypeOK /\ prodCnt \in Nat
    BY CounterNat DEF LoopInv, LifeInv, RingInv, TypeOK
  <1>1. CASE \E s \in DeviceStatuses : DeviceRuns(s)
    <2>1. PICK s \in DeviceStatuses : DeviceRuns(s)
      BY <1>1
    <2>2. Pending
      BY <1>0, <2>1, QuietDevice DEF DeviceRuns
    <2>3. SlotOf(eventCounter) = LastSlot /\ Inc(eventCounter) = prodCnt
      BY <1>0, <2>2, PendingIsLast
    <2>4. LastSlot \in 0 .. Mask
      <3>0. prodCnt \in Int
        BY <1>0
      <3>1. Dec(prodCnt) \in Nat
        <4>1. Dec(prodCnt) \in Counter
          BY <3>0, IncDecRange
        <4>2. QED
          BY <4>1, CounterNat
      <3>2. QED
        BY <3>1, IncDecRange DEF LastSlot
    <2>5. /\ ring' = [ring EXCEPT ![LastSlot].status = s]
          /\ devQ' = DeviceEffect(ring[LastSlot].opcode, slotArg[LastSlot], s)
          /\ UNCHANGED <<prodCnt, slotArg, addrReg>>
      BY <2>1, <2>3 DEF DeviceRuns, DeviceComplete
    <2>6. LastSlot' = LastSlot
      BY <2>5 DEF LastSlot
    <2>7. /\ ring'[LastSlot].opcode = ring[LastSlot].opcode
          /\ ring'[LastSlot].status = s
      BY <1>0, <2>4, <2>5 DEF TypeOK
    <2>8. DEFINE o == ring[LastSlot].opcode
                 q == slotArg[LastSlot]
    <2>9. ASSUME s = "PASSED", o \in DOMAIN QueueOpcodeDir
          PROVE  IF o \in CreateOpcodes THEN q \in devQ'[QueueOpcodeDir[o]]
                 ELSE q \notin devQ'[QueueOpcodeDir[o]]
      <3>1. QueueOpcodeDir[o] \in {"rx", "tx"}
        BY <2>9 DEF QueueOpcodeDir
      <3>2. devQ'[QueueOpcodeDir[o]] =
              IF o \in CreateOpcodes THEN devQ[QueueOpcodeDir[o]] \cup {q}
              ELSE devQ[QueueOpcodeDir[o]] \ {q}
        BY <2>5, <2>9, <3>1 DEF DeviceEffect
      <3>3. QED
        BY <3>2
    <2>10. QED
      BY <2>5, <2>6, <2>7, <2>9 DEF LastEffect
  <1>2. CASE IssueArg
    <2>1. /\ prodCnt' = Inc(prodCnt)
          /\ ring' = [ring EXCEPT ![SlotOf(prodCnt)] =
                        [opcode |-> cmd, status |-> "UNSET", seq |-> prodCnt]]
      BY <1>2 DEF IssueArg, Issue
    <2>2. LastSlot' = SlotOf(prodCnt)
      BY <1>0, <2>1, IncDecInverse DEF LastSlot, TypeOK
    <2>3. SlotOf(prodCnt) \in 0 .. Mask
      BY <1>0, IncDecRange
    <2>4. ring'[LastSlot'].status = "UNSET"
      BY <1>0, <2>1, <2>2, <2>3 DEF TypeOK
    <2>5. QED
      BY <2>4 DEF LastEffect
  <1>3. CASE AdminqSetup
    <2>1. CASE AllocAdminq
      <3>1. ~aqMem
        BY <1>0, <2>1 DEF AllocAdminq, DriverInv
      <3>2. ring' = [i \in 0 .. Mask |-> ZeroSlot]
        BY <2>1, <3>1 DEF AllocAdminq
      <3>3. LastSlot' \in 0 .. Mask
        <4>0. prodCnt' = 0
          BY <2>1 DEF AllocAdminq
        <4>1. Dec(prodCnt') \in Nat
          <5>1. Dec(0) \in Counter
            BY IncDecRange
          <5>2. QED
            BY <4>0, <5>1, CounterNat
        <4>2. QED
          BY <4>1, IncDecRange DEF LastSlot
      <3>4. ring'[LastSlot'].status = "UNSET"
        BY <3>2, <3>3 DEF ZeroSlot
      <3>5. QED
        BY <3>4 DEF LastEffect
    <2>2. CASE ReleaseBegin
      <3>1. addrReg # "none" /\ addrReg' # "none"
        BY <1>0, <2>2 DEF ReleaseBegin, RingInv
      <3>2. UNCHANGED <<ring, prodCnt, eventCounter, devQ, slotArg>>
        BY <1>3, <2>2 DEF AdminqSetup, ReleaseBegin, driverVars, lifeVars
      <3>3. QED
        BY <1>0, <3>1, <3>2 DEF LastEffect, LastSlot, Pending
    <2>3. CASE AllocFail \/ ReleaseDone
      <3>1. UNCHANGED <<ring, prodCnt, eventCounter, addrReg, devQ, slotArg>>
        BY <1>3, <2>3 DEF AdminqSetup, AllocFail, ReleaseDone, driverVars,
           deviceVars, lifeVars
      <3>2. QED
        BY <1>0, <3>1, LastEffectFrame
    <2>4. QED
      BY <1>3, <2>1, <2>2, <2>3 DEF AdminqSetup
  <1>4. CASE DeviceLetsGo
    BY <1>4 DEF DeviceLetsGo, DeviceRelease, LastEffect
  <1>5. CASE \/ \E l \in LoopOps : LoopBegin(l)
             \/ \E o \in SingleOps : SingleBegin(o)
             \/ RegisterBegin \/ RegisterAllocFail
             \/ CallExecute \/ LoopDone \/ ExecReturned
             \/ ExecProgress \/ UNCHANGED allVars
    <2>1. UNCHANGED <<ring, prodCnt, eventCounter, addrReg, devQ, slotArg>>
      BY <1>5 DEF LoopBegin, SingleBegin, RegisterBegin, RegisterAllocFail,
         CallExecute, ExecBegin, ExecBusy, LoopDone, ExecReturned,
         ExecProgress, Kick, WaitDone, WaitSleep, WaitTimeout, ScanPass,
         ScanFail, allVars, vars, driverVars, deviceVars, lifeVars
    <2>2. QED
      BY <1>0, <2>1, LastEffectFrame
  <1>6. QED
    BY <1>1, <1>2, <1>3, <1>4, <1>5 DEF LifeNext, CallerStep

(* Every step keeps LoopFinal: nothing runs on the device after a loop     *)
(* returned 0, and a later allocation starts from a quiet device.            *)
LEMMA LoopFinalStep ==
  ASSUME LoopInv, [LifeNext]_allVars
  PROVE  LoopFinal'
  <1>0. /\ LifeInv /\ RingInv /\ TypeOK /\ CallerInv /\ DriverInv
        /\ LoopProgress /\ LoopFinal /\ LifeTypeOK
    BY DEF LoopInv, LifeInv, RingInv
  <1> SUFFICES ASSUME op' \in LoopOps, lpc' = "idle", lret' = "OK"
               PROVE  Done(Queues)' /\ ~Pending'
    BY DEF LoopFinal
  <1>1. CASE LoopDone
    <2>1. /\ lpc = "call" /\ op \in LoopOps /\ qi >= NumQueues
          /\ UNCHANGED <<vars, op, devQ>>
      BY <1>1 DEF LoopDone
    <2>2. qi = NumQueues /\ NumQueues \in Nat \ {0}
      BY <1>0, <2>1, LifecycleAssumption DEF LifeTypeOK
    <2>3. Done(0 .. qi - 1) /\ ~Pending
      BY <1>0, <2>1, <2>2 DEF LoopProgress
    <2>4. Done(Queues)
      BY <2>2, <2>3 DEF Queues
    <2>5. Done(Queues)' = Done(Queues) /\ Pending' = Pending
      BY <2>1 DEF Done, Pending, vars, driverVars, deviceVars
    <2>6. QED
      BY <2>3, <2>4, <2>5
  <1>2. CASE ExecReturned
    BY <1>2, LoopOpsNames DEF ExecReturned
  <1>3. CASE \/ \E l \in LoopOps : LoopBegin(l)
             \/ \E o \in SingleOps : SingleBegin(o)
             \/ RegisterBegin \/ RegisterAllocFail \/ CallExecute
    BY <1>3 DEF LoopBegin, SingleBegin, RegisterBegin, RegisterAllocFail,
       CallExecute
  <1>4. CASE IssueArg \/ ExecProgress
    <2>1. lpc = "wait" /\ lpc' = lpc
      BY <1>0, <1>4 DEF IssueArg, Issue, ExecProgress, Kick, WaitDone,
         WaitSleep, WaitTimeout, ScanPass, ScanFail, CallerInv, lifeVars
    <2>2. QED
      BY <2>1
  <1>5. ASSUME LoopFinal, UNCHANGED <<op, lpc, lret, devQ>>
        PROVE  /\ Done(Queues)' = Done(Queues) /\ Done(Queues)
               /\ op \in LoopOps /\ lpc = "idle" /\ lret = "OK" /\ ~Pending
    BY <1>5 DEF LoopFinal, Done
  <1>6. CASE \E s \in DeviceStatuses : DeviceRuns(s)
    <2>1. PICK s \in DeviceStatuses : DeviceRuns(s)
      BY <1>6
    <2>2. UNCHANGED <<op, lpc, lret>>
      BY <2>1 DEF DeviceRuns
    <2>3. op \in LoopOps /\ lpc = "idle" /\ lret = "OK"
      BY <2>2
    <2>4. ~Pending
      BY <1>0, <2>3 DEF LoopFinal
    <2>5. QED
      BY <1>0, <2>1, <2>4, QuietDevice DEF DeviceRuns
  <1>7. CASE DeviceLetsGo
    <2>1. UNCHANGED <<op, lpc, lret, devQ>> /\ addrReg' = "none"
      BY <1>7 DEF DeviceLetsGo, DeviceRelease, lifeVars
    <2>2. QED
      BY <1>0, <1>5, <2>1 DEF Pending
  <1>8. CASE AdminqSetup
    <2>1. UNCHANGED <<op, lpc, lret, devQ>>
      BY <1>8 DEF AdminqSetup, lifeVars
    <2>2. Done(Queues)' /\ ~Pending
      BY <1>0, <1>5, <2>1
    <2>3. CASE AllocAdminq
      <3>1. addrReg = "none"
        BY <1>0, <2>3 DEF AllocAdminq, RingInv
      <3>2. eventCounter = 0
        BY <1>0, <3>1 DEF RingInv
      <3>3. QED
        BY <2>2, <2>3, <3>2 DEF AllocAdminq, Pending
    <2>4. CASE ReleaseBegin
      <3>1. addrReg = "set"
        BY <1>0, <2>4 DEF ReleaseBegin, RingInv
      <3>2. QED
        BY <2>2, <2>4, <3>1 DEF ReleaseBegin, driverVars, Pending
    <2>5. CASE AllocFail \/ ReleaseDone
      BY <2>2, <2>5 DEF AllocFail, ReleaseDone, driverVars, deviceVars,
         Pending
    <2>6. QED
      BY <1>8, <2>3, <2>4, <2>5 DEF AdminqSetup
  <1>9. CASE UNCHANGED allVars
    <2>1. UNCHANGED <<op, lpc, lret, devQ, addrReg, eventCounter, prodCnt>>
      BY <1>9 DEF allVars, vars, lifeVars, driverVars, deviceVars
    <2>2. QED
      BY <1>0, <1>5, <2>1 DEF Pending
  <1>10. QED
    BY <1>1, <1>2, <1>3, <1>4, <1>6, <1>7, <1>8, <1>9 DEF LifeNext, CallerStep


(* The loop's own command, completed by the device, only moves the loop's  *)
(* queues the way the loop wants them: a create adds a queue, a destroy     *)
(* removes one, so the work already done stays done.                        *)
LEMMA DoneUnderOwnCommand ==
  ASSUME NEW S, NEW q, NEW s, op \in LoopOps,
         devQ \in [{"rx", "tx"} -> SUBSET Queues],
         devQ' = DeviceEffect(LoopOpcode[op], q, s), op' = op, Done(S)
  PROVE  Done(S)'
  <1>1. /\ LoopOpcode[op] \in DOMAIN QueueOpcodeDir
        /\ QueueOpcodeDir[LoopOpcode[op]] = LoopDir[op]
        /\ LoopOpcode[op] \in CreateOpcodes <=> op \in {"create_rx", "create_tx"}
    BY LoopOpcodeFacts
  <1>2. LoopDir[op] \in {"rx", "tx"}
    <2>1. op \in {"create_rx", "create_tx", "destroy_rx", "destroy_tx"}
      BY LifecycleAssumption DEF LoopOpcode
    <2>2. QED
      BY <2>1 DEF LoopDir
  <1>3. devQ'[LoopDir[op]] =
          IF s = "PASSED"
          THEN IF op \in {"create_rx", "create_tx"}
               THEN devQ[LoopDir[op]] \cup {q} ELSE devQ[LoopDir[op]] \ {q}
          ELSE devQ[LoopDir[op]]
    BY <1>1, <1>2 DEF DeviceEffect
  <1>4. QED
    BY <1>3 DEF Done

(* Every step keeps LoopProgress: a loop's finished queues stay finished,  *)
(* nothing but its own command is outstanding once a queue succeeded, and   *)
(* an execute that returned 0 saw that command completed with PASSED.       *)
LEMMA LoopProgressStep ==
  ASSUME LoopInv, [LifeNext]_allVars
  PROVE  LoopProgress'
  <1>0. /\ LifeInv /\ RingInv /\ TypeOK /\ CallerInv /\ DriverInv
        /\ CountInv /\ LastEffect /\ LoopProgress /\ LifeTypeOK
        /\ prodCnt \in Nat /\ NumQueues \in Nat \ {0} /\ qi \in 0 .. NumQueues
    BY LifecycleAssumption, CounterNat DEF LoopInv, LifeInv, RingInv, TypeOK,
       LifeTypeOK
  <1> SUFFICES ASSUME op' \in LoopOps, lpc' # "idle"
               PROVE  LoopProgress'
    BY DEF LoopProgress
  <1>1. CASE AdminqSetup \/ LoopDone \/ RegisterAllocFail
    BY <1>1 DEF AdminqSetup, LoopDone, RegisterAllocFail, CanStart, lifeVars
  <1>2. CASE (\E o \in SingleOps : SingleBegin(o)) \/ RegisterBegin
    BY <1>2, LoopOpsNames DEF SingleBegin, RegisterBegin
  <1>3. CASE \E l \in LoopOps : LoopBegin(l)
    <2>1. lpc' = "call" /\ qi' = 0
      BY <1>3 DEF LoopBegin
    <2>2. 0 .. qi' - 1 = {}
      BY <2>1
    <2>3. Done(0 .. qi - 1)'
      BY <2>2 DEF Done
    <2>4. QED
      BY <2>1, <2>3 DEF LoopProgress
  <1>4. CASE CallExecute
    <2>1. /\ lpc = "call" /\ lpc' = "wait" /\ op \in LoopOps
          /\ UNCHANGED <<op, qi, devQ, slotArg, ring, prodCnt, eventCounter,
                         addrReg>>
          /\ pc' \in {"issue", "idle"}
          /\ pc' = "idle" => ret' = "EINVAL"
      BY <1>4 DEF CallExecute, ExecBegin, ExecBusy, driverVars, deviceVars
    <2>2. Done(0 .. qi - 1) /\ (qi >= 1 => ~Pending)
      BY <1>0, <2>1 DEF LoopProgress
    <2>3. /\ Done(0 .. qi - 1)' = Done(0 .. qi - 1)
          /\ Pending' = Pending
      BY <2>1 DEF Done, Pending
    <2>4. QED
      BY <2>1, <2>2, <2>3 DEF LoopProgress
  <1>5. CASE ExecReturned
    <2>1. /\ lpc = "wait" /\ pc = "idle" /\ op \in LoopOps /\ ret = "OK"
          /\ qi' = qi + 1 /\ lpc' = "call"
          /\ UNCHANGED <<vars, op, devQ, slotArg>>
      BY <1>5, LoopOpsNames DEF ExecReturned
    <2>2. /\ Done(0 .. qi - 1) /\ ~Pending /\ OwnLast
          /\ ring[LastSlot].status = "PASSED"
      BY <1>0, <2>1 DEF LoopProgress
    <2>3. addrReg # "none"
      BY <1>0, <2>1 DEF DriverInv, RingInv
    <2>4. /\ LoopOpcode[op] \in DOMAIN QueueOpcodeDir
          /\ QueueOpcodeDir[LoopOpcode[op]] = LoopDir[op]
          /\ LoopOpcode[op] \in CreateOpcodes <=> op \in {"create_rx", "create_tx"}
      BY <2>1, LoopOpcodeFacts
    <2>5. IF op \in {"create_rx", "create_tx"} THEN qi \in devQ[LoopDir[op]]
          ELSE qi \notin devQ[LoopDir[op]]
      BY <1>0, <2>2, <2>3, <2>4 DEF LastEffect, OwnLast
    <2>6. 0 .. qi' - 1 = (0 .. qi - 1) \cup {qi}
      BY <1>0, <2>1
    <2>7. Done(0 .. qi - 1)'
      BY <2>1, <2>2, <2>5, <2>6 DEF Done
    <2>8. Pending' = Pending
      BY <2>1 DEF Pending, vars, driverVars, deviceVars
    <2>9. QED
      BY <2>1, <2>2, <2>7, <2>8 DEF LoopProgress
  <1>6. CASE IssueArg
    <2>1. /\ lpc = "wait" /\ pc = "issue" /\ pc' = "kick" /\ cmd = CallOpcode
          /\ op \in LoopOps
          /\ UNCHANGED <<lpc, op, qi, devQ>>
          /\ prodCnt' = Inc(prodCnt)
          /\ ring' = [ring EXCEPT ![SlotOf(prodCnt)] =
                        [opcode |-> cmd, status |-> "UNSET", seq |-> prodCnt]]
          /\ slotArg' = [slotArg EXCEPT ![SlotOf(prodCnt)] = CallArg]
      BY <1>0, <1>6 DEF IssueArg, Issue, CallerInv
    <2>2. CallOpcode = LoopOpcode[op] /\ CallArg = qi
      BY <2>1, LoopOpsNames DEF CallOpcode, CallArg
    <2>3. LastSlot' = SlotOf(prodCnt) /\ SlotOf(prodCnt) \in 0 .. Mask
      BY <1>0, <2>1, IncDecInverse, IncDecRange DEF LastSlot, TypeOK
    <2>4. OwnLast'
      BY <1>0, <2>1, <2>2, <2>3 DEF OwnLast, TypeOK, LifeTypeOK
    <2>5. Done(0 .. qi - 1)' = Done(0 .. qi - 1)
      BY <2>1 DEF Done
    <2>6. QED
      BY <1>0, <2>1, <2>4, <2>5 DEF LoopProgress
  <1>7. CASE ExecProgress
    <2>1. /\ UNCHANGED <<lpc, op, qi, devQ, slotArg, ring, prodCnt,
                         eventCounter, addrReg>>
          /\ pc \in {"kick", "wait", "scan"}
      BY <1>7 DEF lifeVars, ExecProgress, Kick, WaitDone, WaitSleep, WaitTimeout,
         ScanPass, ScanFail, driverVars, deviceVars
    <2>2. lpc = "wait" /\ op \in LoopOps
      BY <1>0, <2>1 DEF CallerInv
    <2>3. Done(0 .. qi - 1) /\ OwnLast
      BY <1>0, <2>1, <2>2 DEF LoopProgress
    <2>4. /\ Done(0 .. qi - 1)' = Done(0 .. qi - 1)
          /\ OwnLast' = OwnLast /\ Pending' = Pending
          /\ LastSlot' = LastSlot
      BY <2>1 DEF Done, OwnLast, Pending, LastSlot
    <2>5. pc' = "idle" /\ ret' = "OK" =>
            ~Pending /\ ring[LastSlot].status = "PASSED"
      <3> SUFFICES ASSUME pc' = "idle", ret' = "OK"
                   PROVE  ~Pending /\ ring[LastSlot].status = "PASSED"
        OBVIOUS
      <3>1. ScanPass
        <4>1. ~ScanFail
          BY <1>0, ScanFailErr
        <4>2. QED
          BY <1>7, <4>1 DEF ExecProgress, Kick, WaitDone, WaitSleep,
             WaitTimeout
      <3>2. /\ pc = "scan" /\ ScanErrs = {} /\ head = prodCnt
            /\ eventCounter = prodCnt /\ prodCnt # 0
        BY <1>0, <3>1 DEF ScanPass, RingInv, DriverInv, CountInv
      <3>3. ring[SlotOf(Dec(head))].status = "PASSED"
        BY <1>0, <3>2, ScanPassPassed
      <3>4. QED
        BY <3>2, <3>3 DEF Pending, LastSlot
    <2>6. QED
      BY <2>1, <2>2, <2>3, <2>4, <2>5 DEF LoopProgress
  <1>8. CASE \E s \in DeviceStatuses : DeviceRuns(s)
    <2>1. PICK s \in DeviceStatuses : DeviceRuns(s)
      BY <1>8
    <2>2. Pending
      BY <1>0, <2>1, QuietDevice DEF DeviceRuns
    <2>3. SlotOf(eventCounter) = LastSlot /\ Inc(eventCounter) = prodCnt
      BY <1>0, <2>2, PendingIsLast
    <2>4. /\ ring' = [ring EXCEPT ![LastSlot].status = s]
          /\ devQ' = DeviceEffect(ring[LastSlot].opcode, slotArg[LastSlot], s)
          /\ eventCounter' = prodCnt
          /\ UNCHANGED <<lpc, op, qi, prodCnt, slotArg, addrReg, pc, ret>>
      BY <2>1, <2>3 DEF DeviceRuns, DeviceComplete, threadVars
    <2>5. ~Pending'
      BY <2>4 DEF Pending
    <2>6. LastSlot \in 0 .. Mask
      <3>1. Dec(prodCnt) \in Counter
        BY <1>0, IncDecRange
      <3>2. Dec(prodCnt) \in Nat
        BY <3>1, CounterNat
      <3>3. QED
        BY <3>2, IncDecRange DEF LastSlot
    <2>7. OwnLast' = OwnLast
      BY <1>0, <2>4, <2>6 DEF OwnLast, LastSlot, TypeOK
    <2>8. lpc # "idle" /\ op \in LoopOps
      BY <2>4
    <2>9. ~(lpc = "wait" /\ pc = "idle" /\ ret = "OK")
      BY <1>0, <2>2, <2>8 DEF LoopProgress
    <2>10. Done(0 .. qi - 1)'
      <3>1. Done(0 .. qi - 1)
        BY <1>0, <2>8 DEF LoopProgress
      <3>2. CASE qi = 0
        <4>1. 0 .. qi' - 1 = {}
          BY <2>4, <3>2
        <4>2. QED
          BY <4>1 DEF Done
      <3>3. CASE qi # 0
        <4>1. OwnLast
          BY <1>0, <2>2, <2>8, <3>3 DEF LoopProgress
        <4>2. devQ' = DeviceEffect(LoopOpcode[op], slotArg[LastSlot], s)
          BY <2>4, <4>1 DEF OwnLast
        <4>3. Done(0 .. qi - 1)'
          BY <1>0, <2>4, <2>8, <3>1, <4>2, DoneUnderOwnCommand DEF LifeTypeOK
        <4>4. QED
          BY <2>4, <4>3
      <3>4. QED
        BY <3>2, <3>3
    <2>11. lpc = "wait" /\ pc \in {"kick", "wait", "scan"} => OwnLast
      BY <1>0, <2>8 DEF LoopProgress
    <2>12. QED
      BY <2>4, <2>5, <2>7, <2>9, <2>10, <2>11 DEF LoopProgress
  <1>9. CASE DeviceLetsGo
    <2>1. addrReg = "releasing" /\ lpc' = lpc
      BY <1>9 DEF DeviceLetsGo, DeviceRelease, lifeVars
    <2>2. aqOk /\ pc # "release_wait"
      BY <1>0, <2>1 DEF DriverInv
    <2>3. QED
      BY <1>0, <2>1, <2>2 DEF RingInv
  <1>10. CASE UNCHANGED allVars
    BY <1>0, <1>10 DEF allVars, vars, driverVars, threadVars, deviceVars,
       lifeVars, LoopProgress, Done, Pending, OwnLast, LastSlot
  <1>11. QED
    BY <1>1, <1>2, <1>3, <1>4, <1>5, <1>6, <1>7, <1>8, <1>9, <1>10
       DEF LifeNext, CallerStep


(* LoopInv is inductive as long as prod_cnt cannot wrap.                   *)
LEMMA LoopInvStep ==
  ASSUME NoWrap, LoopInv, [LifeNext]_allVars
  PROVE  LoopInv'
  <1>1. LifeInv'
    BY LifeInvStep DEF LoopInv
  <1>2. QED
    BY <1>1, DriverInvStep, CountInvStep, LastEffectStep, LoopProgressStep,
       LoopFinalStep DEF LoopInv

(* A loop that returned 0 and left nothing pending has the device's queues *)
(* the way the loop wanted them.                                             *)
LEMMA LoopInvResult == LoopInv => LoopResultHolds
  <1> SUFFICES ASSUME LoopInv, lpc = "idle", op \in LoopOps, lret = "OK"
               PROVE  devQ[LoopDir[op]] =
                        IF op \in {"create_rx", "create_tx"} THEN Queues ELSE {}
    BY DEF LoopResultHolds
  <1>1. Done(Queues)
    BY DEF LoopInv, LoopFinal
  <1>2. LoopDir[op] \in {"rx", "tx"}
    <2>1. op \in {"create_rx", "create_tx", "destroy_rx", "destroy_tx"}
      BY LifecycleAssumption DEF LoopOpcode
    <2>2. CASE op = "create_rx"
      BY <2>2 DEF LoopDir
    <2>3. CASE op = "create_tx"
      BY <2>3 DEF LoopDir
    <2>4. CASE op = "destroy_rx"
      BY <2>4 DEF LoopDir
    <2>5. CASE op = "destroy_tx"
      BY <2>5 DEF LoopDir
    <2>6. QED
      BY <2>1, <2>2, <2>3, <2>4, <2>5
  <1>3. devQ[LoopDir[op]] \subseteq Queues
    BY <1>2 DEF LoopInv, LifeInv, LifeTypeOK
  <1>4. QED
    BY <1>1, <1>3 DEF Done

(* gve_adminq_create_{rx,tx}_queues and gve_adminq_destroy_{rx,tx}_queues  *)
(* return 0 only when they did their job on the device: after a create loop *)
(* returned 0 the device holds every queue below num_queues, after a        *)
(* destroy loop returned 0 it holds none.  This holds whatever commands of  *)
(* earlier operations timed out and completed late, provided the operations *)
(* of a behaviour issue fewer commands than adminq_prod_cnt can count; when *)
(* they do not, the lifecycle_wrap run shows the scan of kick_and_wait      *)
(* passing a command the device failed.                                     *)
THEOREM LoopResultCorrect ==
  ASSUME NoWrap
  PROVE  LifeSpec => []LoopResultHolds
  <1>1. LoopInv /\ [LifeNext]_allVars => LoopInv'
    BY LoopInvStep
  <1>2. QED
    BY <1>1, LoopInvInit, LoopInvResult, PTL DEF LifeSpec


(* While prod_cnt cannot wrap, the invariant behind the queue loops holds   *)
(* in every state the lifecycle operations reach: the loop's own command is *)
(* the last one in the ring while its execute runs, and a loop that        *)
(* returned 0 has done its work on every queue.                            *)
THEOREM LoopInvariant ==
  ASSUME NoWrap
  PROVE  LifeSpec => []LoopInv
  <1>1. LoopInv /\ [LifeNext]_allVars => LoopInv'
    BY LoopInvStep
  <1>2. QED
    BY <1>1, LoopInvInit, PTL DEF LifeSpec

(* Spec 4.2 for the lifecycle callers: while prod_cnt cannot wrap, every    *)
(* scan of gve_adminq_kick_and_wait returns the translation of the status   *)
(* the device wrote for the command just issued, success included, so an    *)
(* execute_cmd that returns 0 had its own command PASSED.  The adminq_wrap  *)
(* run shows the same property failing once the counter wraps.             *)
THEOREM ResultMatchesDeviceNoWrap ==
  ASSUME NoWrap
  PROVE  LifeSpec => ResultMatchesDevice
  <1>1. LoopInv /\ [LifeNext]_allVars =>
          [pc = "scan" /\ pc' = "idle" =>
             ret' = ParseErr(ring[SlotOf(Dec(head))].status)]_vars
    <2> SUFFICES ASSUME LoopInv, [LifeNext]_allVars, pc = "scan", pc' = "idle"
                 PROVE  ret' = ParseErr(ring[SlotOf(Dec(head))].status)
      OBVIOUS
    <2>1. RingInv /\ LifeTypeOK
      BY DEF LoopInv, LifeInv
    <2>2. [Next]_vars
      BY <2>1, LifeStepIsAdminQStep
    <2>3. head = prodCnt /\ prodCnt # 0
      BY <2>1 DEF LoopInv, CountInv, RingInv
    <2>4. QED
      BY <2>1, <2>2, <2>3, ScanResultStep
  <1>2. LifeSpec => []LoopInv
    BY LoopInvariant
  <1>3. QED
    BY <1>1, <1>2, PTL DEF LifeSpec, ResultMatchesDevice
=============================================================================
