------------------------------ MODULE Lifecycle ------------------------------
(***************************************************************************)
(* The resource and queue lifecycle commands of gve_adminq.c, composed     *)
(* with the admin queue of AdminQ.                                         *)
(*                                                                         *)
(* gve_adminq_create_{rx,tx}_queues and gve_adminq_destroy_{rx,tx}_queues  *)
(* run gve_adminq_execute_cmd once per queue index, from 0 up, and return  *)
(* the first error.  gve_adminq_register_page_list copies the page         *)
(* addresses into a DMA staging buffer, executes a command that points at  *)
(* it and frees it whatever the command returned.  The other commands      *)
(* (configure and deconfigure device resources, unregister page list, set  *)
(* MTU, verify compatibility) are one execute each.                        *)
(*                                                                         *)
(* A caller step that calls execute is conjoined with AdminQ's ExecBegin   *)
(* or ExecBusy; the caller resumes when AdminQ's thread is idle again and  *)
(* reads its return value ret.  The device applies a command when it       *)
(* completes its slot with PASSED, which may be after the driver gave up   *)
(* on it (WaitTimeout).  The argument of a command (queue index, or the    *)
(* staging buffer it points at) is kept beside its ring slot in slotArg.   *)
(***************************************************************************)
EXTENDS AdminQ

CONSTANTS
  NumQueues,    \* num_queues passed to the create and destroy loops
  LoopOps,      \* which of the four queue loops the callers run
  SingleOps,    \* the opcodes of the one-command operations the callers run
  MaxOps        \* bound on the operations a behaviour starts

(* The opcode each queue loop executes, and the queues it works on.       *)
LoopOpcode ==
  [create_rx |-> "CREATE_RX_QUEUE", create_tx |-> "CREATE_TX_QUEUE",
   destroy_rx |-> "DESTROY_RX_QUEUE", destroy_tx |-> "DESTROY_TX_QUEUE"]
LoopDir == [create_rx |-> "rx", create_tx |-> "tx",
            destroy_rx |-> "rx", destroy_tx |-> "tx"]

ASSUME LifecycleAssumption ==
  /\ NumQueues \in Nat \ {0}
  /\ MaxOps \in Nat
  /\ LoopOps \subseteq DOMAIN LoopOpcode
  /\ {LoopOpcode[l] : l \in LoopOps} \cup SingleOps \cup {"REGISTER_PAGE_LIST"}
       \subseteq Opcodes
  /\ SingleOps \cap {LoopOpcode[l] : l \in DOMAIN LoopOpcode} = {}

Queues == 0 .. NumQueues - 1

VARIABLES
  lpc,       \* the caller: "idle", "call" (about to execute) or "wait"
  op,        \* the operation in progress: a loop, "register" or "single"
  opcode,    \* the opcode of a one-command operation
  qi,        \* the queue index of the create/destroy loop
  lret,      \* what the last operation returned
  ops,       \* operations started so far
  devQ,      \* the queues the device holds, per direction
  slotArg,   \* the argument of the command in each ring slot
  staging    \* the page-list staging buffers allocated and not yet freed

lifeVars == <<lpc, op, opcode, qi, lret, ops, devQ, slotArg, staging>>
allVars == <<vars, lifeVars>>

Ops == LoopOps \cup {"register", "single"}

LifeTypeOK ==
  /\ TypeOK
  /\ lpc \in {"idle", "call", "wait"}
  /\ op \in Ops
  /\ opcode \in Opcodes
  /\ qi \in 0 .. NumQueues
  /\ lret \in Errnos
  /\ ops \in 0 .. MaxOps
  /\ devQ \in [{"rx", "tx"} -> SUBSET Queues]
  /\ slotArg \in [0 .. Mask -> Nat]
  /\ staging \subseteq 0 .. MaxOps

LifeInit ==
  /\ Init
  /\ lpc = "idle" /\ op = "single" /\ opcode = cmd /\ qi = 0
  /\ lret = "OK" /\ ops = 0
  /\ devQ = [d \in {"rx", "tx"} |-> {}]
  /\ slotArg = [s \in 0 .. Mask |-> 0]
  /\ staging = {}

-----------------------------------------------------------------------------
(* A caller may start an operation: none runs, the admin queue is          *)
(* allocated and not being released.                                       *)
CanStart == lpc = "idle" /\ pc = "idle" /\ aqOk /\ ops < MaxOps

(* The driver allocates or releases the admin queue while no lifecycle    *)
(* operation runs (attach, detach and reset hold the driver lock).        *)
AdminqSetup ==
  /\ lpc = "idle"
  /\ AllocAdminq \/ AllocFail \/ ReleaseBegin \/ ReleaseDone
  /\ UNCHANGED lifeVars

(* A create or destroy loop starts at queue 0.                             *)
LoopBegin(l) ==
  /\ CanStart
  /\ lpc' = "call" /\ op' = l /\ qi' = 0 /\ ops' = ops + 1
  /\ UNCHANGED <<vars, opcode, lret, devQ, slotArg, staging>>

(* A one-command operation: configure or deconfigure device resources,     *)
(* unregister a page list, set the MTU or verify compatibility.           *)
SingleBegin(o) ==
  /\ CanStart
  /\ lpc' = "call" /\ op' = "single" /\ opcode' = o /\ ops' = ops + 1
  /\ UNCHANGED <<vars, qi, lret, devQ, slotArg, staging>>

(* gve_adminq_register_page_list: the staging buffer is allocated.         *)
RegisterBegin ==
  /\ CanStart
  /\ staging' = staging \cup {ops}
  /\ lpc' = "call" /\ op' = "register" /\ ops' = ops + 1
  /\ UNCHANGED <<vars, opcode, qi, lret, devQ, slotArg>>

(* gve_adminq_register_page_list: gve_dma_alloc_coherent fails.            *)
RegisterAllocFail ==
  /\ CanStart
  /\ lret' = "ENOMEM" /\ ops' = ops + 1
  /\ UNCHANGED <<vars, lpc, op, opcode, qi, devQ, slotArg, staging>>

(* The opcode and argument of the command the caller executes next.       *)
CallOpcode ==
  CASE op \in LoopOps -> LoopOpcode[op]
    [] op = "register" -> "REGISTER_PAGE_LIST"
    [] op = "single" -> opcode
CallArg == IF op \in LoopOps THEN qi ELSE ops - 1

(* Mutant: the loop condition i <= num_queues.                            *)
CallExecuteInclusive ==
  /\ lpc = "call"
  /\ op \in LoopOps => qi <= NumQueues
  /\ ExecBegin(CallOpcode) \/ ExecBusy(CallOpcode)
  /\ lpc' = "wait"
  /\ UNCHANGED <<op, opcode, qi, lret, ops, devQ, slotArg, staging>>

(* The loop is not done, or the operation is a single command: call        *)
(* gve_adminq_execute_cmd.                                                 *)
CallExecute ==
  /\ lpc = "call"
  /\ op \in LoopOps => qi < NumQueues
  /\ ExecBegin(CallOpcode) \/ ExecBusy(CallOpcode)
  /\ lpc' = "wait"
  /\ UNCHANGED <<op, opcode, qi, lret, ops, devQ, slotArg, staging>>

(* The loop ran past the last queue: return 0.                             *)
LoopDone ==
  /\ lpc = "call" /\ op \in LoopOps /\ qi >= NumQueues
  /\ lpc' = "idle" /\ lret' = "OK"
  /\ UNCHANGED <<vars, op, opcode, qi, ops, devQ, slotArg, staging>>

(* Mutant: a loop that logs a failed queue and goes on with the next one.  *)
ExecReturnedIgnoringErr ==
  /\ lpc = "wait" /\ pc = "idle"
  /\ op \in LoopOps
  /\ qi' = qi + 1 /\ lpc' = "call"
  /\ UNCHANGED <<vars, op, opcode, lret, ops, devQ, slotArg, staging>>

(* Mutant: the loop index is not advanced after a queue succeeds.        *)
ExecReturnedNoAdvance ==
  /\ lpc = "wait" /\ pc = "idle"
  /\ \/ /\ op \in LoopOps /\ ret = "OK"
        /\ lpc' = "call"
        /\ UNCHANGED <<qi, lret, staging>>
     \/ /\ op \in LoopOps /\ ret # "OK"
        /\ lret' = ret /\ lpc' = "idle"
        /\ UNCHANGED <<qi, staging>>
     \/ /\ op \notin LoopOps
        /\ staging' = staging \ {ops - 1}
        /\ lret' = ret /\ lpc' = "idle"
        /\ UNCHANGED qi
  /\ UNCHANGED <<vars, op, opcode, ops, devQ, slotArg>>

(* Execute returned ret.  A loop goes on with the next queue on 0 and      *)
(* returns the error otherwise; register frees its staging buffer, and     *)
(* register and the single commands return ret.                            *)
ExecReturned ==
  /\ lpc = "wait" /\ pc = "idle"
  /\ \/ /\ op \in LoopOps /\ ret = "OK"
        /\ qi' = qi + 1 /\ lpc' = "call"
        /\ UNCHANGED <<lret, staging>>
     \/ /\ op \in LoopOps /\ ret # "OK"
        /\ lret' = ret /\ lpc' = "idle"
        /\ UNCHANGED <<qi, staging>>
     \/ /\ op = "register"
        /\ staging' = staging \ {ops - 1}
        /\ lret' = ret /\ lpc' = "idle"
        /\ UNCHANGED qi
     \/ /\ op = "single"
        /\ lret' = ret /\ lpc' = "idle"
        /\ UNCHANGED <<qi, staging>>
  /\ UNCHANGED <<vars, op, opcode, ops, devQ, slotArg>>

(* gve_adminq_issue_cmd, with the command's argument beside its slot.     *)
IssueArg ==
  /\ Issue
  /\ slotArg' = [slotArg EXCEPT ![SlotOf(prodCnt)] = CallArg]
  /\ UNCHANGED <<lpc, op, opcode, qi, lret, ops, devQ, staging>>

(* The rest of a command in progress leaves the caller alone.              *)
ExecProgress ==
  /\ Kick \/ WaitDone \/ WaitSleep \/ WaitTimeout \/ ScanPass \/ ScanFail
  /\ UNCHANGED lifeVars

(* The queue commands: the direction each works on, and which create.    *)
QueueOpcodeDir ==
  [CREATE_RX_QUEUE |-> "rx", CREATE_TX_QUEUE |-> "tx",
   DESTROY_RX_QUEUE |-> "rx", DESTROY_TX_QUEUE |-> "tx"]
CreateOpcodes == {"CREATE_RX_QUEUE", "CREATE_TX_QUEUE"}

(* What the device's queues become when it completes command o on queue q *)
(* with status s: only a PASSED create or destroy changes them.           *)
DeviceEffect(o, q, s) ==
  [d \in {"rx", "tx"} |->
     IF s = "PASSED" /\ o \in DOMAIN QueueOpcodeDir /\ QueueOpcodeDir[o] = d
     THEN IF o \in CreateOpcodes THEN devQ[d] \cup {q} ELSE devQ[d] \ {q}
     ELSE devQ[d]]

(* The device completes the next slot and applies its command.            *)
DeviceRuns(s) ==
  /\ DeviceComplete(s)
  /\ devQ' = DeviceEffect(ring[SlotOf(eventCounter)].opcode,
                           slotArg[SlotOf(eventCounter)], s)
  /\ UNCHANGED <<lpc, op, opcode, qi, lret, ops, slotArg, staging>>

DeviceLetsGo ==
  /\ DeviceRelease
  /\ UNCHANGED lifeVars

(* The caller's own steps.                                                 *)
CallerStep == CallExecute \/ LoopDone \/ ExecReturned

LifeNext ==
  \/ AdminqSetup
  \/ \E l \in LoopOps : LoopBegin(l)
  \/ \E o \in SingleOps : SingleBegin(o)
  \/ RegisterBegin \/ RegisterAllocFail
  \/ CallerStep
  \/ IssueArg \/ ExecProgress
  \/ \E s \in DeviceStatuses : DeviceRuns(s)
  \/ DeviceLetsGo

(* The driver thread runs an operation to its end: its own steps and the  *)
(* steps of execute never block.  The device owes nothing.                 *)
LifeSpec ==
  LifeInit /\ [][LifeNext]_allVars
  /\ WF_allVars(CallerStep) /\ WF_allVars(IssueArg \/ ExecProgress)
-----------------------------------------------------------------------------
(* The slots the device has yet to complete.                               *)
PendingSlots ==
  IF addrReg = "none" THEN {}
  ELSE {SlotOf((eventCounter + n) % Modulus) : n \in 0 .. Dist(prodCnt, eventCounter) - 1}

(* What the caller and the ring agree on in every reachable state: the    *)
(* caller executes only while it runs an operation and is in "wait" while   *)
(* execute runs; the command in the issue step is the caller's, and a       *)
(* single-command operation's opcode is one of SingleOps; a loop waits only *)
(* on a queue below num_queues; and every queue command in the ring names   *)
(* a queue the loop that issued it works on.                                *)
CallerInv ==
  /\ lpc # "idle" => ops >= 1
  /\ lpc = "call" => pc = "idle"
  /\ pc \in {"issue", "kick", "wait", "scan"} => lpc = "wait"
  /\ pc = "issue" => cmd = CallOpcode
  /\ lpc # "idle" /\ op = "single" => opcode \in SingleOps
  /\ lpc = "wait" /\ op \in LoopOps => qi < NumQueues
  /\ \A sl \in 0 .. Mask :
       ring[sl].opcode \in DOMAIN QueueOpcodeDir => slotArg[sl] \in Queues

(* The invariant behind LifeTypeOK, strong enough to be preserved by every *)
(* step of the composition.                                                 *)
LifeInv == LifeTypeOK /\ RingInv /\ CallerInv

(* An upper bound on prod_cnt: the commands the operations started so far *)
(* can have issued since the queue was allocated.  A loop issues at most    *)
(* one command per queue, the other operations one each.                  *)
IssueBudget ==
  IF lpc = "idle" THEN ops * NumQueues
  ELSE (ops - 1) * NumQueues
         + (IF op \in LoopOps THEN qi ELSE 0)
         + (IF lpc = "wait" /\ pc # "issue" THEN 1 ELSE 0)

(* The operations of a behaviour issue fewer commands than the counters    *)
(* can count: prod_cnt never wraps.                                        *)
NoWrap == MaxOps * NumQueues < Modulus

(* The slot of the last command issued, whether a command is outstanding,  *)
(* and whether the last command is the running loop's command for qi.       *)
LastSlot == SlotOf(Dec(prodCnt))
Pending == addrReg # "none" /\ eventCounter # prodCnt
OwnLast == ring[LastSlot].opcode = LoopOpcode[op] /\ slotArg[LastSlot] = qi

(* The running loop's work is done for the queues in S: a create loop's    *)
(* device holds them, a destroy loop's holds none of them.                 *)
Done(S) ==
  IF op \in {"create_rx", "create_tx"} THEN S \subseteq devQ[LoopDir[op]]
  ELSE S \cap devQ[LoopDir[op]] = {}

(* The last command issued, once the device completed it with PASSED, has  *)
(* its effect on the device's queues.                                      *)
LastEffect ==
  LET o == ring[LastSlot].opcode
  IN  addrReg # "none" /\ ~Pending /\ ring[LastSlot].status = "PASSED"
        /\ o \in DOMAIN QueueOpcodeDir
      => IF o \in CreateOpcodes THEN slotArg[LastSlot] \in devQ[QueueOpcodeDir[o]]
         ELSE slotArg[LastSlot] \notin devQ[QueueOpcodeDir[o]]

(* The driver side: the ring memory is held exactly while ADMINQ_OK is    *)
(* set, no release runs under an operation, and a scan runs only once the   *)
(* device has completed everything issued.                                 *)
DriverInv ==
  /\ aqMem = aqOk
  /\ lpc # "idle" => aqOk /\ pc # "release_wait"
  /\ pc = "scan" => eventCounter = prodCnt

(* prod_cnt stays within what the operations can have issued, and a        *)
(* command that was just issued has a non-zero count.                      *)
CountInv ==
  /\ prodCnt <= IssueBudget
  /\ pc \in {"kick", "wait", "scan"} => prodCnt # 0

(* A running loop has done its work on the queues below qi; once a queue   *)
(* succeeded nothing but the loop's own command is outstanding; and an      *)
(* execute that returned 0 saw its own command completed with PASSED.       *)
LoopProgress ==
  op \in LoopOps /\ lpc # "idle" =>
    /\ Done(0 .. qi - 1)
    /\ lpc = "call" /\ qi >= 1 => ~Pending
    /\ (qi >= 1 /\ Pending) \/ (lpc = "wait" /\ pc \in {"kick", "wait", "scan"})
         => OwnLast
    /\ lpc = "wait" /\ pc = "idle" /\ ret = "OK" =>
         ~Pending /\ OwnLast /\ ring[LastSlot].status = "PASSED"

(* A loop that returned 0 did its work and left nothing outstanding.       *)
LoopFinal ==
  op \in LoopOps /\ lpc = "idle" /\ lret = "OK" => Done(Queues) /\ ~Pending

(* The invariant behind LoopResultHolds when prod_cnt does not wrap.       *)
LoopInv ==
  LifeInv /\ DriverInv /\ CountInv /\ LastEffect /\ LoopProgress /\ LoopFinal

(* A queue loop that returned 0 did its job on the device: after           *)
(* gve_adminq_create_*_queues returns 0 the device holds every queue, and  *)
(* after gve_adminq_destroy_*_queues returns 0 it holds none, whatever     *)
(* commands of earlier operations timed out and completed late.            *)
LoopResultHolds ==
  lpc = "idle" /\ op \in LoopOps /\ lret = "OK" =>
    devQ[LoopDir[op]] = IF op \in {"create_rx", "create_tx"} THEN Queues ELSE {}

(* The device never works on a register-page-list command whose staging   *)
(* buffer has been freed: the page list it reads by DMA is still there.    *)
StagingLiveWhileDeviceOwns ==
  \A sl \in PendingSlots :
    ring[sl].opcode = "REGISTER_PAGE_LIST" => slotArg[sl] \in staging

(* Every lifecycle operation a caller starts returns.                      *)
OperationReturns ==
  lpc # "idle" ~> lpc = "idle"
=============================================================================
