------------------------------- MODULE AdminQ -------------------------------
(***************************************************************************)
(* The gve admin queue: the command ring shared by the FreeBSD gve driver  *)
(* and the virtual NIC (src/unnamed/part_001, gve_adminq.c).               *)
(*                                                                         *)
(* One driver thread (callers hold the driver lock, so at most one admin   *)
(* operation runs at a time) allocates the ring, executes commands on it   *)
(* one at a time, and releases it.  The device is a concurrent actor: it   *)
(* consumes ring slots up to the doorbell, writes each slot's status and   *)
(* advances its event counter, and acknowledges a release.  The device is *)
(* not assumed fair: it may hang, which is what the driver's bounded       *)
(* polling is for.                                                         *)
(*                                                                         *)
(* Counters are unsigned integers of CounterBits bits (32 in the code).    *)
(***************************************************************************)
EXTENDS Naturals

CONSTANTS
  NSlots,         \* ADMINQ_SIZE / sizeof(union gve_adminq_command)
  CounterBits,    \* width of adminq_prod_cnt and of the event counter
  MaxPolls,       \* GVE_MAX_ADMINQ_EVENT_COUNTER_CHECK
  Opcodes,        \* the opcodes the callers issue
  DeviceStatuses  \* the status words the device may write into a slot

Modulus == 2 ^ CounterBits

ASSUME RingAssumption ==
  /\ NSlots \in Nat \ {0, 1}
  /\ CounterBits \in Nat \ {0}
  /\ Modulus \in Nat \ {0, 1}
  /\ Modulus % NSlots = 0

ASSUME PollAssumption == MaxPolls \in Nat \ {0}

(* gve_adminq_opcodes; the one counter gve_adminq_alloc does not reset.    *)
AllOpcodes ==
  {"DESCRIBE_DEVICE", "CONFIGURE_DEVICE_RESOURCES", "REGISTER_PAGE_LIST",
   "UNREGISTER_PAGE_LIST", "CREATE_TX_QUEUE", "CREATE_RX_QUEUE",
   "DESTROY_TX_QUEUE", "DESTROY_RX_QUEUE", "DECONFIGURE_DEVICE_RESOURCES",
   "SET_DRIVER_PARAMETER", "REPORT_STATS", "REPORT_LINK_SPEED",
   "GET_PTYPE_MAP", "VERIFY_DRIVER_COMPATIBILITY"}

NotResetByAlloc == {"VERIFY_DRIVER_COMPATIBILITY"}

(* gve_adminq_statuses, and BOGUS for any other 32-bit word.               *)
Retryable == {"ABORTED", "CANCELLED", "DATALOSS", "FAILED_PRECONDITION",
              "UNAVAILABLE"}
BadRequest == {"ALREADY_EXISTS", "INTERNAL_ERROR", "INVALID_ARGUMENT",
               "NOT_FOUND", "OUT_OF_RANGE", "UNKNOWN_ERROR"}
Denied == {"PERMISSION_DENIED", "UNAUTHENTICATED"}
AllStatuses ==
  {"UNSET", "PASSED", "DEADLINE_EXCEEDED", "RESOURCE_EXHAUSTED",
   "UNIMPLEMENTED", "BOGUS"} \cup Retryable \cup BadRequest \cup Denied

ASSUME StatusAssumption ==
  /\ Opcodes \subseteq AllOpcodes /\ Opcodes # {}
  /\ DeviceStatuses \subseteq AllStatuses /\ DeviceStatuses # {}

Errnos == {"OK", "EINVAL", "EAGAIN", "ETIME", "EACCES", "ENOMEM",
           "EOPNOTSUPP", "ENOTRECOVERABLE"}

(* gve_adminq_parse_err: the errno a status word is translated to.         *)
ParseErr(s) ==
  CASE s = "PASSED"             -> "OK"
    [] s \in Retryable          -> "EAGAIN"
    [] s = "DEADLINE_EXCEEDED"  -> "ETIME"
    [] s \in Denied             -> "EACCES"
    [] s = "RESOURCE_EXHAUSTED" -> "ENOMEM"
    [] s = "UNIMPLEMENTED"      -> "EOPNOTSUPP"
    [] OTHER                    -> "EINVAL"   \* UNSET, BadRequest, unknown

(* The statuses gve_adminq_parse_err counts in adminq_cmd_fail.            *)
CountedFailure(s) == s \notin {"PASSED", "UNSET"}

Inc(x) == (x + 1) % Modulus
Dec(x) == (x + Modulus - 1) % Modulus
Dist(a, b) == (a - b) % Modulus          \* a - b in uint32 arithmetic
SlotOf(i) == i % NSlots                  \* i & adminq_mask
Mask == NSlots - 1                       \* adminq_mask
Counter == 0 .. (Modulus - 1)

(* A slot: the opcode and status words, and the producer count at which   *)
(* it was written (an auxiliary field, not in the code: it names which    *)
(* command the slot holds).  BUS_DMA_ZERO memory holds zeros.             *)
Slot == [opcode : Opcodes \cup {"NONE"}, status : AllStatuses, seq : Counter]
ZeroSlot == [opcode |-> "NONE", status |-> "UNSET", seq |-> 0]

VARIABLES
  \* driver (struct gve_priv)
  aqOk,          \* GVE_STATE_FLAG_ADMINQ_OK
  aqMem,         \* priv->aq_mem.cpu_addr # NULL: the ring memory is allocated
  ring,          \* priv->adminq[0 .. adminq_mask]
  prodCnt,       \* priv->adminq_prod_cnt
  issueCnt,      \* priv->adminq_<opcode>_cnt
  cmdFail,       \* priv->adminq_cmd_fail
  timeouts,      \* priv->adminq_timeouts
  \* the driver thread inside gve_adminq_execute_cmd / gve_release_adminq
  pc, cmd, tail, head, polls, ret,
  \* device registers
  addrReg,       \* GVE_REG_ADMINQ_ADDR: "none" (reads 0), "set", "releasing"
  eventCounter,  \* ADMINQ_EVENT_COUNTER
  doorbell       \* ADMINQ_DOORBELL

driverVars == <<aqOk, aqMem, ring, prodCnt, issueCnt, cmdFail, timeouts>>
threadVars == <<pc, cmd, tail, head, polls, ret>>
deviceVars == <<addrReg, eventCounter, doorbell>>
vars == <<driverVars, threadVars, deviceVars>>

PCs == {"idle", "issue", "kick", "wait", "scan", "release_wait"}

TypeOK ==
  /\ aqOk \in BOOLEAN
  /\ aqMem \in BOOLEAN
  /\ ring \in [0 .. Mask -> Slot]
  /\ prodCnt \in Counter
  /\ issueCnt \in [Opcodes -> Counter]
  /\ cmdFail \in Counter
  /\ timeouts \in Counter
  /\ pc \in PCs
  /\ cmd \in Opcodes
  /\ tail \in Counter
  /\ head \in Counter
  /\ polls \in 0 .. MaxPolls
  /\ ret \in Errnos
  /\ addrReg \in {"none", "set", "releasing"}
  /\ eventCounter \in Counter
  /\ doorbell \in Counter

Init ==
  /\ aqOk = FALSE
  /\ aqMem = FALSE
  /\ ring = [i \in 0 .. Mask |-> ZeroSlot]
  /\ prodCnt = 0
  /\ issueCnt = [o \in Opcodes |-> 0]
  /\ cmdFail = 0
  /\ timeouts = 0
  /\ pc = "idle"
  /\ cmd \in Opcodes
  /\ tail = 0
  /\ head = 0
  /\ polls = 0
  /\ ret = "OK"
  /\ addrReg = "none"
  /\ eventCounter = 0
  /\ doorbell = 0
-----------------------------------------------------------------------------
(* gve_adminq_alloc on a queue that is not ADMINQ_OK: allocate zeroed ring *)
(* memory unless it is still held, reset the producer count and the        *)
(* counters, hand the ring to the device and set ADMINQ_OK.               *)
AllocAdminq ==
  /\ pc = "idle"
  /\ ~aqOk
  /\ aqMem' = TRUE
  /\ ring' = IF aqMem THEN ring ELSE [i \in 0 .. Mask |-> ZeroSlot]
  /\ prodCnt' = 0
  /\ cmdFail' = 0
  /\ timeouts' = 0
  /\ issueCnt' = [o \in Opcodes |->
                    IF o \in NotResetByAlloc THEN issueCnt[o] ELSE 0]
  /\ addrReg' = "set"
  /\ aqOk' = TRUE
  /\ ret' = "OK"
  /\ UNCHANGED <<pc, cmd, tail, head, polls, eventCounter, doorbell>>

(* gve_adminq_alloc when gve_dma_alloc_coherent fails.                     *)
AllocFail ==
  /\ pc = "idle"
  /\ ~aqOk
  /\ ~aqMem
  /\ ret' = "ENOMEM"
  /\ UNCHANGED <<driverVars, pc, cmd, tail, head, polls, deviceVars>>

(* gve_release_adminq: write 0 to the ADDR register, then poll it.         *)
ReleaseBegin ==
  /\ pc = "idle"
  /\ aqOk
  /\ addrReg' = "releasing"
  /\ pc' = "release_wait"
  /\ UNCHANGED <<driverVars, cmd, tail, head, polls, ret,
                 eventCounter, doorbell>>

(* gve_release_adminq, once ADDR reads 0: free the ring, clear ADMINQ_OK.  *)
ReleaseDone ==
  /\ pc = "release_wait"
  /\ addrReg = "none"
  /\ aqMem' = FALSE
  /\ aqOk' = FALSE
  /\ pc' = "idle"
  /\ UNCHANGED <<ring, prodCnt, issueCnt, cmdFail, timeouts,
                 cmd, tail, head, polls, ret, deviceVars>>

(* gve_adminq_execute_cmd: a command is still outstanding (tail # head).   *)
ExecBusy(o) ==
  /\ pc = "idle"
  /\ aqOk
  /\ eventCounter # prodCnt
  /\ cmd' = o
  /\ ret' = "EINVAL"
  /\ UNCHANGED <<driverVars, pc, tail, head, polls, deviceVars>>

(* Mutant: execute without the tail # head check.                         *)
ExecBeginUnchecked(o) ==
  /\ pc = "idle"
  /\ aqOk
  /\ cmd' = o
  /\ pc' = "issue"
  /\ UNCHANGED <<driverVars, tail, head, polls, ret, deviceVars>>

(* gve_adminq_execute_cmd: nothing outstanding, go on to issue the command.*)
ExecBegin(o) ==
  /\ pc = "idle"
  /\ aqOk
  /\ eventCounter = prodCnt
  /\ cmd' = o
  /\ pc' = "issue"
  /\ UNCHANGED <<driverVars, tail, head, polls, ret, deviceVars>>

(* gve_adminq_issue_cmd: copy the command (status zeroed) into slot        *)
(* prod_cnt & mask, advance prod_cnt, count the opcode.  The drain branch  *)
(* for a full ring is never taken (IssueNeverOverflows).                   *)
(* Mutant: the opcode switch has no case for the command's opcode.       *)
IssueUncounted ==
  /\ pc = "issue"
  /\ Dist(prodCnt, eventCounter) <= Mask
  /\ ring' = [ring EXCEPT ![SlotOf(prodCnt)] =
                [opcode |-> cmd, status |-> "UNSET", seq |-> prodCnt]]
  /\ prodCnt' = Inc(prodCnt)
  /\ pc' = "kick"
  /\ UNCHANGED <<aqOk, aqMem, issueCnt, cmdFail, timeouts, cmd, tail, head,
                 polls, ret, deviceVars>>

Issue ==
  /\ pc = "issue"
  /\ Dist(prodCnt, eventCounter) <= Mask
  /\ ring' = [ring EXCEPT ![SlotOf(prodCnt)] =
                [opcode |-> cmd, status |-> "UNSET", seq |-> prodCnt]]
  /\ prodCnt' = Inc(prodCnt)
  /\ issueCnt' = [issueCnt EXCEPT ![cmd] = Inc(@)]
  /\ pc' = "kick"
  /\ UNCHANGED <<aqOk, aqMem, cmdFail, timeouts, cmd, tail, head, polls, ret,
                 deviceVars>>

(* Mutant: the doorbell rung with one past the producer count.            *)
KickPastHead ==
  /\ pc = "kick"
  /\ tail' = eventCounter
  /\ head' = prodCnt
  /\ doorbell' = Inc(prodCnt)
  /\ polls' = 0
  /\ pc' = "wait"
  /\ UNCHANGED <<driverVars, cmd, ret, addrReg, eventCounter>>

(* gve_adminq_kick_and_wait: read the event counter as tail, take          *)
(* prod_cnt as head and ring the doorbell with it.                         *)
Kick ==
  /\ pc = "kick"
  /\ tail' = eventCounter
  /\ head' = prodCnt
  /\ doorbell' = prodCnt
  /\ polls' = 0
  /\ pc' = "wait"
  /\ UNCHANGED <<driverVars, cmd, ret, addrReg, eventCounter>>

(* gve_adminq_wait_for_cmd: the event counter has reached head.            *)
WaitDone ==
  /\ pc = "wait"
  /\ eventCounter = head
  /\ pc' = "scan"
  /\ UNCHANGED <<driverVars, cmd, tail, head, polls, ret, deviceVars>>

(* Mutant: the poll loop without its bound.                               *)
WaitSleepUnbounded ==
  /\ pc = "wait"
  /\ eventCounter # head
  /\ polls' = polls + 1
  /\ UNCHANGED <<driverVars, pc, cmd, tail, head, ret, deviceVars>>

(* Mutant: a poll loop that waits for the device without counting.        *)
WaitSleepForever ==
  /\ pc = "wait"
  /\ eventCounter # head
  /\ UNCHANGED <<driverVars, pc, cmd, tail, head, polls, ret, deviceVars>>

(* gve_adminq_wait_for_cmd: not yet; sleep and read again.                 *)
WaitSleep ==
  /\ pc = "wait"
  /\ eventCounter # head
  /\ polls + 1 < MaxPolls
  /\ polls' = polls + 1
  /\ UNCHANGED <<driverVars, pc, cmd, tail, head, ret, deviceVars>>

(* gve_adminq_kick_and_wait: the last read failed too; count a timeout.    *)
WaitTimeout ==
  /\ pc = "wait"
  /\ eventCounter # head
  /\ polls + 1 = MaxPolls
  /\ timeouts' = Inc(timeouts)
  /\ ret' = "ENOTRECOVERABLE"
  /\ pc' = "idle"
  /\ UNCHANGED <<aqOk, aqMem, ring, prodCnt, issueCnt, cmdFail,
                 cmd, tail, head, polls, deviceVars>>

(* Mutant: the scan loop with i <= head.                                  *)
ScanErrsInclusive ==
  {i \in tail .. head : ParseErr(ring[SlotOf(i)].status) # "OK"}

(* The loop for (i = tail; i < head; i++) of gve_adminq_kick_and_wait      *)
(* compares the counters as plain unsigned integers; these are the         *)
(* indices it visits whose status parses to an error.                      *)
ScanErrs == {i \in tail .. (head - 1) : ParseErr(ring[SlotOf(i)].status) # "OK"}

(* The scan finds no failed status: kick_and_wait returns 0.               *)
ScanPass ==
  /\ pc = "scan"
  /\ ScanErrs = {}
  /\ ret' = "OK"
  /\ pc' = "idle"
  /\ UNCHANGED <<driverVars, cmd, tail, head, polls, deviceVars>>

(* The scan stops at the first failed status: parse_err counts it and      *)
(* kick_and_wait returns its errno.                                        *)
ScanFail ==
  /\ pc = "scan"
  /\ ScanErrs # {}
  /\ LET first == CHOOSE i \in ScanErrs : \A j \in ScanErrs : i <= j
         s == ring[SlotOf(first)].status
     IN  /\ ret' = ParseErr(s)
         /\ cmdFail' = IF CountedFailure(s) THEN Inc(cmdFail) ELSE cmdFail
  /\ pc' = "idle"
  /\ UNCHANGED <<aqOk, aqMem, ring, prodCnt, issueCnt, timeouts,
                 cmd, tail, head, polls, deviceVars>>

(* The device completes the slot at its event counter: it writes a status *)
(* word into the slot and advances the counter.                            *)
DeviceComplete(s) ==
  /\ addrReg # "none"
  /\ eventCounter # doorbell
  /\ ring' = [ring EXCEPT ![SlotOf(eventCounter)].status = s]
  /\ eventCounter' = Inc(eventCounter)
  /\ UNCHANGED <<aqOk, aqMem, prodCnt, issueCnt, cmdFail, timeouts,
                 threadVars, addrReg, doorbell>>

(* The device lets go of the ring: ADDR reads 0, its counters restart.     *)
DeviceRelease ==
  /\ addrReg = "releasing"
  /\ addrReg' = "none"
  /\ eventCounter' = 0
  /\ doorbell' = 0
  /\ UNCHANGED <<driverVars, threadVars>>

(* The steps of a command in progress: code that never blocks.             *)
ExecStep ==
  \/ Issue \/ Kick \/ WaitDone \/ WaitSleep \/ WaitTimeout
  \/ ScanPass \/ ScanFail

Next ==
  \/ AllocAdminq \/ AllocFail \/ ReleaseBegin \/ ReleaseDone
  \/ \E o \in Opcodes : ExecBusy(o) \/ ExecBegin(o)
  \/ ExecStep
  \/ \E s \in DeviceStatuses : DeviceComplete(s)
  \/ DeviceRelease

(* The driver thread runs a command to its end; the device and callers    *)
(* owe nothing.                                                            *)
Spec == Init /\ [][Next]_vars /\ WF_vars(ExecStep)

-----------------------------------------------------------------------------
(* Ring safety: while the device holds the ring it never runs ahead of the *)
(* doorbell the driver rang, the doorbell never runs ahead of prod_cnt,    *)
(* and every slot the device still has to complete holds the command the   *)
(* driver issued at that count (no stale or overwritten slot), across      *)
(* gve_adminq_issue_cmd, gve_adminq_kick_cmd and the device's completions. *)
DeviceConsumesOnlyIssued ==
  addrReg # "none" =>
    /\ Dist(prodCnt, doorbell) + Dist(doorbell, eventCounter)
         = Dist(prodCnt, eventCounter)
    /\ eventCounter # doorbell => ring[SlotOf(eventCounter)].seq = eventCounter

(* The comment of gve_adminq_issue_cmd: when a command is issued the ring  *)
(* is never full ("This should never happen"), whatever timeouts and late  *)
(* completions came before.                                                *)
IssueNeverOverflows ==
  pc = "issue" => Dist(prodCnt, eventCounter) <= Mask

(* An error gve_adminq_kick_and_wait returns from its scan is the          *)
(* translation of the status the device wrote for the command just issued  *)
(* (never a stale status of an earlier use of the slot).                   *)
ReportedErrorGenuine ==
  [][pc = "scan" /\ pc' = "idle" /\ ret' # "OK" =>
       ret' = ParseErr(ring[SlotOf(Dec(head))].status)]_vars

(* Spec 4.2: kick_and_wait reports the status of every completed command:  *)
(* its result is the translation of the status the device wrote for the    *)
(* command just issued, success included.                                  *)
ResultMatchesDevice ==
  [][pc = "scan" /\ pc' = "idle" =>
       ret' = ParseErr(ring[SlotOf(Dec(head))].status)]_vars

(* Spec 4.3: every non-success status increments adminq_cmd_fail once.      *)
FailuresCounted ==
  [][pc = "scan" /\ pc' = "idle" /\ ret' # "OK" => cmdFail' = Inc(cmdFail)]_vars

(* The ring invariant behind DeviceConsumesOnlyIssued and                 *)
(* IssueNeverOverflows, strong enough to be preserved by every step: at    *)
(* most one command is ever outstanding, because gve_adminq_execute_cmd    *)
(* refuses to issue while the event counter lags prod_cnt; ADMINQ_OK and   *)
(* the ring memory are held whenever the device holds the ADDR register;   *)
(* the slot of the last command issued carries its count; and while the   *)
(* thread waits or scans, head is prod_cnt and tail the count just before. *)
RingInv ==
  /\ TypeOK
  /\ pc \in {"wait", "scan"} => head = prodCnt /\ tail = Dec(head)
  /\ ~aqOk => addrReg = "none" /\ pc = "idle"
  /\ aqOk => aqMem
  /\ pc \in {"issue", "kick", "wait", "scan"} => aqOk
  /\ aqOk /\ pc # "release_wait" => addrReg = "set"
  /\ addrReg = "none" => eventCounter = 0 /\ doorbell = 0
  /\ addrReg # "none" =>
       /\ pc = "issue" => eventCounter = prodCnt /\ doorbell = prodCnt
       /\ pc = "kick" => eventCounter = doorbell /\ prodCnt = Inc(doorbell)
       /\ pc \notin {"issue", "kick"} =>
            /\ doorbell = prodCnt
            /\ eventCounter \in {prodCnt, Dec(prodCnt)}
       /\ eventCounter # prodCnt =>
            ring[SlotOf(Dec(prodCnt))].seq = Dec(prodCnt)

(* gve_adminq_execute_cmd always returns: the event-counter poll is bounded *)
(* even when the device never answers.                                     *)
ExecuteTerminates ==
  pc \in {"issue", "kick", "wait", "scan"} ~> pc = "idle"
=============================================================================
