# Verification of the gve admin queue

This directory holds TLA+ models of the admin queue of the FreeBSD gve
driver. The admin queue is the command channel between the driver and the
virtual NIC. The C sources are `src/unnamed/part_001` (gve_adminq.c),
`src/unnamed/part_000` (gve_adminq.h) and `src/gve_sysctl.c`. The directory
also holds TLC configurations that model-check the models on small
instances, and TLAPS proofs that hold for every instance.

## The system

| Part | Code | What it does |
|---|---|---|
| Command ring transport | `gve_adminq_alloc`, `gve_release_adminq`, `gve_adminq_execute_cmd`, `gve_adminq_issue_cmd`, `gve_adminq_kick_cmd`, `gve_adminq_wait_for_cmd`, `gve_adminq_kick_and_wait` (part_001:558-843) | A ring of `ADMINQ_SIZE/64` command slots in DMA memory. It has a producer count `adminq_prod_cnt`, a doorbell register, and an event counter the device advances as it completes slots. There is a bounded poll (10 reads), and a scan of the completed slots that returns the first error. |
| Error translation | `gve_adminq_parse_err` (627-669) | Maps a device status word to an errno. Every status other than PASSED or UNSET is counted in `adminq_cmd_fail`. |
| Descriptor negotiator | `gve_adminq_describe_device`, `gve_process_device_options`, `gve_get_next_option`, `gve_parse_device_option`, `gve_enable_supported_features` (67-164, 336-432) | Issues DESCRIBE_DEVICE and walks `num_device_options` TLV options, bounded by `total_length`. It takes the GQI QPL and jumbo-frames options whose length and mask are valid, and fills in the negotiated fields of the softc. |
| Resource and queue lifecycle | the create/destroy queue loops, configure/deconfigure resources, page-list registration, set_mtu, verify compatibility (169-334, 434-556) | Each builds one command and calls execute_cmd. The queue loops stop at the first failure. |
| Wire format | part_000 | The 64-byte command union, the status and opcode enums, and the descriptor and option layouts. All fields are big-endian. |
| Command counters | part_001:581-597, 773-818 | Per-opcode issue counters, `adminq_cmd_fail` and `adminq_timeouts`. |
| Statistics surface | `gve_sysctl.c` | `gve_setup_sysctl` registers a sysctl leaf per ring counter and per admin-queue counter, each bound to the counter's address. `gve_accum_stats` adds the packet, byte and drop counters of every ring into six caller totals, without a lock against the datapath. |

How the parts interact:

- One driver thread runs admin operations. The callers hold the driver lock, and the functions say "not threadsafe - the caller is responsible".
- The device is a concurrent actor. It consumes slots up to the doorbell, writes each slot's status, advances its event counter, and acknowledges a release by letting the ADDR register read 0.
- The negotiator and the lifecycle functions are the only callers of execute_cmd.
- The sysctl leaves and `gve_accum_stats` read counters that the admin queue and the datapath (gve_rx.c, gve_tx.c, not in the repository) keep updating. Neither takes a lock.

Several behaviours are hard to test:

- counter wrap at 2^32;
- a timeout racing a late completion;
- slot reuse with a stale status;
- release and re-allocation;
- a device that never answers;
- a device-written descriptor whose lengths disagree with the buffer.

## Modules

### `AdminQ.tla`: transport, error translation and counters

**State.** The variables mirror `struct gve_priv`:

- `aqOk`, `aqMem`, `ring`, `prodCnt`, `issueCnt`, `cmdFail`, `timeouts`;
- the driver thread's position and locals (`pc`, `cmd`, `tail`, `head`, `polls`, `ret`);
- the device registers (`addrReg`, `eventCounter`, `doorbell`).

**Data abstraction.**

- Counters are `CounterBits` wide and wrap modulo `2^CounterBits`, as the uint32 counters do.
- A slot is its opcode and status words. Each slot also has an auxiliary `seq` field: the producer count it was written at, which lets properties name which command a slot holds.

**Driver actions.** There is one action per step of the code:

| Action | Code |
|---|---|
| `AllocAdminq`, `AllocFail` | alloc |
| `ReleaseBegin`, `ReleaseDone` | release: the write of 0 to ADDR, and the free after ADDR reads 0 |
| `ExecBusy`, `ExecBegin` | execute_cmd's `tail != head` check |
| `Issue` | issue_cmd: the slot write, `prod_cnt++` and the opcode counter |
| `Kick` | reading the tail, taking the head, ringing the doorbell |
| `WaitDone`, `WaitSleep`, `WaitTimeout` | wait_for_cmd and the timeout branch |
| `ScanPass`, `ScanFail` | the scan loop, with parse_err's counting |

**Device actions.** `DeviceComplete(s)` and `DeviceRelease` are the device.

**Not modelled as actions.**

- The drain branch of issue_cmd for a full ring is a guard of `Issue`. `RingSafety` proves that the branch is never reached from execute_cmd, which is issue_cmd's only caller.
- The early `return (0)` of an alloc with ADMINQ_OK already set is not an action, because it changes no state.

`MCAdminQ.tla` gives small opcode and status sets.

### `AdminQSysctl.tla`: the adminq_stats node over AdminQ

`AdminqStatView` is what a reader of the `adminq_stats` sysctl node sees:

- the `adminq_prod_cnt`, `adminq_cmd_fail` and `adminq_timeouts` leaves;
- one leaf per opcode that has one (`OpcodeStatNode`). REPORT_STATS, REPORT_LINK_SPEED and GET_PTYPE_MAP have softc counters but no leaf, and the repository never issues them.

`ExportedCountsAddUp` says that the per-opcode leaves sum to `adminq_prod_cnt`, modulo 2^32. Each leaf is an aligned 32-bit word, so an unlocked read returns the value before or after a concurrent store. The sum, `LeafTotal`, adds the eleven leaves by name, in the order `gve_setup_adminq_stat_sysctl` registers them. `OpcodeLeaf` reads 0 for an opcode that the instance's callers never issue. The property is checked only by the violation run `adminq_counters` (finding 2). With the driver's real opcodes, VERIFY_DRIVER_COMPATIBILITY included, it is false. With only reset opcodes, it merely restates that `Issue` bumps both counters in one step, which `Issue` does by construction. `Issue` also merges `prod_cnt++` (part_001:764) with the opcode counter increment (775), which an unlocked sysctl reader sees apart.

### `Stats.tla`: gve_sysctl.c

**Sysctl tree.** `tree` is the set of leaves `gve_setup_sysctl` registers, each a record of parent node, leaf name and the counter it is bound to:

- `gve_setup_rxq_sysctl(q)` and `gve_setup_txq_sysctl(q)` give the leaves of one ring (`RxqLeaves`, `TxqLeaves`);
- `gve_setup_queue_stat_sysctl` gives them for rings `0 .. num_queues-1`;
- `gve_setup_adminq_stat_sysctl` gives the adminq_stats leaves.

The whole of `gve_setup_sysctl` is one action, taken once.

**Accumulation.** `gve_accum_stats` is one step per `counter_u64_fetch` line (`AccumLine`), so the datapath's `DatapathBump` can run between any two fetches. The variables are:

- `acc`: the six totals behind the caller's pointers;
- `i`, `k`: the ring index and the line of the loop body;
- `entry`, `start`: history variables holding the totals on entry and the counters when the call began.

A counter(9) fetch sums per-CPU slots that only grow, so it returns a value between the counter's values at its start and at its end. An atomic read, as in the model, is one of those values.

### `Lifecycle.tla`: queue and resource commands on the admin queue

`Lifecycle` extends `AdminQ` and adds the callers of execute_cmd.

**Caller state.** `lpc`, `op`, `opcode`, `qi` and `lret`.

**Device state.**

- `devQ`: the queues the device holds, per direction;
- `slotArg`: the argument of the command in each slot (a queue index, or a staging buffer);
- `staging`: the live staging buffers.

**Caller actions.**

| Action | Code |
|---|---|
| `LoopBegin`, `CallExecute`, `ExecReturned`, `LoopDone` | `gve_adminq_{create,destroy}_{rx,tx}_queues`: execute per index and return the first error. `CallExecute` is conjoined with AdminQ's `ExecBegin` or `ExecBusy`, and `ExecReturned` reads AdminQ's `ret` once its thread is idle. |
| `RegisterBegin`, `RegisterAllocFail` | `gve_adminq_register_page_list`: the staging buffer is allocated, or ENOMEM. `ExecReturned` frees the buffer whatever execute returned. |
| `SingleBegin` | configure and deconfigure resources, unregister page list, set_mtu, verify compatibility: one execute each. |

**Composed AdminQ steps.**

- `IssueArg` is AdminQ's `Issue`, which also records the command's argument.
- `DeviceRuns(s)` is `DeviceComplete(s)`, which also applies a PASSED create or destroy to `devQ`.
- Alloc and release (`AdminqSetup`) run only between operations.

### `Channel.tla` and `AdminQChannel.tla`: the abstract channel

`Channel` is what spec 4.2 and 5 promise a caller:

- at most one command is pending on the device;
- execute refuses (EINVAL) while one is pending;
- otherwise execute hands the command over and returns either the verdict on the status the device wrote for it (`Return`) or ENOTRECOVERABLE with the command still pending (`GiveUp`);
- the device completes pending commands in order, also after the caller gave up;
- release waits until the device lets go.

`AdminQChannel` maps AdminQ onto it (`Chan == INSTANCE Channel WITH ...`):

- the pending command is the slot at the event counter while the counter lags prod_cnt and the device holds the ring;
- the last status is the slot before the event counter;
- the caller is idle in `idle` and `issue`, busy in `kick`, `wait` and `scan`, and releasing in `release_wait`;
- `res` is `ret`.

`ImplementsChannel == Chan!Spec`, fairness included.

### `Describe.tla`: descriptor negotiation

**State.** The state of one `gve_adminq_describe_device` call:

- `pc`, `rc`;
- the descriptor in `desc_mem`;
- the loop's `i` and `off`, the taken `gqi` and `jumbo` options;
- `readEnd`, the highest byte of the buffer read so far;
- the negotiated softc fields: `queueFormat`, `supportedFeatures`, `maxMtu`, the ring sizes and their maxima;
- `fromDesc`, which stands for the plain copies of counters, queues and mac.

**Data abstraction.**

- A descriptor is a record: total_length, num_device_options, mtu, ring sizes, and the option sequence the device wrote.
- Memory beyond the written options is zero (BUS_DMA_ZERO), and reads as an unknown option of length 0.
- Byte offsets use the real structure sizes: 40, 8, 4 and 8.

**Actions.**

| Action | Code |
|---|---|
| `DescAlloc`, `DescAllocFail` | the DMA allocation |
| `ExecFail`, `ExecOk` | the describe-device command. It is abstracted to its outcome: an errno, or a descriptor the device chose. |
| `WalkOption`, `WalkOverrun` | one iteration of gve_process_device_options |
| `NoQueueFormat`, `Finish` | the end of describe_device |

**Reference definition.** `OptEnds`, `RefFits`, `RefTaken`, `RefGqi`, `RefAccepts` and `RefMtu` state declaratively what the negotiation must produce for a whole descriptor. The walk is checked against them.

`MCDescribe.tla` builds the descriptor sets.

### Proof modules

- `AdminQ_proofs.tla` proves facts about AdminQ alone.
- `Lifecycle_proofs.tla` extends `Lifecycle` and `AdminQ_proofs`, and proves facts about the admin queue driven by its callers.
- `AdminQChannel_proofs.tla` extends `Lifecycle_proofs` and `AdminQChannel`, and proves the refinement onto `Channel`.
- `Stats_proofs.tla` and `Describe_proofs.tla` prove the type correctness of `Stats` and `Describe`.

See "What is proved" below.

## Runs

| Run | Expect | Checks |
|---|---|---|
| `adminq_safety` (`AdminQ_safety.cfg`) | pass | `TypeOK`, `DeviceConsumesOnlyIssued`, `IssueNeverOverflows`, `RingInv`, `ReportedErrorGenuine`, `ExecuteTerminates` |
| `adminq_wrap` (`AdminQ_wrap.cfg`) | violation | `ResultMatchesDevice` |
| `adminq_failcount` (`AdminQ_failcount.cfg`) | violation | `FailuresCounted` |
| `adminq_counters` (`AdminQ_counters.cfg`) | violation | `ExportedCountsAddUp` |
| `describe_negotiate` (`Describe_negotiate.cfg`) | pass | `TypeOK`, `NegotiationMatchesReference` |
| `describe_bounds` (`Describe_bounds.cfg`) | violation | `ReadsWithinBuffer` |
| `describe_jumbo` (`Describe_jumbo.cfg`) | violation | `JumboRaisesMtu` |
| `stats_accum` (`Stats_accum.cfg`) | pass | `TypeOK`, `AccumBetweenSnapshots` |
| `lifecycle_loops` (`Lifecycle_loops.cfg`) | pass | `LifeTypeOK`, `LoopResultHolds`, `LoopInv`, `OperationReturns`, `ImplementsChannel`, `ResultMatchesDevice` |
| `lifecycle_staging` (`Lifecycle_staging.cfg`) | violation | `StagingLiveWhileDeviceOwns` |
| `lifecycle_wrap` (`Lifecycle_wrap.cfg`) | violation | `LoopResultHolds` |

**What the passing runs show.**

- `adminq_safety` checks these properties:
  - The device only consumes commands the driver issued, at their count. The doorbell never runs ahead of prod_cnt.
  - issue_cmd never finds the ring full.
  - A non-zero result of the scan is the translation of the status written for the command just issued, never a stale status of the slot's earlier use.
  - execute_cmd always returns, even when the device hangs.
- `describe_negotiate` checks that describe_device succeeds exactly when the reference accepts the descriptor. It then selects GQI QPL with the features, MTU and clamped ring sizes of the last valid options. Every failure path leaves the negotiated softc fields untouched.

- `stats_accum` checks that, whatever the datapath counts between the fetches, what `gve_accum_stats` adds to each total lies between the per-ring sum of that counter at the call's start and at its return. This means every ring is fetched exactly once, and no count present at the start is lost. It holds for zeroed and for non-zero caller totals.
- `lifecycle_loops` checks these properties:
  - A create loop that returns 0 leaves the device holding every queue, and a destroy loop that returns 0 leaves it holding none. This holds even after commands of earlier operations timed out, made later calls fail with EINVAL, and were then completed late.
  - Every operation returns.
  - The admin queue, driven this way, refines `Channel`. Because `Channel`'s `CloseDone` needs the device to have let go (`LetGo`), this also shows that release frees the ring only after ADDR reads 0 (part_001:618).
  - `LoopInv`, the inductive invariant behind `LoopResultCorrect` (see below), holds in every reachable state.
  - Every finished scan returns the parsed status of the last slot the device wrote (`ResultMatchesDevice`, which `adminq_wrap` shows false once prod_cnt wraps).

**Findings.** The violation runs are the findings recorded in PROJECT.json:

1. **Wrapped counters.** The scan `for (i = tail; i < head; i++)` does not handle counters that wrap. A failed command is then reported as success.
2. **Alloc resets counters inconsistently.** `gve_adminq_alloc` resets every per-opcode counter except `adminq_verify_driver_compatibility_cnt`.
3. **UNSET is not counted.** parse_err reports an UNSET status as EINVAL but does not count it in `adminq_cmd_fail`. Spec 4.3 says it should.
4. **Descriptor not bounded by the buffer.** The option walk trusts `total_length` and never compares it with ADMINQ_SIZE, so it reads past the buffer.
5. **Jumbo option can lower the MTU.** A jumbo option can lower `max_mtu`, while spec 4.4 says it raises it.
6. **Staging buffer freed under the device.** `gve_adminq_register_page_list` frees its staging buffer after execute returns ENOTRECOVERABLE, while the command is still in the ring. The device completes it later and reads the page list from freed memory. `gve_adminq_describe_device` frees its descriptor buffer the same way. That path is listed as a hazard but not modelled.
7. **Wrap seen from the lifecycle.** At the prod_cnt wrap, `gve_adminq_create_rx_queues` returns 0 although the device rejected a queue. This is finding 1 as a caller sees it.

**Bounds for AdminQ.**

- `NSlots = 2` and `CounterBits = 2`: two slots and counters modulo 4. Slot reuse happens at the third command, and the wrap at the fifth, well within reach.
- `MaxPolls = 2` is enough for a command to complete after one sleep or to time out.
- One opcode in the safety run. Opcodes only feed the counters, and the safety properties do not read them. The counters run uses two opcodes, one of them the counter alloc does not reset.
- Three statuses: PASSED, a retryable error, and UNSET (the device writes nothing).
- The device may complete, hang or release at any time.
- The state space is about 21,000 states and is explored completely.

**Bounds for Describe.**

- Option sequences of up to two options, out of six kinds.
- `num_device_options` from 0 to 3. Counts beyond the written options make the walk read zeroed memory.
- Six totals, which cut the list before, inside and after each option.
- `ADMINQ_SIZE = 4096` and `GVE_MAX_RING_SIZE = 1024`. Both are defined in gve.h, which is not in the repository. The ring sizes 2048 and 512 are clamped in both directions.

**Bounds for Stats.**

- Two rx rings and one tx ring: the accumulation loops run over more than one ring, and both directions run.
- `MaxBumps = 3` datapath increments.
- Caller totals are all zero or all one: the `+=` on a non-zero total is exercised.
- About 128,000 states.

**Bounds for Lifecycle.**

- `NumQueues = 2` and `MaxOps = 3`, with create_rx, destroy_rx, register and configure. Failure in the middle of a loop, and operations after a timeout, both happen.
- `CounterBits = 3`: at most six commands are issued per allocation, so prod_cnt does not wrap in `lifecycle_loops`. `lifecycle_wrap` uses two bits and shows what the wrap does.
- The tx loops are the same actions with another opcode and direction.
- About 416,000 states.

**Fairness.**

- `AdminQ.Spec` has weak fairness on `ExecStep`, the driver's own non-blocking steps (issue, kick, poll, timeout, scan). These steps are code that runs to completion once scheduled.
- `Lifecycle.LifeSpec` also has weak fairness on the caller's own steps (`CallerStep`) and on the execute steps. An operation in progress is code that runs to its return. No caller is obliged to start one.
- The device and the callers get no fairness. A device may stop forever, which is exactly the case the poll bound exists for.
- `Describe.Spec` has no fairness: its run checks only safety.
- The describe runs set `CHECK_DEADLOCK FALSE`, because the call returns and stops.

## What is proved (TLAPS)

### `AdminQ_proofs.tla`

The proofs hold for all `NSlots >= 2`, all widths `CounterBits >= 1` with `NSlots` dividing `2^CounterBits` (RingAssumption, which the power-of-two ring of the code satisfies), and all `MaxPolls >= 1`:

- `TypeCorrect`: `Spec => []TypeOK`. It is proved from `TypeInit` and `TypeStep`, with one step per action.
- `RingInvariant`: `Spec => []RingInv`. `RingInv` is the inductive invariant. Its conjuncts:
  - at most one command is outstanding, because execute_cmd refuses to issue while the event counter lags prod_cnt. The relation of doorbell, event counter and prod_cnt is fixed per driver position.
  - ADMINQ_OK implies the ring memory is held.
  - The ADDR register is held exactly while ADMINQ_OK is set, apart from the release wait.
  - A released device has zeroed counters.
  - The slot of the last issued command carries its count.

  The safety invariants alone are not inductive. They say nothing about where the doorbell is while a command is being issued, or about the slot contents after a late completion.
- `RingSafety`: `Spec => [](DeviceConsumesOnlyIssued /\ IssueNeverOverflows)`. It follows from `RingInv` by `RingInvSafe`.
- `NeverOverflows` (`Spec => []IssueNeverOverflows`) states the second invariant alone, by the same argument.
- `ErrorGenuine`: `Spec => ReportedErrorGenuine`, for every instance, wrap included. `RingInv` puts tail at `Dec(head)` during the scan, so the scan visits at most the index of the last command (`ScanRange`). The first error it finds is therefore that command's status (`ScanErrorStep`).
- Lemmas on the counter arithmetic: `IncDecRange` and `IncDecInverse`, which cover the wrap of `Inc` and `Dec`.
- Lemmas on the scan: `ScanPassPassed` says a scan that finds no error over a non-empty range saw PASSED. `ScanFailErr` says a failing scan returns an errno.

### `Lifecycle_proofs.tla`

These theorems hold for every instance that satisfies RingAssumption and LifecycleAssumption:

- `LifeInvariant`: `LifeSpec => []LifeInv`. `LifeInv` is `LifeTypeOK /\ RingInv /\ CallerInv`. `CallerInv` ties the caller to the thread: the caller executes only while an operation runs, and the command in the issue step is the caller's. `LifeStepIsAdminQStep` shows that every lifecycle step is an AdminQ step, so `RingInv` carries over.
- `LifeTypeCorrect`: `LifeSpec => []LifeTypeOK`.
- `LifeRingSafety`: the two ring safety invariants under the callers.
- `LoopResultCorrect`: `ASSUME NoWrap PROVE LifeSpec => []LoopResultHolds`. `NoWrap` is `MaxOps * NumQueues < 2^CounterBits`: the operations of a behaviour issue fewer commands than prod_cnt can count.

  `LoopResultHolds` is not inductive. The proof uses `LoopInv`, which the `lifecycle_loops` run also checks. Its conjuncts, and why each is needed:
  - `DriverInv`: a running operation has the queue allocated and not releasing, and a scan sees the event counter at prod_cnt.
  - `CountInv`: prod_cnt is below `IssueBudget`, the commands started so far. A command just issued therefore has a non-zero count. This is where `NoWrap` enters: at count 0 the scan range is empty and a failed command passes (finding 7).
  - `LastEffect`: once the last command completed PASSED, the device's queues show its effect.
  - `LoopProgress`: a running loop has done its work on the queues below `qi`. Between two queues nothing is outstanding. While its execute runs, the last command in the ring is the loop's own command for `qi`. An execute that returned 0 saw that command completed with PASSED. So no late completion of an earlier command can undo the work or be mistaken for the loop's result.
  - `LoopFinal`: a loop that returned 0 has done all of its queues.

  The step lemma `LoopInvStep` has one lemma per conjunct, with one case per action. The key facts are `PendingIsLast` (an outstanding command is the last one issued) and `QuietDevice` (with nothing outstanding the device cannot complete anything).
- `LoopInvariant`: `ASSUME NoWrap PROVE LifeSpec => []LoopInv`. This is the invariant the `lifecycle_loops` run checks, stated as a theorem of its own.
- `ResultMatchesDeviceNoWrap`: `ASSUME NoWrap PROVE LifeSpec => ResultMatchesDevice`. The action property: a step that ends a scan sets `ret` to `ParseErr` of the status in slot `Dec(head)`. `LoopInv` gives `head = prodCnt # 0` during a scan, so the range `tail .. head-1` is exactly the last command. The AdminQ lemma `ScanResultStep` then does the work: an error result is that status by `ScanErrorStep`, and an OK result means the scan found no error and saw PASSED by `ScanPassPassed`. Without `NoWrap` the property is false (run `adminq_wrap`).

### `AdminQChannel_proofs.tla`

- `ChannelRefinement`: `ASSUME NoWrap PROVE LifeSpec => Chan!Init /\ [][Chan!Next]_Chan!cvars`. This is the safety part of `ImplementsChannel`. The proof has two parts:
  - `ChannelInit`: the initial state maps to a closed, idle channel.
  - `ChannelStepAQ`: every AdminQ step maps to a channel step or a stutter, given `RingInv` and, during a scan, `eventCounter = prodCnt` with `prodCnt # 0`. It has one case per action:
    - alloc maps to `Open`, alloc failure to `OpenFail`, and the two halves of release to `CloseBegin` and `CloseDone`;
    - `ExecBusy` maps to `Refuse`, and `Issue` to `Submit`. `SlotsDiffer` shows that issuing into slot `prodCnt & mask` does not touch the last status;
    - `WaitTimeout` maps to `GiveUp`;
    - a scan maps to `Return`. `ScanPassPassed` and `ScanErrorStep` show its result is the verdict on the last status;
    - `DeviceComplete` maps to `Complete`, by `PendingIsLast`;
    - `DeviceRelease` maps to `LetGo`;
    - the kick, the poll and `ExecBegin` map to stutters.

  `DriverInv` and `CountInv` from `LoopInv` give the scan hypothesis. That hypothesis is exactly what fails when prod_cnt wraps.

### `Stats_proofs.tla` and `Describe_proofs.tla`

- `StatsTypeCorrect`: `Stats!Spec => []TypeOK`, for every number of rings and every `MaxBumps`. `TypeOK` is inductive as it stands. `SetupNodes` shows that every leaf the setup registers is a `Node`. `LineCounter` shows that the counter each line of the accumulation loops fetches exists for `i < num_queues`.
- `DescTypeCorrect`: `Describe!Spec => []TypeOK`, for every `AdminqSize`, `MaxRingSize` and set of descriptors whose options are `DevOpt` records (part of `DescribeAssumption`, which TLC evaluates on every Describe run). `TypeOK` is not inductive: `Finish` copies the MTU out of the remembered jumbo option. The proof therefore uses `DescInv`, which adds that the remembered GQI and jumbo options are `Null` or an option with its offset.

**Only model-checked, not proved:**

- The liveness properties `ExecuteTerminates` and `OperationReturns`, and the fairness conjunct of `ImplementsChannel`. TLAPS does not handle liveness under fairness or ENABLED.
- The wrap cases. `ReportedErrorGenuine` is proved for every instance. `LoopResultHolds` and the channel refinement are proved only under `NoWrap`. Without it they are false, and the violation runs `adminq_wrap` and `lifecycle_wrap` show this (findings 1 and 7).
- `AccumBetweenSnapshots`. It is a sum over an unbounded number of rings and needs induction over the summed set, which the installed provers cannot instantiate.
- The Describe properties. Its reference uses a recursive function over the option list. What that computes for every input needs induction over data, which the installed provers cannot instantiate.

## Not modelled, and the plan

- **Describe on the admin queue.** Describe's command is one step. Composing it with AdminQ would show the descriptor buffer freed under a late completion, as `lifecycle_staging` shows for the page list.
- **The window inside issue_cmd.** Between `prod_cnt++` (part_001:764) and the opcode counter increment (775), an unlocked sysctl reader sees counters that do not add up. `Issue` is one step.
- **Concurrent callers of execute_cmd.** The code requires the caller to hold the driver lock. The model has one caller thread.
- **Wire format.** Byte order and payload encoding are not modelled, because no property depends on them.
- **The datapath.** gve_rx.c and gve_tx.c are not in the repository. They appear only as the environment that increments counters.
- **`gve_reset_adminq`.** It is declared in part_000 but not defined in the repository.
