-------------------------------- MODULE Stats --------------------------------
(***************************************************************************)
(* The statistics surface of gve_sysctl.c.                                 *)
(*                                                                         *)
(* gve_setup_sysctl registers, once, a sysctl node per receive and per     *)
(* transmit ring holding a leaf per ring counter, and an adminq_stats node *)
(* holding a leaf per admin-queue counter.  Each leaf is bound to the      *)
(* address of the counter it shows; a reader of the leaf reads that        *)
(* counter.                                                                *)
(*                                                                         *)
(* gve_accum_stats adds the packet, byte and drop counters of every ring   *)
(* into six totals the caller passes by pointer.  It takes no lock: the    *)
(* datapath keeps incrementing the per-ring counters while the loop        *)
(* fetches them, one counter_u64_fetch per line.  Each fetch is one step   *)
(* here, so the datapath can run between any two of them.                  *)
(*                                                                         *)
(* The datapath (gve_rx.c, gve_tx.c) is not part of the repository; it is  *)
(* the environment, which increments the counters gve_accum_stats reads.   *)
(* A counter(9) fetch sums per-CPU slots that only grow, so it returns a   *)
(* value between the counter's values at its start and at its end; the     *)
(* model reads it atomically, which is one of those values.                *)
(***************************************************************************)
EXTENDS Naturals, FiniteSetsExt, Functions

CONSTANTS
  NumRxQueues,   \* priv->rx_cfg.num_queues
  NumTxQueues,   \* priv->tx_cfg.num_queues
  MaxBumps,      \* bound on the datapath increments of one behaviour
  CallerTotals   \* the six totals the caller may pass in on entry

ASSUME StatsAssumption ==
  /\ NumRxQueues \in Nat /\ NumTxQueues \in Nat
  /\ MaxBumps \in Nat

RxRings == 0 .. NumRxQueues - 1
TxRings == 0 .. NumTxQueues - 1

\* The address of counter c of ring q in direction dir ("rx" or "tx").
Counter(dir, q, c) == [dir |-> dir, q |-> q, ctr |-> c]

\* The leaves gve_setup_rxq_sysctl hangs under "rxq<id>": leaf name |-> the
\* field of struct gve_rx_ring / gve_rxq_stats it is bound to.
RxqLeaves ==
  [rx_bytes |-> "rbytes", rx_packets |-> "rpackets",
   rx_copybreak_cnt |-> "rx_copybreak_cnt",
   rx_frag_flip_cnt |-> "rx_frag_flip_cnt",
   rx_frag_copy_cnt |-> "rx_frag_copy_cnt",
   rx_dropped_pkt |-> "rx_dropped_pkt",
   rx_dropped_pkt_desc_err |-> "rx_dropped_pkt_desc_err",
   rx_dropped_pkt_mbuf_alloc_fail |-> "rx_dropped_pkt_mbuf_alloc_fail",
   num_desc_posted |-> "fill_cnt"]

\* The leaves gve_setup_txq_sysctl hangs under "txq<id>".
TxqLeaves ==
  [tx_posted_desc |-> "req", tx_completed_desc |-> "done",
   tx_packets |-> "tpackets", tx_tso_packets |-> "tso_packet_cnt",
   tx_bytes |-> "tbytes",
   tx_dropped_pkt_nospace_device |-> "tx_dropped_pkt_nospace_device",
   tx_dropped_pkt_nospace_bufring |-> "tx_dropped_pkt_nospace_bufring"]

\* The nodes registered for one ring.  The node is named after the ring's
\* com.id, which the ring allocation sets to its index in priv->rx/tx.
gve_setup_rxq_sysctl(q) ==
  {[parent |-> <<"rxq", q>>, name |-> n, loc |-> Counter("rx", q, RxqLeaves[n])]
     : n \in DOMAIN RxqLeaves}

gve_setup_txq_sysctl(q) ==
  {[parent |-> <<"txq", q>>, name |-> n, loc |-> Counter("tx", q, TxqLeaves[n])]
     : n \in DOMAIN TxqLeaves}

\* Mutant: the loops run to i <= num_queues.
SetupQueuesInclusive ==
  (UNION {gve_setup_rxq_sysctl(q) : q \in 0 .. NumRxQueues})
    \cup (UNION {gve_setup_txq_sysctl(q) : q \in 0 .. NumTxQueues})

gve_setup_queue_stat_sysctl ==
  (UNION {gve_setup_rxq_sysctl(q) : q \in RxRings})
    \cup (UNION {gve_setup_txq_sysctl(q) : q \in TxRings})

\* The leaves of adminq_stats, each bound to the softc field of its name.
\* Their values are given by AdminQSysctl, which composes them with the
\* admin queue.
AdminqStatNames ==
  {"adminq_prod_cnt", "adminq_cmd_fail", "adminq_timeouts",
   "adminq_describe_device_cnt", "adminq_cfg_device_resources_cnt",
   "adminq_register_page_list_cnt", "adminq_unregister_page_list_cnt",
   "adminq_create_tx_queue_cnt", "adminq_create_rx_queue_cnt",
   "adminq_destroy_tx_queue_cnt", "adminq_destroy_rx_queue_cnt",
   "adminq_dcfg_device_resources_cnt", "adminq_set_driver_parameter_cnt",
   "adminq_verify_driver_compatibility_cnt"}

gve_setup_adminq_stat_sysctl ==
  {[parent |-> <<"adminq_stats">>, name |-> n, loc |-> Counter("priv", 0, n)]
     : n \in AdminqStatNames}

\* The three lines of each loop of gve_accum_stats: the total updated by
\* the line, which is also the name of the per-ring counter it fetches.
RxLine == <<"rpackets", "rbytes", "rx_dropped_pkt">>
TxLine == <<"tpackets", "tbytes", "tx_dropped_pkt">>
Totals == {RxLine[k] : k \in 1..3} \cup {TxLine[k] : k \in 1..3}

\* The direction whose rings a total sums.
DirOf(t) == IF t \in {RxLine[k] : k \in 1..3} THEN "rx" ELSE "tx"
RingsOf(t) == IF DirOf(t) = "rx" THEN RxRings ELSE TxRings

\* The counters the datapath increments and gve_accum_stats reads.
AccumCounters ==
  {Counter("rx", q, RxLine[n]) : q \in RxRings, n \in 1..3}
    \cup {Counter("tx", q, TxLine[n]) : q \in TxRings, n \in 1..3}

VARIABLES
  tree,      \* the sysctl leaves registered so far
  stats,     \* the per-ring counters: address |-> value
  bumps,     \* datapath increments so far (bounded by MaxBumps)
  apc,       \* where gve_accum_stats is: "idle", "rx", "tx" or "ret"
  i, k,      \* its loop index, and the line of the loop body it is at
  acc,       \* the six totals behind the caller's pointers
  entry,     \* history: the totals on entry to the call
  start      \* history: the counters when the call began

vars == <<tree, stats, bumps, apc, i, k, acc, entry, start>>

Node == [parent : {<<"rxq", q>> : q \in RxRings} \cup {<<"txq", q>> : q \in TxRings}
                    \cup {<<"adminq_stats">>},
         name : DOMAIN RxqLeaves \cup DOMAIN TxqLeaves \cup AdminqStatNames,
         loc : [dir : {"rx", "tx", "priv"}, q : Nat,
                ctr : Range(RxqLeaves) \cup Range(TxqLeaves) \cup AdminqStatNames]]

TypeOK ==
  /\ tree \subseteq Node
  /\ stats \in [AccumCounters -> Nat]
  /\ bumps \in 0 .. MaxBumps
  /\ apc \in {"idle", "rx", "tx", "ret"}
  /\ i \in Nat /\ k \in 0 .. 2
  /\ acc \in [Totals -> Nat] /\ entry \in [Totals -> Nat]
  /\ start \in [AccumCounters -> Nat]

ASSUME CallerAssumption == CallerTotals \subseteq [Totals -> Nat] /\ CallerTotals # {}

Init ==
  /\ tree = {}
  /\ stats = [c \in AccumCounters |-> 0]
  /\ bumps = 0
  /\ apc = "idle"
  /\ i = 0 /\ k = 0
  /\ acc = [t \in Totals |-> 0] /\ entry = acc
  /\ start = stats

(***************************************************************************)
(* gve_setup_sysctl: called once when the device attaches.                 *)
(***************************************************************************)
gve_setup_sysctl ==
  /\ tree = {}
  /\ tree' = gve_setup_queue_stat_sysctl \cup gve_setup_adminq_stat_sysctl
  /\ UNCHANGED <<stats, bumps, apc, i, k, acc, entry, start>>

\* The datapath counts a packet, its bytes or a drop on a ring.
DatapathBump(c) ==
  /\ bumps < MaxBumps
  /\ stats' = [stats EXCEPT ![c] = @ + 1]
  /\ bumps' = bumps + 1
  /\ UNCHANGED <<tree, apc, i, k, acc, entry, start>>

(***************************************************************************)
(* gve_accum_stats, one counter_u64_fetch per step.                        *)
(***************************************************************************)
AccumBegin(totals) ==
  /\ apc \in {"idle", "ret"}
  /\ apc' = "rx" /\ i' = 0 /\ k' = 0
  /\ acc' = totals /\ entry' = totals
  /\ start' = stats
  /\ UNCHANGED <<tree, stats, bumps>>

\* Mutant: the line assigns the fetched value instead of adding it.
AccumLineOverwrite(line, dir) ==
  /\ acc' = [acc EXCEPT ![line[k + 1]] = stats[Counter(dir, i, line[k + 1])]]
  /\ k' = (k + 1) % 3
  /\ i' = IF k = 2 THEN i + 1 ELSE i

\* One line "*total += counter_u64_fetch(stats->total)" of ring i.
AccumLine(line, dir) ==
  /\ acc' = [acc EXCEPT ![line[k + 1]] = @ + stats[Counter(dir, i, line[k + 1])]]
  /\ k' = (k + 1) % 3
  /\ i' = IF k = 2 THEN i + 1 ELSE i

AccumRx ==
  /\ apc = "rx" /\ i < NumRxQueues
  /\ AccumLine(RxLine, "rx")
  /\ UNCHANGED <<tree, stats, bumps, apc, entry, start>>

AccumRxDone ==
  /\ apc = "rx" /\ i >= NumRxQueues
  /\ apc' = "tx" /\ i' = 0
  /\ UNCHANGED <<tree, stats, bumps, k, acc, entry, start>>

AccumTx ==
  /\ apc = "tx" /\ i < NumTxQueues
  /\ AccumLine(TxLine, "tx")
  /\ UNCHANGED <<tree, stats, bumps, apc, entry, start>>

AccumTxDone ==
  /\ apc = "tx" /\ i >= NumTxQueues
  /\ apc' = "ret" /\ i' = 0
  /\ UNCHANGED <<tree, stats, bumps, k, acc, entry, start>>

Next ==
  \/ gve_setup_sysctl
  \/ \E c \in AccumCounters : DatapathBump(c)
  \/ \E t \in CallerTotals : AccumBegin(t)
  \/ AccumRx \/ AccumRxDone \/ AccumTx \/ AccumTxDone

Spec == Init /\ [][Next]_vars

-----------------------------------------------------------------------------
\* The sum, over the rings a total covers, of the counter it reads in s.
RingSum(s, t) == MapThenSumSet(LAMBDA q : s[Counter(DirOf(t), q, t)], RingsOf(t))

(***************************************************************************)
(* When gve_accum_stats returns, what it added to each total lies between  *)
(* the sum of that counter over the rings when the call began and the sum  *)
(* now: every ring is fetched exactly once, with no lock against the       *)
(* datapath, and a fetch can neither lose counts that were there at the    *)
(* start nor see counts that do not exist yet.                             *)
(***************************************************************************)
AccumBetweenSnapshots ==
  apc = "ret" =>
    \A t \in Totals :
      RingSum(start, t) <= acc[t] - entry[t] /\ acc[t] - entry[t] <= RingSum(stats, t)
=============================================================================
