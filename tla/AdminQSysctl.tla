---------------------------- MODULE AdminQSysctl ----------------------------
(***************************************************************************)
(* The adminq_stats sysctl node composed with the admin queue.             *)
(* gve_setup_adminq_stat_sysctl binds each leaf to a counter of the softc  *)
(* that gve_adminq_alloc resets and gve_adminq_issue_cmd, ..._parse_err    *)
(* and ..._kick_and_wait increment; a reader of the node sees, at any      *)
(* instant, the value of those counters.  The leaves are read without the  *)
(* driver lock (CTLFLAG_MPSAFE); every leaf is an aligned 32-bit word, so  *)
(* a read returns the word before or after a concurrent increment.         *)
(***************************************************************************)
EXTENDS AdminQ

(* The per-opcode leaf of each opcode that has one.  REPORT_STATS,         *)
(* REPORT_LINK_SPEED and GET_PTYPE_MAP have counters in the softc but no   *)
(* leaf; the driver in this repository never issues them.                  *)
OpcodeStatNode ==
  [DESCRIBE_DEVICE |-> "adminq_describe_device_cnt",
   CONFIGURE_DEVICE_RESOURCES |-> "adminq_cfg_device_resources_cnt",
   REGISTER_PAGE_LIST |-> "adminq_register_page_list_cnt",
   UNREGISTER_PAGE_LIST |-> "adminq_unregister_page_list_cnt",
   CREATE_TX_QUEUE |-> "adminq_create_tx_queue_cnt",
   CREATE_RX_QUEUE |-> "adminq_create_rx_queue_cnt",
   DESTROY_TX_QUEUE |-> "adminq_destroy_tx_queue_cnt",
   DESTROY_RX_QUEUE |-> "adminq_destroy_rx_queue_cnt",
   DECONFIGURE_DEVICE_RESOURCES |-> "adminq_dcfg_device_resources_cnt",
   SET_DRIVER_PARAMETER |-> "adminq_set_driver_parameter_cnt",
   VERIFY_DRIVER_COMPATIBILITY |-> "adminq_verify_driver_compatibility_cnt"]

(* The value a reader of a per-opcode leaf sees: the opcode's counter.    *)
(* A counter of an opcode the callers never issue stays at the zero the    *)
(* softc is allocated with.                                                *)
OpcodeLeaf(o) == IF o \in Opcodes THEN issueCnt[o] ELSE 0

(* What a reader of adminq_stats sees: the three aggregate leaves and the  *)
(* per-opcode leaves, by opcode.                                           *)
AdminqStatView ==
  [prod_cnt |-> prodCnt, cmd_fail |-> cmdFail, timeouts |-> timeouts,
   per_opcode |-> [o \in DOMAIN OpcodeStatNode |-> OpcodeLeaf(o)]]

(* The sum of the eleven per-opcode leaves v of a view, in the order      *)
(* gve_setup_adminq_stat_sysctl registers them.                           *)
LeafTotal(v) ==
  v["DESCRIBE_DEVICE"] + v["CONFIGURE_DEVICE_RESOURCES"]
  + v["REGISTER_PAGE_LIST"] + v["UNREGISTER_PAGE_LIST"]
  + v["CREATE_TX_QUEUE"] + v["CREATE_RX_QUEUE"]
  + v["DESTROY_TX_QUEUE"] + v["DESTROY_RX_QUEUE"]
  + v["DECONFIGURE_DEVICE_RESOURCES"] + v["SET_DRIVER_PARAMETER"]
  + v["VERIFY_DRIVER_COMPATIBILITY"]

PerOpcodeSum == LeafTotal(AdminqStatView.per_opcode)

(* The exported statistics add up: the per-opcode leaves of adminq_stats   *)
(* sum to adminq_prod_cnt (modulo 2^32, the width of every leaf), since    *)
(* gve_adminq_issue_cmd increments both for each command and               *)
(* gve_adminq_alloc zeroes them together.                                  *)
ExportedCountsAddUp ==
  aqOk => PerOpcodeSum % Modulus = AdminqStatView.prod_cnt
=============================================================================
