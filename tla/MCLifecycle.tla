----------------------------- MODULE MCLifecycle -----------------------------
(***************************************************************************)
(* Lifecycle on a ring of two slots with three-bit counters: at most       *)
(* MaxOps * NumQueues commands are issued per allocation of the queue, so  *)
(* prod_cnt does not wrap here (the wrap is the subject of adminq_wrap).   *)
(***************************************************************************)
EXTENDS Lifecycle, AdminQChannel

MCLifeOpcodes == {"CREATE_RX_QUEUE", "DESTROY_RX_QUEUE", "REGISTER_PAGE_LIST",
                  "CONFIGURE_DEVICE_RESOURCES"}
MCLoopOps == {"create_rx", "destroy_rx"}
MCSingleOps == {"CONFIGURE_DEVICE_RESOURCES"}
MCLifeStatuses == {"PASSED", "ABORTED"}
=============================================================================
