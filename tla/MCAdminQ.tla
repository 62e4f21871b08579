------------------------------ MODULE MCAdminQ ------------------------------
(***************************************************************************)
(* AdminQ on a small instance: a ring of two slots and two-bit counters,   *)
(* so that slot reuse and the wrap of prod_cnt and of the event counter    *)
(* happen within a few commands.                                           *)
(***************************************************************************)
EXTENDS AdminQSysctl

MCOpcodes == {"CREATE_RX_QUEUE", "VERIFY_DRIVER_COMPATIBILITY"}
MCOneOpcode == {"CREATE_RX_QUEUE"}
MCStatuses == {"PASSED", "ABORTED", "UNSET"}

=============================================================================
