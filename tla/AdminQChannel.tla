---------------------------- MODULE AdminQChannel ----------------------------
(***************************************************************************)
(* The admin queue seen as the channel of Channel.  The pending command is *)
(* the one in the slot at the event counter while the counter lags         *)
(* prod_cnt and the device holds the ring; the last status is the one in   *)
(* the slot before the event counter; a thread between ExecBegin and Issue *)
(* has not handed anything over yet, so it is still idle.                  *)
(***************************************************************************)
EXTENDS AdminQ

PendingMap ==
  IF addrReg = "none" \/ eventCounter = prodCnt THEN <<>>
  ELSE <<ring[SlotOf(eventCounter)].opcode>>

CallerMap ==
  CASE pc \in {"idle", "issue"} -> "idle"
    [] pc \in {"kick", "wait", "scan"} -> "busy"
    [] pc = "release_wait" -> "release"

Chan == INSTANCE Channel
          WITH Commands <- Opcodes, Statuses <- AllStatuses, Verdict <- ParseErr,
               up <- aqOk, held <- addrReg # "none", pending <- PendingMap,
               last <- ring[SlotOf(Dec(eventCounter))].status,
               caller <- CallerMap, res <- ret

(* gve_adminq_execute_cmd, gve_adminq_alloc and gve_release_adminq behave  *)
(* as the one-command channel: never a second command handed over while   *)
(* one is pending, a return value that is the translation of the status   *)
(* the device wrote for the command (or ENOTRECOVERABLE if it gave up),    *)
(* and every execute returns.                                              *)
ImplementsChannel == Chan!Spec
=============================================================================
