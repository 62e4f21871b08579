------------------------------ MODULE Describe ------------------------------
(***************************************************************************)
(* Device descriptor negotiation: gve_adminq_describe_device and the       *)
(* option walk of gve_process_device_options, gve_get_next_option and      *)
(* gve_parse_device_option (src/unnamed/part_001), on the layout of         *)
(* src/unnamed/part_000.                                                   *)
(*                                                                         *)
(* The describe-device command itself runs on the admin queue (module      *)
(* AdminQ); here it is one step that either fails with an errno or leaves  *)
(* in the DMA buffer a descriptor the device chose.  Byte offsets are      *)
(* counted from the start of the descriptor, which is the start of the     *)
(* ADMINQ_SIZE buffer.  Memory the device did not write is zero            *)
(* (BUS_DMA_ZERO).                                                         *)
(***************************************************************************)
EXTENDS Naturals, Sequences, FiniteSetsExt

CONSTANTS
  AdminqSize,    \* ADMINQ_SIZE: the descriptor buffer's size (gve.h)
  MaxRingSize,   \* GVE_MAX_RING_SIZE (gve.h)
  Descriptors,   \* the descriptors the device may write
  ExecErrors     \* the errnos gve_adminq_execute_cmd may return

(* sizeof the structures of gve_adminq.h.                                  *)
DescSize == 40        \* struct gve_device_descriptor
OptHdrSize == 8       \* struct gve_device_option
GqiQplSize == 4       \* struct gve_device_option_gqi_qpl
JumboSize == 8        \* struct gve_device_option_jumbo_frames

(* GVE_DEV_OPT_REQ_FEAT_MASK_GQI_QPL and _JUMBO_FRAMES are both 0.         *)
ReqFeatMask == [id \in {"GQI_QPL", "JUMBO_FRAMES"} |-> 0]

(* A device option: its id, option_length, required_features_mask, and    *)
(* the payload fields the driver reads (supported_features_mask as the set *)
(* of GVE_SUP_* bits it has; max_mtu of a jumbo-frames option).  Zeroed    *)
(* memory reads as option id 0, which no case of the switch matches.       *)
ZeroOpt == [id |-> "OTHER", len |-> 0, mask |-> 0, sup |-> {}, maxMtu |-> 0]

(* The options a device can write: the ids the switch of                  *)
(* gve_process_device_options tells apart, uint16 lengths and masks, the   *)
(* GVE_SUP_* bits of gve_sup_feature_mask, a max_mtu.                      *)
DevOpt == [id : {"GQI_QPL", "JUMBO_FRAMES", "OTHER"}, len : Nat, mask : Nat,
           sup : SUBSET {"MODIFY_RING", "JUMBO_FRAMES"}, maxMtu : Nat]

(* The option the walk finds at position k (1-based) of descriptor d.     *)
OptOf(d, k) == IF k <= Len(d.opts) THEN d.opts[k] ELSE ZeroOpt

ASSUME DescribeAssumption ==
  /\ AdminqSize \in Nat /\ MaxRingSize \in Nat
  /\ \A d \in Descriptors :
       /\ d.total \in Nat /\ d.num \in Nat
       /\ d.mtu \in Nat /\ d.rx \in Nat /\ d.tx \in Nat
       /\ d.opts \in Seq(DevOpt)
  /\ "OK" \notin ExecErrors

NoDesc == [total |-> 0, num |-> 0, mtu |-> 0, rx |-> 0, tx |-> 0,
           opts |-> <<>>]
Null == [opt |-> ZeroOpt, off |-> 0]

VARIABLES
  \* the call of gve_adminq_describe_device
  pc,            \* "start", "exec", "walk", "done"
  rc,            \* its return value
  desc,          \* the descriptor in desc_mem
  i,             \* loop index of gve_process_device_options
  off,           \* offset of dev_opt
  gqi,           \* dev_op_gqi_qpl: Null or the option and its offset
  jumbo,         \* dev_op_jumbo_frames
  readEnd,       \* one past the highest byte of desc_mem read so far
  \* struct gve_priv
  queueFormat, supportedFeatures, maxMtu,
  rxDescCnt, txDescCnt, maxRxDescCnt, maxTxDescCnt,
  fromDesc       \* the plain copies (counters, queues, pages, mac) done

walkVars == <<i, off, gqi, jumbo, readEnd>>
privVars == <<queueFormat, supportedFeatures, maxMtu, rxDescCnt, txDescCnt,
              maxRxDescCnt, maxTxDescCnt, fromDesc>>
vars == <<pc, rc, desc, walkVars, privVars>>

TypeOK ==
  /\ pc \in {"start", "exec", "walk", "done"}
  /\ rc \in {"OK", "ENOMEM", "EINVAL"} \cup ExecErrors
  /\ desc \in Descriptors \cup {NoDesc}
  /\ i \in 0 .. desc.num /\ off \in Nat /\ readEnd \in Nat
  /\ gqi.off \in Nat /\ jumbo.off \in Nat
  /\ queueFormat \in {"NONE", "GQI_QPL"}
  /\ maxMtu \in Nat /\ rxDescCnt \in Nat /\ txDescCnt \in Nat
  /\ maxRxDescCnt \in Nat /\ maxTxDescCnt \in Nat
  /\ fromDesc \in BOOLEAN

(* The softc is zeroed at attach, when describe_device is called.          *)
Init ==
  /\ pc = "start" /\ rc = "OK" /\ desc = NoDesc
  /\ i = 0 /\ off = 0 /\ gqi = Null /\ jumbo = Null /\ readEnd = 0
  /\ queueFormat = "NONE" /\ supportedFeatures = {} /\ maxMtu = 0
  /\ rxDescCnt = 0 /\ txDescCnt = 0 /\ maxRxDescCnt = 0 /\ maxTxDescCnt = 0
  /\ fromDesc = FALSE
-----------------------------------------------------------------------------
(* gve_dma_alloc_coherent of the descriptor buffer.                        *)
DescAlloc ==
  /\ pc = "start"
  /\ pc' = "exec"
  /\ UNCHANGED <<rc, desc, walkVars, privVars>>

DescAllocFail ==
  /\ pc = "start"
  /\ rc' = "ENOMEM"
  /\ pc' = "done"
  /\ UNCHANGED <<desc, walkVars, privVars>>

(* The describe-device command fails: free the buffer and return rc.       *)
ExecFail(e) ==
  /\ pc = "exec"
  /\ rc' = e
  /\ pc' = "done"
  /\ UNCHANGED <<desc, walkVars, privVars>>

(* It succeeds with descriptor d in the buffer: set the ring-size maxima,  *)
(* read num_device_options, start the walk right after the descriptor.     *)
ExecOk(d) ==
  /\ pc = "exec"
  /\ desc' = d
  /\ maxRxDescCnt' = MaxRingSize
  /\ maxTxDescCnt' = MaxRingSize
  /\ i' = 0
  /\ off' = DescSize
  /\ readEnd' = DescSize
  /\ pc' = "walk"
  /\ UNCHANGED <<rc, gqi, jumbo, queueFormat, supportedFeatures, maxMtu,
                 rxDescCnt, txDescCnt, fromDesc>>

(* Mutant: the option's end computed without its header.                  *)
OptEndNoHeader == off + OptOf(desc, i + 1).len

(* gve_get_next_option: where the option at off ends.                      *)
OptEnd == off + OptHdrSize + OptOf(desc, i + 1).len

(* gve_parse_device_option: an option of the right id whose length is at  *)
(* least its structure's size and whose mask matches is taken.             *)
Accepted(o, id, size) == o.id = id /\ o.len >= size /\ o.mask = ReqFeatMask[id]

(* Mutant: the loop without its bound i < num_options.                    *)
WalkOptionUnbounded ==
  LET o == OptOf(desc, i + 1) IN
  /\ pc = "walk"
  /\ OptEnd <= desc.total
  /\ gqi' = IF Accepted(o, "GQI_QPL", GqiQplSize)
              THEN [opt |-> o, off |-> off] ELSE gqi
  /\ jumbo' = IF Accepted(o, "JUMBO_FRAMES", JumboSize)
                THEN [opt |-> o, off |-> off] ELSE jumbo
  /\ readEnd' = Max({readEnd, off + OptHdrSize})
  /\ off' = OptEnd
  /\ i' = i + 1
  /\ UNCHANGED <<pc, rc, desc, privVars>>

(* One iteration of the loop: the option fits in total_length; parse it    *)
(* and move to the next one.                                               *)
WalkOption ==
  LET o == OptOf(desc, i + 1) IN
  /\ pc = "walk"
  /\ i < desc.num
  /\ OptEnd <= desc.total
  /\ gqi' = IF Accepted(o, "GQI_QPL", GqiQplSize)
              THEN [opt |-> o, off |-> off] ELSE gqi
  /\ jumbo' = IF Accepted(o, "JUMBO_FRAMES", JumboSize)
                THEN [opt |-> o, off |-> off] ELSE jumbo
  /\ readEnd' = Max({readEnd, off + OptHdrSize})
  /\ off' = OptEnd
  /\ i' = i + 1
  /\ UNCHANGED <<pc, rc, desc, privVars>>

(* The option runs past total_length: EINVAL.  Only option_length (bytes  *)
(* 2 and 3 of its header) was read.                                        *)
WalkOverrun ==
  /\ pc = "walk"
  /\ i < desc.num
  /\ OptEnd > desc.total
  /\ readEnd' = Max({readEnd, off + 4})
  /\ rc' = "EINVAL"
  /\ pc' = "done"
  /\ UNCHANGED <<desc, i, off, gqi, jumbo, privVars>>

(* All options walked and no GQI QPL option taken: EINVAL.                 *)
NoQueueFormat ==
  /\ pc = "walk"
  /\ i >= desc.num
  /\ gqi = Null
  /\ rc' = "EINVAL"
  /\ pc' = "done"
  /\ UNCHANGED <<desc, walkVars, privVars>>

(* gve_enable_supported_features: the jumbo option, if taken and the      *)
(* device supports jumbo frames, sets max_mtu from its payload.            *)
JumboApplies == jumbo # Null /\ "JUMBO_FRAMES" \in gqi.opt.sup

(* Select GQI QPL, copy the descriptor's fields, enable the supported     *)
(* features and clamp the ring sizes to their maxima.                      *)
Finish ==
  /\ pc = "walk"
  /\ i >= desc.num
  /\ gqi # Null
  /\ queueFormat' = "GQI_QPL"
  /\ supportedFeatures' = gqi.opt.sup
  /\ maxMtu' = IF JumboApplies THEN jumbo.opt.maxMtu ELSE desc.mtu
  /\ rxDescCnt' = Min({desc.rx, maxRxDescCnt})
  /\ txDescCnt' = Min({desc.tx, maxTxDescCnt})
  /\ fromDesc' = TRUE
  /\ readEnd' = Max({readEnd, gqi.off + OptHdrSize + GqiQplSize}
                    \cup IF JumboApplies
                           THEN {jumbo.off + OptHdrSize + 6} ELSE {})
  /\ rc' = "OK"
  /\ pc' = "done"
  /\ UNCHANGED <<desc, i, off, gqi, jumbo, maxRxDescCnt, maxTxDescCnt>>

Next ==
  \/ DescAlloc \/ DescAllocFail
  \/ \E e \in ExecErrors : ExecFail(e)
  \/ \E d \in Descriptors : ExecOk(d)
  \/ WalkOption \/ WalkOverrun \/ NoQueueFormat \/ Finish

Spec == Init /\ [][Next]_vars
-----------------------------------------------------------------------------
(* Reference: the negotiation spec 4.4 describes, stated on the whole      *)
(* descriptor rather than as a walk.  OptEnds(d)[k] is where the k-th      *)
(* option ends when options follow each other from the end of the header.  *)
OptEnds(d) ==
  LET e[k \in 0 .. d.num] ==
        IF k = 0 THEN DescSize ELSE e[k - 1] + OptHdrSize + OptOf(d, k).len
  IN  e

RefFits(d) == \A k \in 1 .. d.num : OptEnds(d)[k] <= d.total
RefTaken(d, id, size) == {k \in 1 .. d.num : Accepted(OptOf(d, k), id, size)}
RefGqi(d) == OptOf(d, Max(RefTaken(d, "GQI_QPL", GqiQplSize)))
RefAccepts(d) == RefFits(d) /\ RefTaken(d, "GQI_QPL", GqiQplSize) # {}
RefMtu(d) ==
  LET J == RefTaken(d, "JUMBO_FRAMES", JumboSize) IN
  IF J # {} /\ "JUMBO_FRAMES" \in RefGqi(d).sup
    THEN OptOf(d, Max(J)).maxMtu ELSE d.mtu

(* gve_adminq_describe_device returns 0 exactly for a descriptor whose     *)
(* options all lie within total_length and that offers a valid GQI QPL     *)
(* option; it then selects that format with the features, MTU and clamped  *)
(* ring sizes the last valid options give.  Any failure (allocation,       *)
(* command, overrun, no queue format) leaves the negotiated state of the   *)
(* softc as it was.                                                        *)
NegotiationMatchesReference ==
  pc = "done" =>
    IF rc = "OK"
      THEN /\ desc # NoDesc /\ RefAccepts(desc)
           /\ queueFormat = "GQI_QPL"
           /\ supportedFeatures = RefGqi(desc).sup
           /\ maxMtu = RefMtu(desc)
           /\ rxDescCnt = Min({desc.rx, MaxRingSize})
           /\ txDescCnt = Min({desc.tx, MaxRingSize})
           /\ fromDesc
      ELSE /\ desc # NoDesc => ~RefAccepts(desc)
           /\ queueFormat = "NONE" /\ supportedFeatures = {} /\ maxMtu = 0
           /\ rxDescCnt = 0 /\ txDescCnt = 0 /\ ~fromDesc

(* Spec 3: decoding never trusts a device length beyond the enclosing     *)
(* buffer: the option walk and the payload reads of                        *)
(* gve_adminq_describe_device stay within the ADMINQ_SIZE bytes of         *)
(* desc_mem.                                                               *)
ReadsWithinBuffer == readEnd <= AdminqSize

(* Spec 4.4: a supported jumbo-frames option raises the maximum MTU above  *)
(* the descriptor's base mtu (gve_enable_supported_features).              *)
JumboRaisesMtu ==
  pc = "done" /\ rc = "OK" /\ JumboApplies => maxMtu >= desc.mtu
=============================================================================
