--------------------------- MODULE Describe_proofs ---------------------------
(***************************************************************************)
(* Type correctness of gve_adminq_describe_device and the option walk of    *)
(* gve_process_device_options, for every buffer size, ring-size bound and   *)
(* set of descriptors the device may write.                                 *)
(***************************************************************************)
EXTENDS Describe, TLAPS

(* TypeOK is not inductive: the MTU that Finish copies out of the jumbo     *)
(* option is typed only if the options the walk remembers are options.      *)
DescInv ==
  /\ TypeOK
  /\ gqi \in {Null} \cup [opt : DevOpt, off : Nat]
  /\ jumbo \in {Null} \cup [opt : DevOpt, off : Nat]

(* The smaller and larger of two numbers, and the larger of one, are       *)
(* numbers.                                                                 *)
LEMMA MinMaxNat ==
  ASSUME NEW a \in Nat, NEW b \in Nat
  PROVE  /\ Min({a, b}) \in Nat /\ Max({a, b}) \in Nat /\ Max({a}) \in Nat
  BY DEF Min, Max

(* The largest of three numbers is a number.                              *)
LEMMA MaxTripleNat ==
  ASSUME NEW a \in Nat, NEW b \in Nat, NEW c \in Nat
  PROVE  Max({a, b, c}) \in Nat
  BY DEF Max

(* The zeroed option, and every option of a descriptor, is an option.      *)
LEMMA OptType ==
  ASSUME NEW d \in Descriptors \cup {NoDesc}, NEW k \in Nat \ {0}
  PROVE  OptOf(d, k) \in DevOpt
  <1>1. d.opts \in Seq(DevOpt)
    <2>1. CASE d \in Descriptors
      BY <2>1, DescribeAssumption
    <2>2. CASE d = NoDesc
      <3>1. NoDesc.opts = << >>
        BY DEF NoDesc
      <3>2. QED
        BY <2>2, <3>1
    <2>3. QED
      BY <2>1, <2>2
  <1>2. ZeroOpt \in DevOpt
    BY DEF ZeroOpt, DevOpt
  <1>3. QED
    BY <1>1, <1>2 DEF OptOf

(* The initial state satisfies the strengthened type invariant.            *)
LEMMA DescInvInit == Init => DescInv
  <1> SUFFICES ASSUME Init PROVE DescInv
    OBVIOUS
  <1>1. Null \in [opt : DevOpt, off : Nat]
    BY DEF Null, ZeroOpt, DevOpt
  <1>2. NoDesc.num = 0
    BY DEF NoDesc
  <1>3. desc \in Descriptors \cup {NoDesc} /\ i \in 0 .. desc.num
    BY <1>2 DEF Init
  <1>4. gqi.off \in Nat /\ jumbo.off \in Nat
    BY DEF Init, Null
  <1>5. TypeOK
    BY <1>3, <1>4 DEF Init, TypeOK
  <1>6. QED
    BY <1>1, <1>5 DEF Init, DescInv

(* The fields every descriptor the walk can hold carries are numbers.      *)
LEMMA DescFields ==
  ASSUME NEW d \in Descriptors \cup {NoDesc}
  PROVE  /\ d.total \in Nat /\ d.num \in Nat
         /\ d.mtu \in Nat /\ d.rx \in Nat /\ d.tx \in Nat
  BY DescribeAssumption DEF NoDesc

(* Every step of describe_device keeps the strengthened type invariant.    *)
LEMMA DescInvStep == DescInv /\ [Next]_vars => DescInv'
  <1> SUFFICES ASSUME DescInv, [Next]_vars PROVE DescInv'
    OBVIOUS
  <1>0. /\ desc \in Descriptors \cup {NoDesc}
        /\ desc.total \in Nat /\ desc.num \in Nat /\ desc.mtu \in Nat
        /\ desc.rx \in Nat /\ desc.tx \in Nat
        /\ i \in 0 .. desc.num /\ off \in Nat /\ readEnd \in Nat
        /\ maxRxDescCnt \in Nat /\ maxTxDescCnt \in Nat
    BY DescFields DEF DescInv, TypeOK
  <1>1. CASE DescAlloc \/ DescAllocFail \/ NoQueueFormat
    BY <1>1 DEF DescAlloc, DescAllocFail, NoQueueFormat, DescInv, TypeOK,
                walkVars, privVars
  <1>2. CASE \E e \in ExecErrors : ExecFail(e)
    BY <1>2 DEF ExecFail, DescInv, TypeOK, walkVars, privVars
  <1>3. CASE \E d \in Descriptors : ExecOk(d)
    <2>1. PICK d \in Descriptors : ExecOk(d)
      BY <1>3
    <2>2. d.num \in Nat /\ MaxRingSize \in Nat
      BY DescFields, DescribeAssumption
    <2>3. QED
      BY <2>1, <2>2 DEF ExecOk, DescInv, TypeOK, DescSize
  <1>4. CASE WalkOption
    <2>1. i + 1 \in Nat \ {0} /\ i + 1 \in 0 .. desc.num
      BY <1>0, <1>4 DEF WalkOption
    <2>2. OptOf(desc, i + 1) \in DevOpt
      BY <1>0, <2>1, OptType
    <2>3. OptOf(desc, i + 1).len \in Nat
      BY <2>2 DEF DevOpt
    <2>4. OptEnd \in Nat /\ off + OptHdrSize \in Nat
      BY <1>0, <2>3 DEF OptEnd, OptHdrSize
    <2>5. Max({readEnd, off + OptHdrSize}) \in Nat
      BY <1>0, <2>4, MinMaxNat
    <2>6. [opt |-> OptOf(desc, i + 1), off |-> off] \in [opt : DevOpt, off : Nat]
      BY <1>0, <2>2
    <2>7. QED
      BY <1>4, <2>1, <2>4, <2>5, <2>6 DEF WalkOption, DescInv, TypeOK, privVars
  <1>5. CASE WalkOverrun
    <2>1. off + 4 \in Nat
      BY <1>0
    <2>2. Max({readEnd, off + 4}) \in Nat
      BY <1>0, <2>1, MinMaxNat
    <2>3. QED
      BY <1>5, <2>2 DEF WalkOverrun, DescInv, TypeOK, privVars
  <1>6. CASE Finish
    <2>1. gqi # Null /\ gqi \in [opt : DevOpt, off : Nat]
      BY <1>6 DEF Finish, DescInv
    <2>2. maxMtu' \in Nat
      <3>1. CASE JumboApplies
        <4>1. jumbo \in [opt : DevOpt, off : Nat]
          BY <3>1 DEF JumboApplies, DescInv
        <4>2. QED
          BY <1>6, <3>1, <4>1 DEF Finish, DevOpt
      <3>2. CASE ~JumboApplies
        BY <1>0, <1>6, <3>2 DEF Finish
      <3>3. QED
        BY <3>1, <3>2
    <2>3. readEnd' \in Nat
      <3>1. gqi.off + OptHdrSize + GqiQplSize \in Nat
        BY <2>1 DEF OptHdrSize, GqiQplSize
      <3>2. CASE JumboApplies
        <4>1. jumbo.off + OptHdrSize + 6 \in Nat
          BY <3>2 DEF JumboApplies, DescInv, OptHdrSize
        <4>2. Max({readEnd, gqi.off + OptHdrSize + GqiQplSize}
                  \cup {jumbo.off + OptHdrSize + 6}) \in Nat
          <5>1. Max({readEnd, gqi.off + OptHdrSize + GqiQplSize}
                  \cup {jumbo.off + OptHdrSize + 6})
                = Max({readEnd, gqi.off + OptHdrSize + GqiQplSize,
                       jumbo.off + OptHdrSize + 6})
            OBVIOUS
          <5>2. QED
            BY <1>0, <3>1, <4>1, <5>1, MaxTripleNat
        <4>3. QED
          BY <1>6, <3>2, <4>2 DEF Finish
      <3>3. CASE ~JumboApplies
        <4>1. {readEnd, gqi.off + OptHdrSize + GqiQplSize} \cup {}
                = {readEnd, gqi.off + OptHdrSize + GqiQplSize}
          OBVIOUS
        <4>2. QED
          BY <1>0, <1>6, <3>1, <3>3, <4>1, MinMaxNat DEF Finish
      <3>4. QED
        BY <3>2, <3>3
    <2>4. rxDescCnt' \in Nat /\ txDescCnt' \in Nat
      BY <1>0, <1>6, MinMaxNat DEF Finish
    <2>5. QED
      BY <1>6, <2>2, <2>3, <2>4 DEF Finish, DescInv, TypeOK
  <1>7. CASE UNCHANGED vars
    BY <1>7 DEF vars, walkVars, privVars, DescInv, TypeOK
  <1>8. QED
    BY <1>1, <1>2, <1>3, <1>4, <1>5, <1>6, <1>7 DEF Next

(* gve_adminq_describe_device keeps every variable in its type for every    *)
(* buffer size and every set of descriptors: the option walk's index stays  *)
(* within num_device_options, offsets and the read extent are numbers, and  *)
(* the negotiated MTU and ring sizes are numbers.                          *)
THEOREM DescTypeCorrect == Spec => []TypeOK
  <1>1. DescInv => TypeOK
    BY DEF DescInv
  <1>2. QED
    BY <1>1, DescInvInit, DescInvStep, PTL DEF Spec
=============================================================================
