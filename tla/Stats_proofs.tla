---------------------------- MODULE Stats_proofs ----------------------------
(***************************************************************************)
(* Type correctness of the sysctl statistics model: gve_setup_sysctl only  *)
(* registers well-formed leaves, and gve_accum_stats only reads counters    *)
(* that exist and only writes the six totals, for every number of rings.   *)
(***************************************************************************)
EXTENDS Stats, TLAPS

(* Every leaf gve_setup_sysctl registers is a node of the sysctl tree.     *)
LEMMA SetupNodes ==
  gve_setup_queue_stat_sysctl \cup gve_setup_adminq_stat_sysctl \subseteq Node
  <1>1. ASSUME NEW q \in RxRings PROVE gve_setup_rxq_sysctl(q) \subseteq Node
    BY StatsAssumption DEF gve_setup_rxq_sysctl, Node, Counter, Range, RxRings
  <1>2. ASSUME NEW q \in TxRings PROVE gve_setup_txq_sysctl(q) \subseteq Node
    BY StatsAssumption DEF gve_setup_txq_sysctl, Node, Counter, Range, TxRings
  <1>3. gve_setup_adminq_stat_sysctl \subseteq Node
    <2>1. SUFFICES ASSUME NEW n \in AdminqStatNames
                   PROVE  [parent |-> <<"adminq_stats">>, name |-> n,
                           loc |-> Counter("priv", 0, n)] \in Node
      BY DEF gve_setup_adminq_stat_sysctl
    <2>2. Counter("priv", 0, n) \in
            [dir : {"rx", "tx", "priv"}, q : Nat,
             ctr : Range(RxqLeaves) \cup Range(TxqLeaves) \cup AdminqStatNames]
      BY DEF Counter
    <2>3. QED
      BY <2>2 DEF Node
  <1>4. UNION {gve_setup_rxq_sysctl(q) : q \in RxRings} \subseteq Node
    BY <1>1, Zenon
  <1>5. UNION {gve_setup_txq_sysctl(q) : q \in TxRings} \subseteq Node
    BY <1>2, Zenon
  <1>6. QED
    BY <1>3, <1>4, <1>5, Zenon DEF gve_setup_queue_stat_sysctl

(* The counter a line of gve_accum_stats fetches for ring i exists.         *)
LEMMA LineCounter ==
  ASSUME NEW q \in Nat, NEW n \in 0 .. 2
  PROVE  /\ q < NumRxQueues => Counter("rx", q, RxLine[n + 1]) \in AccumCounters
         /\ q < NumTxQueues => Counter("tx", q, TxLine[n + 1]) \in AccumCounters
         /\ RxLine[n + 1] \in Totals /\ TxLine[n + 1] \in Totals
  BY StatsAssumption DEF AccumCounters, RxRings, TxRings, Totals

(* The initial state is well typed.                                        *)
LEMMA StatsTypeInit == Init => TypeOK
  <1> SUFFICES ASSUME Init PROVE TypeOK
    OBVIOUS
  <1>1. stats \in [AccumCounters -> Nat] /\ start \in [AccumCounters -> Nat]
    BY DEF Init
  <1>2. acc \in [Totals -> Nat] /\ entry \in [Totals -> Nat]
    BY DEF Init
  <1>3. tree \subseteq Node /\ bumps \in 0 .. MaxBumps
    BY StatsAssumption DEF Init
  <1>4. QED
    BY <1>1, <1>2, <1>3 DEF Init, TypeOK

(* Every step keeps the counters, the loop position and the totals typed.  *)
LEMMA StatsTypeStep == TypeOK /\ [Next]_vars => TypeOK'
  <1> SUFFICES ASSUME TypeOK, [Next]_vars PROVE TypeOK'
    OBVIOUS
  <1>1. CASE gve_setup_sysctl
    BY <1>1, SetupNodes DEF gve_setup_sysctl, TypeOK
  <1>2. CASE \E c \in AccumCounters : DatapathBump(c)
    BY <1>2, StatsAssumption DEF DatapathBump, TypeOK
  <1>3. CASE \E t \in CallerTotals : AccumBegin(t)
    BY <1>3, CallerAssumption DEF AccumBegin, TypeOK
  <1>4. CASE AccumRx
    <2>1. i \in Nat /\ k \in 0 .. 2 /\ i < NumRxQueues
      BY <1>4 DEF AccumRx, TypeOK
    <2>2. /\ Counter("rx", i, RxLine[k + 1]) \in AccumCounters
          /\ RxLine[k + 1] \in Totals
      BY <2>1, LineCounter
    <2>3. QED
      BY <1>4, <2>1, <2>2 DEF AccumRx, AccumLine, TypeOK
  <1>5. CASE AccumTx
    <2>1. i \in Nat /\ k \in 0 .. 2 /\ i < NumTxQueues
      BY <1>5 DEF AccumTx, TypeOK
    <2>2. /\ Counter("tx", i, TxLine[k + 1]) \in AccumCounters
          /\ TxLine[k + 1] \in Totals
      BY <2>1, LineCounter
    <2>3. QED
      BY <1>5, <2>1, <2>2 DEF AccumTx, AccumLine, TypeOK
  <1>6. CASE AccumRxDone \/ AccumTxDone
    BY <1>6 DEF AccumRxDone, AccumTxDone, TypeOK
  <1>7. CASE UNCHANGED vars
    BY <1>7 DEF vars, TypeOK
  <1>8. QED
    BY <1>1, <1>2, <1>3, <1>4, <1>5, <1>6, <1>7 DEF Next

(* gve_setup_sysctl and gve_accum_stats keep every variable in its type,   *)
(* for every number of rx and tx rings and every bound on the datapath:     *)
(* the tree holds only well-formed leaves and the accumulation reads only   *)
(* counters of existing rings.                                              *)
THEOREM StatsTypeCorrect == Spec => []TypeOK
  BY StatsTypeInit, StatsTypeStep, PTL DEF Spec
=============================================================================
