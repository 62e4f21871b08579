----------------------------- MODULE MCDescribe -----------------------------
(***************************************************************************)
(* Describe on descriptors built from a few options: valid, short and      *)
(* mismatched GQI QPL options, jumbo-frames options above and below the    *)
(* base MTU, an unknown option, and one large enough to reach past the     *)
(* ADMINQ_SIZE buffer; option counts beyond the options written, and       *)
(* total lengths that cut the list at each option boundary.                *)
(***************************************************************************)
EXTENDS Describe

MCGqi == [id |-> "GQI_QPL", len |-> 4, mask |-> 0, sup |-> {"JUMBO_FRAMES"},
          maxMtu |-> 0]
MCGqiPlain == [MCGqi EXCEPT !.sup = {}]
MCGqiShort == [MCGqi EXCEPT !.len = 2]
MCGqiMasked == [MCGqi EXCEPT !.mask = 1]
MCJumbo == [id |-> "JUMBO_FRAMES", len |-> 8, mask |-> 0, sup |-> {},
            maxMtu |-> 9000]
MCJumboLow == [MCJumbo EXCEPT !.maxMtu = 1000]
MCOther == [ZeroOpt EXCEPT !.len = 12]
MCHuge == [ZeroOpt EXCEPT !.len = 4100]

MCSeqs(S) == {<<>>} \cup {<<a>> : a \in S} \cup {<<a, b>> : a, b \in S}

MCDesc(totals, nums, S) ==
  {[total |-> t, num |-> n, mtu |-> 1500, rx |-> 2048, tx |-> 512,
    opts |-> s] : t \in totals, n \in nums, s \in MCSeqs(S)}

MCDescriptors ==
  MCDesc({40, 52, 56, 60, 68, 80}, 0 .. 3,
         {MCGqi, MCGqiPlain, MCGqiShort, MCGqiMasked, MCJumbo, MCOther})

MCJumboDescriptors == MCDesc({68}, {2}, {MCGqi, MCJumboLow})

MCHugeDescriptors == MCDesc({4200}, {2}, {MCHuge, MCGqi})

MCExecErrors == {"EAGAIN", "ENOTRECOVERABLE"}
=============================================================================
