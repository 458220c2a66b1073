---------------------------- MODULE LinkCapacity ----------------------------
(***************************************************************************)
(* What an allocation can carry: link adaptation from SINR to CQI to MCS   *)
(* (radio/link_adaptation.py), and the transport block size of an          *)
(* allocation (radio/tbs.py), over the tables of radio/nr_tables.py.       *)
(*                                                                         *)
(* The code computes thresholds in floating point and sizes in fractions.  *)
(* Here an SINR is a pair of naturals <<signal, noise>>, thresholds are    *)
(* rounded to 1/10000 and N_info is an integer number of 1024ths.          *)
(***************************************************************************)
EXTENDS Integers

Sets == INSTANCE FiniteSetsExt

CONSTANTS
    DataRe, \* tbs_data_re_per_prb of the resource grid
    Margin  \* implementation margin, a linear ratio

\* build_resource_grid: a slot's 12 * 14 resource elements less the
\* configured overhead, and at most 156.
GrossRe == 12 * 14
MaxRe   == 156

ASSUME CapacityAssumption ==
    /\ DataRe \in 0..MaxRe /\ MaxRe < GrossRe
    /\ Margin \in Nat \ {0}

-----------------------------------------------------------------------------
(* Tables 1 of CQI and MCS, and the table of small transport blocks.       *)

\* Spectral efficiency * 10000 of CQI 1 to 15.
CqiEfficiency ==
    <<1523, 2344, 3770, 6016, 8770, 11758, 14766, 19141, 24063, 27305,
      33223, 39023, 45234, 51152, 55547>>

\* cqi_threshold_db without the margin: (2^efficiency - 1) * 10000.
CqiThreshold ==
    <<1113, 1764, 2986, 5174, 8366, 12592, 17829, 27688, 43011, 56369,
      90026, 139523, 219974, 336600, 460036>>

\* <<modulation order, code rate * 1024, efficiency * 10000>> of MCS 0 to 28.
McsTable ==
    <<<<2,120,2344>>, <<2,157,3066>>, <<2,193,3770>>, <<2,251,4902>>,
      <<2,308,6016>>, <<2,379,7402>>, <<2,449,8770>>, <<2,526,10273>>,
      <<2,602,11758>>, <<2,679,13262>>, <<4,340,13281>>,
      <<4,378,14766>>, <<4,434,16953>>, <<4,490,19141>>,
      <<4,553,21602>>, <<4,616,24063>>, <<4,658,25703>>,
      <<6,438,25664>>, <<6,466,27305>>, <<6,517,30293>>,
      <<6,567,33223>>, <<6,616,36094>>, <<6,666,39023>>,
      <<6,719,42129>>, <<6,772,45234>>, <<6,822,48164>>,
      <<6,873,51152>>, <<6,910,53320>>, <<6,948,55547>>>>

SmallTbs ==
    {24, 32, 40, 48, 56, 64, 72, 80, 88, 96, 104, 112, 120, 128, 136,
     144, 152, 160, 168, 176, 184, 192, 208, 224, 240, 256, 272, 288,
     304, 320, 336, 352, 368, 384, 408, 432, 456, 480, 504, 528, 552,
     576, 608, 640, 672, 704, 736, 768, 808, 848, 888, 928, 984, 1032,
     1064, 1128, 1160, 1192, 1224, 1256, 1288, 1320, 1352, 1416, 1480,
     1544, 1608, 1672, 1736, 1800, 1864, 1928, 2024, 2088, 2152, 2216,
     2280, 2408, 2472, 2536, 2600, 2664, 2728, 2792, 2856, 2976, 3104,
     3240, 3368, 3496, 3624, 3752, 3824}

-----------------------------------------------------------------------------
(* select_link_adaptation.                                                 *)

Outage == 0   \* no CQI: outage_below_cqi1
NoMcs  == -1  \* cqi_without_supported_mcs

Reaches(sinr, cqi) == sinr[1] * 10000 >= CqiThreshold[cqi] * Margin * sinr[2]

\* The highest CQI whose threshold the SINR reaches.
CqiOf(sinr) == Sets!Max({Outage} \cup {cqi \in 1..15 : Reaches(sinr, cqi)})

\* The MCS of the greatest efficiency that the CQI supports, later rows first.
McsOf(cqi) ==
    LET Supported == {m \in 0..28 : McsTable[m + 1][3] <= CqiEfficiency[cqi]}
        Better(m, n) == \/ McsTable[m + 1][3] > McsTable[n + 1][3]
                        \/ McsTable[m + 1][3] = McsTable[n + 1][3] /\ m >= n
    IN  IF Supported = {} THEN NoMcs
        ELSE CHOOSE m \in Supported : \A n \in Supported : Better(m, n)

-----------------------------------------------------------------------------
(* determine_transport_block_size, with one layer and no scaling.          *)

CeilDiv(a, b) == -((-a) \div b)

\* floor(log2(x / 1024)) of a positive x, from _floor_log2.
FloorLog2(x) == (CHOOSE e \in 0..30 : 2^e <= x /\ (e < 30 => x < 2^(e + 1))) - 10

\* Up to 3824 bits: round down to a multiple of the quantum and look up.
SmallBlock(nInfo) ==
    LET quantum   == 2^Sets!Max({3, FloorLog2(nInfo) - 6})
        quantized == Sets!Max({24, quantum * (nInfo \div (1024 * quantum))})
    IN  Sets!Min({size \in SmallTbs : size >= quantized})

\* Above: round half up, and split into equal code blocks of whole bytes.
Quantized(nInfo) ==
    LET shifted == nInfo - 24 * 1024
        quantum == 2^(FloorLog2(shifted) - 5)
    IN  Sets!Max({3840, quantum * ((2 * shifted + 1024 * quantum) \div (2048 * quantum))})

CodeBlocks(bits, rate) ==
    IF rate <= 256 THEN CeilDiv(bits + 24, 3816)
    ELSE IF bits > 8424 THEN CeilDiv(bits + 24, 8424)
    ELSE 1

LargeBlock(nInfo, rate) ==
    LET bits   == Quantized(nInfo)
        blocks == CodeBlocks(bits, rate)
    IN  8 * blocks * CeilDiv(bits + 24, 8 * blocks) - 24

TransportBlock(prbs, mcs) ==
    LET row   == McsTable[mcs + 1]
        nInfo == prbs * DataRe * row[1] * row[2]
    IN  IF nInfo = 0 THEN 0
        ELSE IF nInfo <= 3824 * 1024 THEN SmallBlock(nInfo)
        ELSE LargeBlock(nInfo, row[2])

-----------------------------------------------------------------------------
\* evaluate_capacity: the bits an allocation carries in a slot; its state is
\* "capacity_available" exactly when they are positive.
CapacityBits(sinr, prbs) ==
    LET cqi == CqiOf(sinr)
    IN  IF prbs = 0 \/ DataRe = 0 \/ cqi = Outage \/ McsOf(cqi) = NoMcs THEN 0
        ELSE TransportBlock(prbs, McsOf(cqi))
=============================================================================
