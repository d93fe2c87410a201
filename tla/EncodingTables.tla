--------------------------- MODULE EncodingTables ---------------------------
(***************************************************************************)
(* src/riscv-tests/env/encoding.h: the MATCH_x/MASK_x pair of every        *)
(* instruction it names, of all extensions, in the order of the header and *)
(* at most 75 instructions to a definition.  Group collects the            *)
(* instructions of one mask: first the matches below 2^31, then, less      *)
(* 2^31, those with bit 31 set.                                            *)
(***************************************************************************)
EXTENDS Encoding

(* The masks, by the fields they look at: funct3, funct7 and its parts,    *)
(* register fields that select (Rs2, Vs1) or must be zero (NoRd), and the  *)
(* quadrant, funct and register fields of the 16-bit instructions (C...).  *)

CF3        == 0..1 \cup 13..15                   \* 0xe003
CF3F2      == 0..1 \cup 10..11 \cup 13..15       \* 0xec03
CF3Rd      == 0..1 \cup 7..11 \cup 13..15        \* 0xef83
CF4        == 0..1 \cup 12..15                   \* 0xf003
CF4NoRs2   == 0..6 \cup 12..15                   \* 0xf07f
CF6        == 0..1 \cup 10..15                   \* 0xfc03
CF6Bit6    == 0..1 \cup {6} \cup 10..15          \* 0xfc43
CF6F2      == 0..1 \cup 5..6 \cup 10..15         \* 0xfc63
CF6F5      == 0..6 \cup 10..15                   \* 0xfc7f
CF8        == 0..1 \cup 8..15                    \* 0xff03
CAll       == 0..15                              \* 0xffff
F3Rs2NoRd  == 0..14 \cup 20..24                  \* 0x1f07fff
F3Bit26    == 0..6 \cup 12..14 \cup {26}         \* 0x400707f
F2         == 0..6 \cup 25..26                   \* 0x600007f
F3F2       == 0..6 \cup 12..14 \cup 25..26       \* 0x600707f
VIndexed   == 0..6 \cup 12..14 \cup 26..28       \* 0x1c00707f
VUnit      == 0..6 \cup 12..14 \cup 20..24 \cup 26..28 \* 0x1df0707f
F3F5       == 0..6 \cup 12..14 \cup 25..29       \* 0x3e00707f
F3Bit31    == 0..6 \cup 12..14 \cup {31}         \* 0x8000707f
F3Top2     == 0..6 \cup 12..14 \cup 30..31       \* 0xc000707f
LrOp       == 0..6 \cup 12..14 \cup 20..24 \cup 27..31 \* 0xf9f0707f
F3F6       == 0..6 \cup 12..14 \cup 26..31       \* 0xfc00707f
F3F6Vs1    == 0..6 \cup 12..19 \cup 26..31       \* 0xfc0ff07f
F3F6Vs1Vs2 == 0..6 \cup 12..24 \cup 26..31       \* 0xfdfff07f
F7         == 0..6 \cup 25..31                   \* 0xfe00007f
F3F7Vs1    == 0..6 \cup 12..19 \cup 25..31       \* 0xfe0ff07f
F3F8       == 0..6 \cup 12..14 \cup 24..31       \* 0xff00707f
F3F9       == 0..6 \cup 12..14 \cup 23..31       \* 0xff80707f
F12        == 0..6 \cup 20..31                   \* 0xfff0007f
F3F12      == 0..6 \cup 12..14 \cup 20..31       \* 0xfff0707f
F12NoRd    == 0..14 \cup 20..31                  \* 0xfff07fff

Instr(match, mask) == [match |-> match, mask |-> mask]

Group(mask, low, high) ==
    {Instr(BitsOf(m), mask) : m \in low} \cup {Instr(BitsOf(m) \cup {31}, mask) : m \in high}

-----------------------------------------------------------------------------
\* ADD to C_BEQZ
AddToCBeqz ==
    Group(F3F7, {
        \h33, \h3b, \h7033, \h800003b, \h8003033, \h8006033, \h800603b, \h28001033, \h32000033,
        \h36000033, \h3a000033, \h3e000033, \h40000077, \h40002077, \h40007033, \h48000077,
        \h48001033, \h48003033, \h48005033, \h48006033, \h4800603b, \h48007033, \h4800703b,
        \h68001033, \h7e000033},
       {\h40001077, \h60000077})
    \cup Group(AmoOp, {
        \h202f, \h302f, \h800202f, \h800302f, \h2000202f, \h2000302f, \h4000202f, \h4000302f,
        \h6000202f, \h6000302f},
       {\h202f, \h302f, \h2000202f, \h2000302f, \h4000202f, \h4000302f, \h6000202f, \h6000302f})
    \cup Group(F3, {\h13, \h1b, \h63, \h1063, \h4063, \h5063, \h6063, \h7013, \h7063}, {})
    \cup Group(F3F5, {\h22000033, \h26000033, \h2a000033, \h2e000033}, {})
    \cup Group(F3F6, {\h28001013, \h48001013, \h48005013, \h68001013}, {})
    \cup Group(CF3, {\h0, \h1, \h2001, \hc001}, {}) \cup Group(F3F12, {\h30001013, \h60301013}, {})
    \cup Group(CF6F2, {\h8c61, \h9c21}, {}) \cup Group(F3F8, {\h31001013}, {})
    \cup Group(Op7, {\h17}, {}) \cup Group(CF4, {\h9002}, {}) \cup Group(CF3Rd, {\h6101}, {})
    \cup Group(CF3F2, {\h8801}, {})

\* C_BNEZ to CRAS32
CBnezToCras32 ==
    Group(CF3, {
        \h2, \h2000, \h2001, \h2002, \h4000, \h4001, \h4002, \h6000, \h6001, \h6002, \ha000,
        \ha001, \ha002, \hc000, \hc002, \he000, \he001, \he002}, {})
    \cup Group(F3F12, {
        \h60001013, \h6000101b, \h60201013, \h6020101b},
       {\h2e000077, \h2e100077, \h2e800077, \h2e900077, \h2f800077, \h2f900077})
    \cup Group(CF6F2, {\h8c01, \h8c21, \h8c41, \h9c01, \h9c41, \hac22, \hac62}, {})
    \cup Group(F3F7, {
        \ha001033, \ha002033, \ha003033, \h44000077, \h44002077, \h4c000077, \h4e000077}, {})
    \cup Group(CF6F5, {\h9c61, \h9c65, \h9c69, \h9c6d, \h9c71, \h9c75}, {})
    \cup Group(F12NoRd, {\h200f, \h10200f, \h20200f, \h40200f}, {})
    \cup Group(CF8, {\hb802, \hba02, \hbc02, \hbe02}, {}) \cup Group(CF6, {\h8000, \h8800, \ha002}, {})
    \cup Group(CF6Bit6, {\h8400, \h8440, \h8c00}, {}) \cup Group(CF4NoRs2, {\h8002, \h9002}, {})
    \cup Group(CF3F2, {\h8001, \h8401}, {}) \cup Group(F3F2, {\h6001033, \h6005033}, {})
    \cup Group(CAll, {\h9002}, {}) \cup Group(CF4, {\h8002}, {}) \cup Group(CF3Rd, {\h1}, {})

\* CRC32_B to FCVT_W_S
Crc32BToFcvtWS ==
    Group(F12, {
        \h40100053, \h40200053, \h40300053, \h42000053, \h42200053, \h42300053, \h44000053,
        \h44100053, \h44300053, \h46000053, \h46100053, \h46200053},
       {\h40000053, \h40200053, \h40300053, \h42000053, \h42200053, \h42300053, \h44000053,
        \h44200053, \h44300053, \h46000053, \h46200053, \h46300053, \h50000053, \h50100053,
        \h50200053, \h50300053, \h52000053, \h52100053, \h52200053, \h52300053, \h54000053,
        \h54100053, \h54200053, \h54300053, \h56000053, \h56100053, \h56200053, \h56300053})
    \cup Group(F3F12, {
        \h60101013, \h6010101b, \h61001013, \h61101013, \h61201013, \h61301013, \h61801013,
        \h61901013, \h61a01013, \h61b01013},
       {\h60001053, \h62001053, \h64001053, \h66001053})
    \cup Group(F3F7, {
        \h2004033, \h200403b, \h2005033, \h200503b, \he005033, \he007033, \h46000077, \h46002077}, {})
    \cup Group(F3, {\h1073, \h2073, \h3073, \h5073, \h6073, \h7073}, {})
    \cup Group(F7, {\h53, \h2000053, \h4000053, \h6000053}, {})
    \cup Group(All, {\h73, \h100073, \h7b200073}, {})

\* FCVT_WU_D to FSL
FcvtWuDToFsl ==
    Group(F3F7, {
        \h20000053, \h20001053, \h20002053, \h22000053, \h22001053, \h22002053, \h24000053,
        \h24001053, \h24002053, \h26000053, \h26001053, \h26002053, \h28000053, \h28001053,
        \h2a000053, \h2a001053, \h2c000053, \h2c001053, \h2e000053, \h2e001053},
       {\h20000053, \h20001053, \h20002053, \h22000053, \h22001053, \h22002053, \h24000053,
        \h24001053, \h24002053, \h26000053, \h26001053, \h26002053})
    \cup Group(F2, {
        \h43, \h47, \h4b, \h4f, \h2000043, \h2000047, \h200004b, \h200004f, \h4000043, \h4000047,
        \h400004b, \h400004f, \h6000043, \h6000047, \h600004b, \h600004f}, {})
    \cup Group(F7, {
        \h10000053, \h12000053, \h14000053, \h16000053, \h18000053, \h1a000053, \h1c000053,
        \h1e000053}, {})
    \cup Group(F3, {\hf, \h1007, \h100f, \h1027, \h2007, \h3007, \h3027, \h4007}, {})
    \cup Group(F3F12, {}, {
        \h60000053, \h62000053, \h64000053, \h70000053, \h72000053, \h74000053})
    \cup Group(F12, {}, {\h40100053, \h42100053, \h44100053, \h46100053})
    \cup Group(F3F2, {\h4001033}, {})

\* FSLW to KHMBT16
FslwToKhmbt16 ==
    Group(F3F7, {
        \h1077, \h4001077, \ha001077, \hc001077, \h10000077, \h10002077, \h14000077, \h14002077,
        \h16000077, \h16002077, \h18000077, \h1a001077, \h1c001077, \h2800501b, \h28005033,
        \h2800503b, \h2a001077, \h6800501b, \h68005033, \h6800503b},
       {\h6000077, \he000077, \h10001077, \h52001077, \h58001077, \h5a001077, \h5c001077,
        \h62001077, \h68001077, \h6a001077, \h6c001077, \h72001077, \h78001077, \h7a001077})
    \cup Group(F3F12, {
        \h60004073, \h60104073, \h64004073, \h64104073, \h64304073, \h68004073, \h68104073,
        \h68304073, \h6c004073},
       {\h2d000077, \h2d100077, \h2d200077, \h2d400077})
    \cup Group(NoRd, {
        \h22000073, \h26000073, \h62000073, \h62004073, \h66000073, \h66004073, \h6a004073,
        \h6e004073}, {})
    \cup Group(F3F2, {\h400103b, \h400501b, \h4005033, \h400503b}, {})
    \cup Group(F12, {\h58000053, \h5a000053, \h5c000053, \h5e000053}, {})
    \cup Group(F7, {\h8000053, \ha000053, \hc000053, \he000053}, {})
    \cup Group(F3, {\h67, \h2027, \h4027}, {}) \cup Group(F3F6, {\h28005013, \h68005013}, {})
    \cup Group(F3Bit26, {\h4005013}, {}) \cup Group(F3F9, {}, {\h2c000077}) \cup Group(Op7, {\h6f}, {})

\* KHMTT to LBU
KhmttToLbu ==
    Group(F3F7, {
        \h2001077, \h6001077, \h12000077, \h12002077, \h1a000077, \h26001077, \h2c001077,
        \h36001077, \h38001077, \h38002077, \h3a001077, \h3a002077, \h42001077, \h46001077,
        \h48001077, \h4a001077, \h4a002077, \h4c001077, \h4c002077, \h4e001077, \h4e002077,
        \h52001077, \h56000077, \h56001077, \h56002077, \h5a001077, \h5a002077, \h5c001077,
        \h5c002077, \h5e000077, \h60001077, \h62001077, \h64000077, \h64002077, \h66000077,
        \h66001077, \h66002077, \h6a001077, \h6a002077, \h6c000077, \h6c001077, \h6c002077,
        \h6e000077, \h6e001077, \h70001077, \h72001077, \h76001077, \h7a001077, \h7a002077,
        \h7c001077, \h7c002077, \h7e001077},
       {\h4002077, \he001077, \h12001077, \h14001077, \h16000077, \h16001077, \h1e000077,
        \h1e001077, \h2e001077, \h3e001077, \h40002077, \h42002077, \h44002077, \h46002077,
        \h4e001077, \h5e001077, \h6e001077, \h7c001077, \h7e001077})
    \cup Group(F3, {\h3, \h4003}, {}) \cup Group(F3F8, {\h75000077}, {})
    \cup Group(F3F9, {\h7c800077}, {})

\* LD to SCLIP16
LdToSclip16 ==
    Group(F3F7, {
        \h77, \h2077, \h6033, \h2000033, \h200003b, \h2000077, \h2001033, \h2002033, \h2002077,
        \h2003033, \h2006033, \h200603b, \h2007033, \h200703b, \h4000077, \h4002077, \h6000077,
        \h6002077, \h8000077, \h8004033, \h800403b, \h8007033, \ha000077, \ha004033, \ha005033,
        \ha006033, \ha007033, \he001077, \h1e001077, \h1e002077, \h20001077, \h22001077,
        \h2e001077, \h3e001077, \h3e002077, \h40006033, \h48004033, \h4800403b, \h60001033,
        \h6000103b, \h6000501b, \h60005033, \h6000503b},
       {\h1077, \h2001077, \h30002077, \h32002077, \h34002077, \h36002077, \h44001077,
        \h46001077, \h60001077, \h70001077, \h7c000077, \h7e000077})
    \cup Group(F3, {\h23, \h1003, \h2003, \h3003, \h5003, \h6003, \h6013}, {})
    \cup Group(All, {\h100000f, \h30200073, \h70200073}, {})
    \cup Group(F3Rs2NoRd, {\h6013, \h106013, \h306013}, {})
    \cup Group(LrOp, {\h1000202f, \h1000302f}, {}) \cup Group(AmoOp, {\h1800202f, \h1800302f}, {})
    \cup Group(Op7, {\h37}, {}) \cup Group(F3F6, {\h60005013}, {}) \cup Group(F3F8, {}, {\h4000077})

\* SCLIP32 to SMAX32
Sclip32ToSmax32 ==
    Group(F3F7, {
        \h1013, \h101b, \h1033, \h103b, \h2033, \h3033, \h8001013, \h8001033, \h800103b,
        \hc000077, \he000077, \h1c000077, \h1e000077, \h2000101b, \h20001033, \h2000103b,
        \h20002033, \h2000203b, \h20004033, \h2000403b, \h20006033, \h2000603b, \h50000033,
        \h52000033, \h54000033, \h54000077, \h54002077, \h56000033, \h5c000033, \h5c000077,
        \h5e000033, \h5e001077, \h74002077},
       {\h2000077, \h4001077, \h8001077, \ha001077, \hc001077, \h12002077, \h18001077,
        \h1a001077, \h1c001077, \h28001077, \h2a001077, \h48000077, \h4a000077, \h64000077})
    \cup Group(F3F12, {
        \h10001013, \h10101013, \h10201013, \h10301013, \h10401013, \h10501013, \h10601013,
        \h10701013, \h10801013, \h10901013, \h60401013, \h60501013}, {})
    \cup Group(F3, {\h1023, \h2013, \h3013, \h3023}, {})
    \cup Group(F3F6, {\h1013, \h800101b, \h20001013}, {}) \cup Group(F3F9, {\h7c000077}, {\hc000077})
    \cup Group(All, {\h18000073, \h18100073}, {}) \cup Group(NoRd, {\h12000073, \h16000073}, {})
    \cup Group(F3F5, {\h30000033, \h34000033}, {}) \cup Group(F3F8, {\h74000077}, {})

\* SMAX8 to SUB
Smax8ToSub ==
    Group(F3F7, {
        \h5013, \h501b, \h5033, \h503b, \h8001077, \h18001077, \h18002077, \h2000501b,
        \h20005033, \h2000503b, \h24001077, \h28001077, \h28002077, \h34001077, \h40000033,
        \h40001077, \h40005013, \h4000501b, \h40005033, \h4000503b, \h44001077, \h50000077,
        \h50001077, \h50002077, \h52000077, \h52002077, \h54001077, \h58000077, \h58001077,
        \h58002077, \h5a000077, \h60000077, \h60002077, \h62000077, \h62002077, \h64001077,
        \h68000077, \h68001077, \h68002077, \h6a000077, \h70002077, \h72002077, \h74001077,
        \h78001077, \h78002077},
       {\h77, \h2077, \h2002077, \h6001077, \h8000077, \ha000077, \h10002077, \h20000077,
        \h22000077, \h28000077, \h2a000077, \h2c001077, \h3c001077, \h70002077, \h72002077,
        \h74002077, \h76002077})
    \cup Group(F3F6, {\h5013, \h20005013, \h40005013}, {\h54001077})
    \cup Group(F3F8, {\h70000077, \h71000077, \h72000077, \h73000077}, {})
    \cup Group(F3F9, {\h78000077, \h78800077, \h7a000077, \h7a800077}, {})
    \cup Group(All, {\h10200073}, {})

\* SUB16 to VAADD_VV
Sub16ToVaaddVv ==
    Group(F3F7, {
        \h8005013, \h8005033, \h800503b, \h10001077, \h12001077, \h14001077, \h16001077,
        \h20000077, \h20002077, \h22000077, \h22002077, \h24000077, \h24002077, \h26000077,
        \h26002077, \h28000077, \h2a000077, \h2c000077, \h2e000077, \h30000077, \h30001077,
        \h30002077, \h32000077, \h32001077, \h32002077, \h34000077, \h34002077, \h36000077,
        \h36002077, \h38000077, \h3a000077, \h3c000077, \h3e000077, \h4000003b, \h42000077,
        \h42002077, \h4a000077},
       {\h10000077, \h12000077, \h18000077, \h1a000077, \h20001077, \h20002077, \h22001077,
        \h22002077, \h24001077, \h26001077, \h30000077, \h30001077, \h32000077, \h32001077,
        \h34001077, \h36001077, \h38000077, \h3a000077, \h42001077, \h4c000077, \h50002077,
        \h52002077, \h54002077, \h56002077, \h60002077, \h62002077, \h64002077, \h66002077,
        \h74000077})
    \cup Group(F3F12, {}, {\h2c800077, \h2c900077, \h2ca00077, \h2cb00077, \h2d300077})
    \cup Group(F3, {\h2023}, {}) \cup Group(F3F8, {}, {\h5000077}) \cup Group(F3F9, {}, {\hd000077})
    \cup Group(F3F6, {\h24002057}, {})

\* VAADD_VX to VFMAX_VF
VaaddVxToVfmaxVf ==
    Group(AmoOp, {
        \h2f, \h502f, \h602f, \h702f, \h800002f, \h800502f, \h800602f, \h800702f, \h2000002f,
        \h2000502f, \h2000602f, \h2000702f, \h4000002f, \h4000502f, \h4000602f, \h4000702f,
        \h6000002f, \h6000502f, \h6000602f, \h6000702f},
       {\h2f, \h502f, \h602f, \h702f, \h2000002f, \h2000502f, \h2000602f, \h2000702f, \h4000002f,
        \h4000502f, \h4000602f, \h4000702f, \h6000002f, \h6000502f, \h6000602f, \h6000702f})
    \cup Group(F3F6, {
        \h57, \h1057, \h3057, \h4057, \h5057, \h18005057, \h20002057, \h20006057, \h24000057,
        \h24003057, \h24004057, \h24006057, \h28002057, \h28006057, \h2c002057, \h2c006057},
       {\h1057, \h2057, \h5057, \h6057, \h4002057, \h4006057, \h20001057, \h20005057, \h30001057,
        \h30005057})
    \cup Group(F3F6Vs1, {
        \h40082057, \h4008a057, \h48001057, \h48009057, \h48011057, \h48019057, \h48031057,
        \h48039057, \h4c081057}, {})
    \cup Group(F3F7, {\h40000057, \h40003057, \h40004057, \h5e002057}, {})

\* VFMAX_VV to VFWSUB_WV
VfmaxVvToVfwsubWv ==
    Group(F3F6, {
        \h4001057, \h8001057, \h8005057, \hc001057, \h10001057, \h10005057, \h14001057,
        \h18001057, \h1c001057, \h20001057, \h20005057, \h24001057, \h24005057, \h28001057,
        \h28005057, \h38005057, \h3c005057},
       {\h4005057, \h10001057, \h10005057, \h1c005057, \h24001057, \h24005057, \h28001057,
        \h28005057, \h2c001057, \h2c005057, \h34001057, \h34005057, \h38001057, \h38005057,
        \h3c001057, \h3c005057, \h40001057, \h40005057, \h44001057, \h48001057, \h48005057,
        \h4c001057, \h50001057, \h50005057, \h58001057, \h58005057, \h60001057, \h60005057,
        \h70001057, \h70005057, \h74001057, \h74005057, \h78001057, \h78005057, \h7c001057,
        \h7c005057})
    \cup Group(F3F6Vs1, {
        \h48041057, \h48049057, \h48051057, \h48059057, \h48061057, \h48071057, \h48079057,
        \h48081057, \h48089057, \h48091057, \h48099057, \h480a1057, \h480a9057, \h480b1057,
        \h480b9057, \h4c001057, \h4c021057, \h4c029057}, {})
    \cup Group(F3F12, {\h42005057, \h5e005057}, {}) \cup Group(F3F7, {\h5c005057}, {})
    \cup Group(F3F7Vs1, {\h42001057}, {})

\* VID_V to VMAXU_VX
VidVToVmaxuVx ==
    Group(VIndexed, {
        \h4000007, \h4005007, \h4006007, \h4007007, \h8000007, \h8005007, \h8006007, \h8007007,
        \hc000007, \hc005007, \hc006007, \hc007007, \h14000007, \h14005007, \h14006007,
        \h14007007, \h18000007, \h18005007, \h18006007, \h18007007, \h1c000007, \h1c005007,
        \h1c006007, \h1c007007}, {})
    \cup Group(F3F12, {
        \h2800007, \h2805007, \h2806007, \h2807007, \h2b00007, \h22800007, \h22805007,
        \h22806007, \h22807007, \h62800007, \h62805007, \h62806007, \h62807007},
       {\h62800007, \h62805007, \h62806007, \h62807007})
    \cup Group(VUnit, {
        \h7, \h5007, \h6007, \h7007, \h1000007, \h1005007, \h1006007, \h1007007, \h10000007,
        \h10005007, \h10006007, \h10007007, \h11000007, \h11005007, \h11006007, \h11007007}, {})
    \cup Group(F3F6, {
        \h18000057, \h18004057, \h1c000057, \h1c004057, \h60002057, \h64002057},
       {\h24002057, \h24006057, \h34002057, \h34006057})
    \cup Group(F3F7, {
        \h44000057, \h44003057, \h44004057, \h46000057, \h46003057, \h46004057}, {})
    \cup Group(F3F6Vs1Vs2, {\h5008a057}, {}) \cup Group(F3F6Vs1, {\h50082057}, {})

\* VMERGE_VIM to VNMSAC_VX
VmergeVimToVnmsacVx ==
    Group(F3F6, {
        \h10000057, \h10004057, \h14000057, \h14004057, \h60000057, \h60001057, \h60003057,
        \h60004057, \h60005057, \h64000057, \h64001057, \h64003057, \h64004057, \h64005057,
        \h68000057, \h68002057, \h68004057, \h6c000057, \h6c001057, \h6c002057, \h6c004057,
        \h6c005057, \h70000057, \h70001057, \h70002057, \h70003057, \h70004057, \h70005057,
        \h74000057, \h74002057, \h74003057, \h74004057, \h74005057, \h78002057, \h78003057,
        \h78004057, \h7c002057, \h7c003057, \h7c004057, \h7c005057},
       {\h10002057, \h10006057, \h14002057, \h14006057, \h18002057, \h18006057, \h1c002057,
        \h1c006057, \h38000057, \h38003057, \h38004057, \h3c000057, \h3c002057, \h3c003057,
        \h3c004057, \h3c006057})
    \cup Group(F3F7, {
        \h4c000057, \h4c004057, \h4e000057, \h4e004057, \h5c000057, \h5c003057, \h5c004057}, {})
    \cup Group(F3F7Vs1, {\h42002057}, {\h1e003057, \h1e00b057, \h1e01b057, \h1e03b057})
    \cup Group(F3F12, {\h42006057, \h5e000057, \h5e003057, \h5e004057}, {})
    \cup Group(F3F6Vs1, {\h5000a057, \h50012057, \h5001a057}, {})

\* VNMSUB_VV to VSOXEI8_V
VnmsubVvToVsoxei8V ==
    Group(F3F6, {
        \h2057, \h4002057, \h8002057, \hc002057, \hc003057, \hc004057, \h10002057, \h14002057,
        \h18002057, \h1c002057, \h28000057, \h28003057, \h28004057, \h30000057, \h30003057,
        \h30004057, \h38000057, \h38003057, \h38004057, \h38006057, \h3c003057, \h3c004057,
        \h3c006057},
       {\h57, \h3057, \h4057, \h4000057, \h4003057, \h4004057, \h8002057, \h8006057, \hc002057,
        \hc006057, \h14000057, \h14003057, \h14004057, \h1c000057, \h1c004057, \h2c002057,
        \h2c006057, \h30000057, \h30003057, \h30004057, \h34000057, \h34003057, \h34004057})
    \cup Group(VUnit, {
        \h27, \h5027, \h6027, \h7027, \h10000027, \h10005027, \h10006027, \h10007027}, {})
    \cup Group(VIndexed, {
        \hc000027, \hc005027, \hc006027, \hc007027, \h1c000027, \h1c005027, \h1c006027,
        \h1c007027}, {})
    \cup Group(F3F12, {\h2800027, \h2b00027, \h22800027, \h62800027}, {\h62800027})
    \cup Group(F3F7, {\h48000057, \h48004057}, {\h7057})
    \cup Group(F3F6Vs1, {\h4801a057, \h4802a057, \h4803a057}, {}) \cup Group(F3Top2, {}, {\h40007057})
    \cup Group(F3Bit31, {\h7057}, {})

\* VSRA_VI to XNOR
VsraViToXnor ==
    Group(F3F6, {
        \h8000057, \h8004057, \h2c000057, \h2c003057, \h2c004057},
       {\h8000057, \h8004057, \hc000057, \hc004057, \h20000057, \h20003057, \h20004057,
        \h24000057, \h24003057, \h24004057, \h28000057, \h28003057, \h28004057, \h2c000057,
        \h2c003057, \h2c004057, \h40000057, \h40002057, \h40006057, \h44000057, \h44002057,
        \h44006057, \h48002057, \h48006057, \h4c002057, \h4c006057, \h50002057, \h50006057,
        \h54002057, \h54006057, \h58002057, \h58006057, \h5c002057, \h5c006057, \h60002057,
        \h60006057, \h68002057, \h68006057, \h6c002057, \h6c006057, \h70002057, \h70006057,
        \h74002057, \h74006057, \h78006057, \h7c002057, \h7c006057})
    \cup Group(VIndexed, {
        \h4000027, \h4005027, \h4006027, \h4007027, \h8000027, \h8005027, \h8006027, \h8007027,
        \h14000027, \h14005027, \h14006027, \h14007027, \h18000027, \h18005027, \h18006027,
        \h18007027}, {})
    \cup Group(F3F6Vs1, {\h48012057, \h48022057, \h48032057}, {})
    \cup Group(All, {\hd00073, \h1d00073, \h10500073}, {}) \cup Group(F3F7, {\h40004033}, {})

\* XOR to ZUNPKD832
XorToZunpkd832 ==
    Group(F3F7, {\h4033, \h28000033, \h28002033, \h28004033, \h28006033}, {})
    \cup Group(F3F12, {}, {\h2cc00077, \h2cd00077, \h2ce00077, \h2cf00077, \h2d700077})
    \cup Group(F3, {\h4013}, {})

Instructions == UNION {
    AddToCBeqz, CBnezToCras32, Crc32BToFcvtWS, FcvtWuDToFsl, FslwToKhmbt16, KhmttToLbu,
    LdToSclip16, Sclip32ToSmax32, Smax8ToSub, Sub16ToVaaddVv, VaaddVxToVfmaxVf,
    VfmaxVvToVfwsubWv, VidVToVmaxuVx, VmergeVimToVnmsacVx, VnmsubVvToVsoxei8V, VsraViToXnor,
    XorToZunpkd832}
=============================================================================
