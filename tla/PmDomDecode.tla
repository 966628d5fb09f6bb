---------------------------- MODULE PmDomDecode ----------------------------
(***************************************************************************)
(* pm_set_a2 (src/src/pm_dom.c) and the page layouts it reads through      *)
(* (src/include/pm_dom.h).                                                 *)
(*                                                                         *)
(* A layout is a sequence of <<member, size in bytes>> in declaration      *)
(* order; every member is a char or unsigned char (array), so a member's   *)
(* byte offset is the sum of the sizes declared before it.  A bit-field    *)
(* struct is a sequence of bytes, each the sequence of its eight one-bit   *)
(* members in declaration order; the build allocates bit-fields from the   *)
(* least significant bit (GCC on a little-endian target).                  *)
(*                                                                         *)
(* The decoded columns are a function from <<metric, item>> to a value.    *)
(* Numeric values are kept in the unit of the column's scale factor, so    *)
(* no float is needed: Vcc and optical power count 0.0001 (the raw word),  *)
(* bias counts 0.0001 too (raw word * 20 = raw * 0.002), and temperature  *)
(* counts 1/256 degree C.  The string formatting of SET_FLOAT_STRING is    *)
(* not modelled.                                                           *)
(***************************************************************************)
EXTENDS Integers, Sequences, Bitwise, TLC
LOCAL INSTANCE SequencesExt

\* whether plain char is signed on the target (the ABI decides, not the code)
CONSTANT CharSigned

Kinds == <<"high_alarm", "low_alarm", "high_warning", "low_warning">>

\* a 16-bit value declared as "<name>_msb; <name>_lsb;"
Pair(m) == << <<m \o "_msb", 1>>, <<m \o "_lsb", 1>> >>

\* byte offset of member m in a layout: the sizes declared before it, summed
Offset(layout, m) ==
  LET at[i \in 1..Len(layout)] == IF i = 1 THEN 0 ELSE at[i - 1] + layout[i - 1][2]
  IN  at[CHOOSE j \in 1..Len(layout) : layout[j][1] = m]

\* the threshold prefixes of pm_sfp_dom_t, in declaration order
SfpThresholdPrefix == <<"temp", "voltage", "bias", "tx_power", "rx_power">>

pm_sfp_dom_t ==
  FlattenSeq([i \in 1..20 |->
      Pair(SfpThresholdPrefix[(i - 1) \div 4 + 1] \o "_" \o Kinds[((i - 1) % 4) + 1])])
  \o << <<"reserved_40", 16>>, <<"rx_pwr", 20>>, <<"calibration", 16>>,
        <<"reserved_92", 3>>, <<"checksum", 1>> >>
  \o Pair("temperature") \o Pair("vcc") \o Pair("tx_bias")
  \o Pair("tx_power") \o Pair("rx_power")
  \o << <<"reserved_106", 4>>, <<"status_control_bits", 2>>,
        <<"alarm_warning_bits", 8>>, <<"password", 7>>, <<"eeprom_select", 1>> >>

\* one flag byte of pm_sfp_alarm_warning_bits_t for the four metrics of 112/116
SfpFlagByte(kind) ==
  [i \in 1..8 |-> <<"tx_pwr", "tx_bias", "vcc", "temp">>[(i + 1) \div 2]
                  \o "_" \o <<"low_", "high_">>[((i - 1) % 2) + 1] \o kind]

Reserved8 == [i \in 1..8 |-> "reserved"]

\* byte 113 / 117: six reserved bits, then the rx power low and high flags
SfpRxFlagByte(kind) ==
  [Reserved8 EXCEPT ![7] = "rx_pwr_low_" \o kind, ![8] = "rx_pwr_high_" \o kind]

pm_sfp_alarm_warning_bits_t ==
  << SfpFlagByte("alarm"), SfpRxFlagByte("alarm"), Reserved8, Reserved8,
     SfpFlagByte("warning"), SfpRxFlagByte("warning"), Reserved8, Reserved8 >>

pm_qsfp_module_monitors_t ==
  Pair("temp") \o << <<"reserved_24", 2>> >> \o Pair("voltage")
  \o << <<"reserved_28", 6>> >>

Lanes == 1..4

\* "tx3_bias", "rx1_power", ...
LaneMetric(dir, n) ==
  dir \o ToString(n) \o (IF dir = "tx" THEN "_bias" ELSE "_power")

pm_qsfp_channel_monitors_t ==
  FlattenSeq([n \in Lanes |-> Pair(LaneMetric("rx", n))])
  \o FlattenSeq([n \in Lanes |-> Pair(LaneMetric("tx", n))])
  \o << <<"reserved_50", 32>> >>

pm_qsfp_dom_t ==
  << <<"indentifier", 1>>, <<"status", 2>>, <<"interrupt_flags", 19>>,
     <<"module_monitors", 12>>, <<"channel_monitors", 48>>,
     <<"reserved_82", 4>>, <<"control", 12>>, <<"reserved_98", 2>>,
     <<"module_and_channel_masks", 7>>, <<"reserved_107", 12>>,
     <<"password_change_entry_area", 4>>, <<"password_entry_area", 4>>,
     <<"page_select_btye", 1>> >>

\* four latched flags of one metric, low nibble first
LatchedNibble(m) ==
  [k \in 1..4 |-> "latched_" \o m \o "_" \o
                  <<"low_warning", "high_warning", "low_alarm", "high_alarm">>[k]]

Reserved4 == [i \in 1..4 |-> "reserved"]

\* bytes 3 to 21; bytes 9 to 12 hold two lanes each, the even lane in bits 0-3
pm_qsfp_interrupt_flags_t ==
  << [i \in 1..8 |-> "latched_" \o (IF i <= 4 THEN "rx" ELSE "tx")
                     \o ToString(((i - 1) % 4) + 1) \o "_los_indicator"],
     [i \in 1..8 |-> IF i <= 4 THEN "latched_tx" \o ToString(i) \o "_fault_indicator"
                     ELSE "reserved"],
     Reserved8,
     Reserved4 \o LatchedNibble("temp"),
     Reserved4 \o LatchedNibble("vcc"),
     Reserved8,
     LatchedNibble(LaneMetric("rx", 2)) \o LatchedNibble(LaneMetric("rx", 1)),
     LatchedNibble(LaneMetric("rx", 4)) \o LatchedNibble(LaneMetric("rx", 3)),
     LatchedNibble(LaneMetric("tx", 2)) \o LatchedNibble(LaneMetric("tx", 1)),
     LatchedNibble(LaneMetric("tx", 4)) \o LatchedNibble(LaneMetric("tx", 3)) >>
  \o [i \in 1..9 |-> Reserved8]

(***************************************************************************)
(* Where the decoder finds a field: byte offsets from the top of the page, *)
(* and <<byte, bit>> for a bit-field member.                               *)
(***************************************************************************)
Members(layout) == {layout[i][1] : i \in 1..Len(layout)}

SfpAt == [m \in Members(pm_sfp_dom_t) |-> Offset(pm_sfp_dom_t, m)]

QsfpModuleAt ==
  [m \in Members(pm_qsfp_module_monitors_t) |->
     Offset(pm_qsfp_dom_t, "module_monitors") + Offset(pm_qsfp_module_monitors_t, m)]

QsfpChannelAt ==
  [m \in Members(pm_qsfp_channel_monitors_t) |->
     Offset(pm_qsfp_dom_t, "channel_monitors") + Offset(pm_qsfp_channel_monitors_t, m)]

\* <<byte offset, bit number>> of every named member of a bit-field struct
BitAt(base, bits) ==
  [m \in {bits[b][i] : b \in 1..Len(bits), i \in 1..8} \ {"reserved"} |->
     CHOOSE bi \in {<<base + b - 1, i - 1>> : b \in 1..Len(bits), i \in 1..8} :
       bits[bi[1] - base + 1][bi[2] + 1] = m]

SfpFlagAt == BitAt(SfpAt["alarm_warning_bits"], pm_sfp_alarm_warning_bits_t)

QsfpFlagAt ==
  BitAt(Offset(pm_qsfp_dom_t, "interrupt_flags"), pm_qsfp_interrupt_flags_t)

(***************************************************************************)
(* The arithmetic of pm_set_a2.                                            *)
(***************************************************************************)
\* a "char" msb read as if it were unsigned char
CharValueUnsigned(b) == b

\* the value of a byte held in a plain "char"
CharValue(b) == IF CharSigned /\ b >= 128 THEN b - 256 ELSE b

\* "msb + (float)(lsb/256)", in units of 1/256 degree C: lsb/256 is an int
\* division, so its value is 0 for every byte
TempAt(pg, at) == (CharValue(pg[at]) + (pg[at + 1] \div 256)) * 256

\* the two bytes of a word combined in the opposite order
WordAtSwapped(pg, at) == pg[at + 1] * 256 + pg[at]

\* "(msb<<8) | lsb" for unsigned char msb and lsb
WordAt(pg, at) == (pg[at] * 256) | pg[at + 1]

\* a bit-field member: (byte >> bit) & 1
FlagAt(pg, bi) == (shiftR(pg[bi[1]], bi[2]) & 1) = 1

\* the scale factor, in units of 0.0001: "* 0.002" for bias, "* 0.0001" else
ScaleOf(metric) == IF metric \in {"tx_bias"} \cup {LaneMetric("tx", n) : n \in Lanes}
                   THEN 20 ELSE 1

Thresholds == [k \in 1..4 |-> Kinds[k] \o "_threshold"]

Numeric(pg, metric, at) ==
  IF metric = "temperature" THEN TempAt(pg, at) ELSE WordAt(pg, at) * ScaleOf(metric)

(***************************************************************************)
(* SFP+ (pm_dom.c:122-281): for each metric, its value, its four status    *)
(* flags from alarm_warning_bits and its four thresholds.  The struct      *)
(* fields are named per metric as below.                                   *)
(***************************************************************************)
SfpMetrics == {"temperature", "vcc", "tx_bias", "rx_power", "tx_power"}

SfpThresholdField ==
  [temperature |-> "temp", vcc |-> "voltage", tx_bias |-> "bias",
   rx_power |-> "rx_power", tx_power |-> "tx_power"]

SfpFlagField ==
  [temperature |-> "temp", vcc |-> "vcc", tx_bias |-> "tx_bias",
   rx_power |-> "rx_pwr", tx_power |-> "tx_pwr"]

SfpColumns == SfpMetrics \X ({"value"} \cup Range(Kinds) \cup Range(Thresholds))

SfpDecode(pg) ==
  [c \in SfpColumns |->
     LET m == c[1] IN
     CASE c[2] = "value" -> Numeric(pg, m, SfpAt[m \o "_msb"])
       [] c[2] \in Range(Kinds) ->
            FlagAt(pg, SfpFlagAt[SfpFlagField[m] \o "_" \o c[2]])
       [] OTHER ->
            LET k == CHOOSE i \in 1..4 : Thresholds[i] = c[2]
            IN  Numeric(pg, m, SfpAt[SfpThresholdField[m] \o "_" \o Kinds[k] \o "_msb"])]

(***************************************************************************)
(* QSFP+ and QSFP28 (pm_dom.c:282-423): temperature and Vcc values from    *)
(* module_monitors, and per lane the tx bias and rx power values from      *)
(* channel_monitors with four latched interrupt flags each; no thresholds *)
(* and no temperature or Vcc flags are set.                                *)
(***************************************************************************)
LaneMetrics == {LaneMetric(d, n) : d \in {"tx", "rx"}, n \in Lanes}

QsfpColumns ==
  ({"temperature", "vcc"} \X {"value"}) \cup (LaneMetrics \X ({"value"} \cup Range(Kinds)))

QsfpDecode(pg) ==
  [c \in QsfpColumns |->
     LET m == c[1] IN
     CASE m = "temperature" -> Numeric(pg, m, QsfpModuleAt["temp_msb"])
       [] m = "vcc" -> Numeric(pg, m, QsfpModuleAt["voltage_msb"])
       [] c[2] = "value" -> Numeric(pg, m, QsfpChannelAt[m \o "_msb"])
       [] OTHER -> FlagAt(pg, QsfpFlagAt["latched_" \o m \o "_" \o c[2]])]

(***************************************************************************)
(* pm_set_a2: the early returns for a port whose connector is not SFP+,    *)
(* QSFP+ or QSFP28 (the connector column becomes "unknown", no DOM column *)
(* is written), else the family's decode and the verbatim a2 snapshot.    *)
(***************************************************************************)
pm_set_a2(connector, pg) ==
  CASE connector = "SFP_PLUS" ->
         [columns |-> SfpDecode(pg), a2 |-> pg, connector_unknown |-> FALSE]
    [] connector \in {"QSFP_PLUS", "QSFP28"} ->
         [columns |-> QsfpDecode(pg), a2 |-> pg, connector_unknown |-> FALSE]
    [] OTHER -> [columns |-> << >>, a2 |-> "unchanged", connector_unknown |-> TRUE]
=============================================================================
