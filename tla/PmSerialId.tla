----------------------------- MODULE PmSerialId -----------------------------
(***************************************************************************)
(* The serial-ID (identity page) layouts of src/include/plug.h:            *)
(* pm_sfp_serial_id_t (SFF-8472 A0h, read at offset 0) and                 *)
(* pm_qsfp_serial_id_t (SFF-8636 upper page 00h, read at offset 128 into   *)
(* the same pm_sfp_serial_id_t buffer and cast, plug.c:252 and             *)
(* pm_detect.c:357).                                                       *)
(*                                                                         *)
(* A struct is a sequence of <<member, size, alignment>> in declaration    *)
(* order; a member starts at the first multiple of its alignment after    *)
(* the member before it, and the struct's size is rounded up to its       *)
(* largest alignment (the System V ABI the build targets).  Bit-fields of  *)
(* unsigned char are allocated by the build (GCC, little-endian) from the *)
(* least significant bit, a field that would straddle a byte starting the *)
(* next one.  Members the code never reads keep their widths and are      *)
(* named "unread".                                                        *)
(***************************************************************************)
EXTENDS Integers, Sequences, PmParse
LOCAL INSTANCE SequencesExt

SFP_SERIAL_ID_OFFSET == 0
QSFP_SERIAL_ID_OFFSET == 128
PM_SERIAL_ID_VENDOR_AREA_LEN == 32

\* n one-bit members the code does not read, and one of width w
Unread(n) == [i \in 1..n |-> <<"unread", 1>>]
Wide(w) == << <<"unread", w>> >>

RoundUp(n, a) == ((n + a - 1) \div a) * a

(***************************************************************************)
(* Bit-field structs, one sequence of fields per byte as the header's     *)
(* "byte N" comments group them.  The grouping is the build's allocation  *)
(* exactly when every group holds eight bits: a shorter group would let   *)
(* the next field share its byte, a longer one would straddle.            *)
(***************************************************************************)
Width(fields) == FoldLeft(LAMBDA acc, f : acc + f[2], 0, fields)

FillsBytes(fs) == \A b \in 1..Len(fs) : Width(fs[b]) = 8

BitFieldSize(fs) == Len(fs)

\* <<byte, bit>> of a named field, relative to the struct
BitOf(fs, m) ==
  LET bk == CHOOSE bk \in UNION {{<<b, k>> : k \in 1..Len(fs[b])} : b \in 1..Len(fs)} :
              fs[bk[1]][bk[2]][1] = m
  IN  <<bk[1] - 1, Width(SubSeq(fs[bk[1]], 1, bk[2] - 1))>>

pm_sfp_serial_id_transceiver_t ==
  << Unread(4) \o << <<"enet_10gbase_sr", 1>>, <<"enet_10gbase_lr", 1>>,
                     <<"enet_10gbase_lrm", 1>> >> \o Unread(1),         \* 3
     Unread(3) \o Wide(2) \o Unread(3),                                  \* 4
     Unread(8),                                                          \* 5
     << <<"enet_1000base_sx", 1>>, <<"enet_1000base_lx", 1>>,
        <<"enet_1000base_cx", 1>>, <<"enet_1000base_t", 1>> >> \o Unread(4), \* 6
     Unread(8),                                                          \* 7
     Unread(2) \o << <<"cable_technology_passive", 1>>,
                     <<"cable_technology_active", 1>> >> \o Unread(4),   \* 8
     Unread(8), Unread(8) >>                                             \* 9, 10

pm_sfp_options_t == << Unread(6) \o Wide(2), Unread(8) >>

pm_sfp_diag_monitoring_type_t ==
  << Wide(2) \o << <<"addr_change_required", 1>>, <<"power_measurement_type", 1>>,
                   <<"externally_calibrated", 1>>, <<"internally_calibrated", 1>>,
                   <<"implemented_digital", 1>>, <<"legacy", 1>> >> >>

pm_sfp_enhanced_options_t == << Unread(8) >>

pm_qsfp_ext_indentifier_t == << Wide(2) \o Unread(4) \o Wide(2) >>

pm_qsfp_spec_compliance_t ==
  << << <<"enet_40g_xlppi", 1>>, <<"enet_40gbase_lr4", 1>>, <<"enet_40gbase_sr4", 1>>,
        <<"enet_40gbase_cr4", 1>>, <<"enet_10gbase_sr", 1>>, <<"enet_10gbase_lr", 1>>,
        <<"enet_10gbase_lrm", 1>>, <<"enet_extended", 1>> >>,           \* 131
     Unread(8), Unread(8),                                               \* 132, 133
     << <<"enet_1000base_sx", 1>>, <<"enet_1000base_lx", 1>>,
        <<"enet_1000base_cx", 1>>, <<"enet_1000base_t", 1>> >> \o Unread(4), \* 134
     Unread(8), Unread(8), Unread(8), Unread(8) >>                       \* 135-138

pm_qsfp_rate_select_t == << Unread(8) >>
pm_qsfp_device_tech_t == << Unread(4) \o Wide(4) >>
pm_qsfp_ib_compliance_t == << Unread(8) >>

\* ext_compliance_code is a whole unsigned char ahead of the bit-fields
pm_qsfp_options_t == << << <<"ext_compliance_code", 8>> >>, Unread(8), Unread(8), Unread(8) >>

\* one reserved bit too many ahead of the power-measurement bit
pm_qsfp_diag_monitoring_type_t_shifted ==
  << Unread(4) \o << <<"average_input_optical_power", 1>> >> \o Unread(3) >>

pm_qsfp_diag_monitoring_type_t ==
  << Unread(3) \o << <<"average_input_optical_power", 1>> >> \o Unread(4) >>

pm_qsfp_enhanced_options_t == << Unread(8) >>

(***************************************************************************)
(* The two serial-ID structs.                                              *)
(***************************************************************************)
Byte(m) == <<m, 1, 1>>
\* an array of n unsigned char, or pm_date_code_t (four two-char arrays)
Bytes(m, n) == <<m, n, 1>>
BitFields(m, fs) == <<m, BitFieldSize(fs), 1>>
UShort(m) == <<m, 2, 2>>

pm_sfp_serial_id_t ==
  << Byte("identifier"), Byte("ext_identifier"), Byte("connector"),
     BitFields("transceiver", pm_sfp_serial_id_transceiver_t),
     Byte("encoding"), Byte("bit_rate_nominal"), Byte("rate_identifier"),
     Byte("length_smf_9um_in_km"), Byte("length_smf_9um_in_100m"),
     Byte("length_mmf_50um_om2"), Byte("length_mmf_62_5um_om1"),
     Byte("length_copper"), Byte("length_mmf_50um_om3"),
     Bytes("vendor_name", PM_VENDOR_NAME_LEN), Byte("transceiver_2"),
     Bytes("vendor_oui", PM_VENDOR_OUI_LEN),
     Bytes("vendor_part_number", PM_VENDOR_PN_LEN),
     Bytes("vendor_revision", PM_SFP_VENDOR_REV_LEN),
     UShort("laser_wavelength"), Byte("reserved_3"), Byte("check_code_for_base"),
     BitFields("options", pm_sfp_options_t),
     Byte("bit_rate_max_margin"), Byte("bit_rate_min_margin"),
     Bytes("vendor_serial_number", PM_VENDOR_SN_LEN),
     Bytes("vendor_date_code", 8),
     BitFields("diag_monitor_type", pm_sfp_diag_monitoring_type_t),
     BitFields("enhanced_options", pm_sfp_enhanced_options_t),
     Byte("sff8472_compliance"), Byte("check_code_for_extended"),
     Bytes("vendor_area", PM_SERIAL_ID_VENDOR_AREA_LEN) >>

pm_qsfp_serial_id_t ==
  << Byte("identifier"),
     BitFields("ext_identifier", pm_qsfp_ext_indentifier_t), Byte("connector"),
     BitFields("spec_compliance", pm_qsfp_spec_compliance_t),
     Byte("encoding"), Byte("bit_rate_nominal"),
     BitFields("rate_select", pm_qsfp_rate_select_t),
     Byte("length_smf_in_km"), Byte("length_om3_in_2m"), Byte("length_om2_in_m"),
     Byte("length_om1_in_m"), Byte("length_copper_in_m"),
     BitFields("device_tech", pm_qsfp_device_tech_t),
     Bytes("vendor_name", PM_VENDOR_NAME_LEN),
     BitFields("ib_compliance", pm_qsfp_ib_compliance_t),
     Bytes("vendor_oui", PM_VENDOR_OUI_LEN),
     Bytes("vendor_part_number", PM_VENDOR_PN_LEN),
     Bytes("vendor_revision", PM_QSFP_VENDOR_REV_LEN),
     UShort("wavelength"), UShort("wavelength_tolerance"),
     Byte("max_case_temperature"), Byte("check_code_for_base"),
     BitFields("options", pm_qsfp_options_t),
     Bytes("vendor_serial_number", PM_VENDOR_SN_LEN),
     Bytes("vendor_date_code", 8),
     BitFields("diag_monitor_type", pm_qsfp_diag_monitoring_type_t),
     BitFields("enhanced_options", pm_qsfp_enhanced_options_t),
     Byte("reserved_222"), Byte("check_code_for_extended"),
     Bytes("vendor_area", PM_SERIAL_ID_VENDOR_AREA_LEN) >>

\* offset of each member: the end of the one before it, rounded up to its alignment
MemberStart(st) ==
  LET at[i \in 1..Len(st)] ==
        IF i = 1 THEN 0 ELSE RoundUp(at[i - 1] + st[i - 1][2], st[i][3])
  IN  at

\* sizeof: the end of the last member, rounded up to the largest alignment
SizeOf(st) ==
  RoundUp(MemberStart(st)[Len(st)] + st[Len(st)][2],
          Max({st[i][3] : i \in 1..Len(st)}))

\* byte offset of member m on the module: where the read starts plus its offset
At(base, st, m) ==
  base + MemberStart(st)[CHOOSE i \in 1..Len(st) : st[i][1] = m]

\* module byte and bit of bit-field f of member m
BitAtModule(base, st, m, fs, f) ==
  <<At(base, st, m) + BitOf(fs, f)[1], BitOf(fs, f)[2]>>

\* where pm_read_module_state reads the identity page for a port's connector
\* ("OTHER" is refused before any read), and the struct pm_parse and
\* set_a2_read_request see it through
SerialIdOffset(connector) ==
  IF connector = "SFP_PLUS" THEN SFP_SERIAL_ID_OFFSET ELSE QSFP_SERIAL_ID_OFFSET

SerialIdStruct(connector) ==
  IF connector = "SFP_PLUS" THEN pm_sfp_serial_id_t ELSE pm_qsfp_serial_id_t

\* the bit-field structs each serial-ID struct embeds
SerialIdBitFields(connector) ==
  IF connector = "SFP_PLUS"
  THEN {pm_sfp_serial_id_transceiver_t, pm_sfp_options_t,
        pm_sfp_diag_monitoring_type_t, pm_sfp_enhanced_options_t}
  ELSE {pm_qsfp_ext_indentifier_t, pm_qsfp_spec_compliance_t, pm_qsfp_rate_select_t,
        pm_qsfp_device_tech_t, pm_qsfp_ib_compliance_t, pm_qsfp_options_t,
        pm_qsfp_diag_monitoring_type_t, pm_qsfp_enhanced_options_t}

\* the byte ranges sfpp_sum_verify passes to pm_byte_sum: <<first, last, check>>
SumVerifyRegions == << <<0, 62, 63>>, <<64, 94, 95>> >>

====
