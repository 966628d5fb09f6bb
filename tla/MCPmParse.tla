----------------------------- MODULE MCPmParse -----------------------------
(***************************************************************************)
(* pm_parse and sfpp_sum_verify checked, page by page, against spec        *)
(* sections 4.1 and 4.2: the classification (a priority-ordered list of   *)
(* capability predicates, first match wins, else Unknown), the vendor     *)
(* columns and the two checksum bytes; and pm_set_a2 against the decode   *)
(* contract of section 4.4 with the byte and bit positions of the          *)
(* SFF-8472 (SFP+ A2) and SFF-8636 (QSFP lower page) diagnostic maps.     *)
(* The state is one page record; it never changes, so the check is a      *)
(* sweep over the input space.                                             *)
(***************************************************************************)
EXTENDS Naturals, Sequences, FiniteSets, PmParse, PmChecksum, PmDomDecode,
        PmSerialId

CONSTANTS AsBuilt, ByteValues
LOCAL INSTANCE Functions

\* the compliance bits the classifiers test, plus the extended-compliance bit
TestedBits ==
  {"enet_1000base_sx", "enet_1000base_t", "enet_10gbase_sr", "enet_10gbase_lr",
   "enet_10gbase_lrm", "enet_40gbase_lr4", "enet_40gbase_sr4",
   "enet_40gbase_cr4", "enet_extended"}

(***************************************************************************)
(* Vendor inputs.  The revision field is swept over every byte string of  *)
(* its QSFP width; the 16-byte fields over every text of up to three      *)
(* characters padded with spaces, as modules store them.  OUI octets are  *)
(* drawn from values on both sides of each hex-digit boundary.            *)
(***************************************************************************)
FieldChars == {"A", SPACE}

Padded(text, w) == text \o [i \in 1..(w - Len(text)) |-> SPACE]

PaddedFields ==
  {Padded(t, PM_VENDOR_NAME_LEN) : t \in UNION {[1..k -> FieldChars] : k \in 0..3}}

OuiSpace == {0, 9, 10, 15, 16, 171, 255} \X {0, 27} \X {0, 255}

(***************************************************************************)
(* The page space is four sweeps from one idle page: every combination of *)
(* the fields the classifiers read; every vendor input; every raw byte    *)
(* string of a short checksum layout (PmChecksum, regions shrunk to 2 and *)
(* 1 bytes, bytes chosen so that 128 + 128 and 255 + 1 wrap); and every   *)
(* port family with every diagnostics page in which one byte holds one    *)
(* bit pattern and every other byte is 0 (plus the all-zero page and the  *)
(* all-0xFF filler), so a field read from the wrong byte, the wrong half  *)
(* of a word or the wrong bit shows up as a column that differs from the *)
(* reference.  raw stands for the bytes sfpp_sum_verify adds, a2 for the  *)
(* diagnostics page and port for the port's connector; the other fields   *)
(* are the identity bytes as pm_parse reads them.  The properties about   *)
(* one part do not read the others, so the union covers each as the      *)
(* product would.                                                          *)
(***************************************************************************)
IdlePage ==
  [conn |-> 7, bits |-> {}, ext |-> 0, br |-> 100, diag |-> {}, copper |-> 0,
   vendor_name |-> Padded(<< "A" >>, PM_VENDOR_NAME_LEN),
   vendor_part_number |-> Padded(<< "A" >>, PM_VENDOR_PN_LEN),
   vendor_revision |-> << "A", "A" >>,
   vendor_serial_number |-> Padded(<< "A" >>, PM_VENDOR_SN_LEN),
   oui |-> << 0, 0, 0 >>,
   raw |-> [i \in 0..ExtCheck |-> 0],
   port |-> "SFP_PLUS", a2 |-> [o \in 0..127 |-> 0]]

ClassifierPages ==
  {[IdlePage EXCEPT !.conn = c, !.bits = b, !.ext = e, !.br = r] :
     c \in {7, PM_CONNECTOR_COPPER_PIGTAIL}, b \in SUBSET TestedBits,
     e \in {0, 2, 6}, r \in {99, 100}}

\* copper-pigtail pages: the cable bits, both sides of the 10G bit-rate
\* threshold and two cable lengths
CablePages ==
  {[IdlePage EXCEPT !.conn = PM_CONNECTOR_COPPER_PIGTAIL, !.bits = b, !.br = r,
                    !.copper = l] :
     b \in SUBSET {"cable_technology_active", "cable_technology_passive"},
     r \in {99, 100, 101}, l \in {0, 7}}

VendorPages ==
  {[IdlePage EXCEPT !.vendor_name = t, !.vendor_part_number = t,
                    !.vendor_revision = r, !.vendor_serial_number = t, !.oui = o] :
     t \in PaddedFields, r \in [1..PM_QSFP_VENDOR_REV_LEN -> FieldChars], o \in OuiSpace}

ChecksumPages ==
  {[IdlePage EXCEPT !.raw = b] : b \in [0..ExtCheck -> ByteValues]}

Connectors == {"SFP_PLUS", "QSFP_PLUS", "QSFP28", "OTHER"}

Patterns == {1, 2, 4, 8, 16, 32, 64, 128, 255}

HotPages ==
  {[o \in 0..127 |-> IF o = at THEN v ELSE 0] : at \in 0..127, v \in Patterns}
  \cup {[o \in 0..127 |-> 0], [o \in 0..127 |-> 255]}

DomPages == {[IdlePage EXCEPT !.port = c, !.a2 = hp] : c \in Connectors, hp \in HotPages}

PageSpace ==
  ClassifierPages \cup CablePages \cup VendorPages \cup ChecksumPages \cup DomPages

VARIABLE page

Init == page \in PageSpace
Next == UNCHANGED page
Spec == Init /\ [][Next]_page

(***************************************************************************)
(* The reference: the specification's predicate lists, evaluated on the    *)
(* page as read, walked recursively until one holds.                       *)
(***************************************************************************)
RECURSIVE FirstMatch(_, _)
FirstMatch(list, holds) ==
  IF list = << >> THEN "unknown"
  ELSE IF Head(list)[1] \in holds THEN Head(list)[2]
  ELSE FirstMatch(Tail(list), holds)

SpecSfp(pg) ==
  FirstMatch(<< <<"copper_pigtail", "SFP_DAC">>, <<"enet_1000base_sx", "SFP_SX">>,
                <<"enet_1000base_lx", "SFP_LX">>, <<"enet_1000base_cx", "SFP_CX">>,
                <<"enet_1000base_t", "SFP_RJ45">>, <<"enet_10gbase_sr", "SFP_SR">>,
                <<"enet_10gbase_lr", "SFP_LR">>, <<"enet_10gbase_lrm", "SFP_LRM">> >>,
             pg.bits \cup {f \in {"copper_pigtail"} : pg.conn = PM_CONNECTOR_COPPER_PIGTAIL})

SpecQsfp40(pg) ==
  FirstMatch(<< <<"enet_40gbase_lr4", "QSFP_LR4">>, <<"enet_40gbase_sr4", "QSFP_SR4">>,
                <<"enet_40gbase_cr4", "QSFP_CR4">> >>, pg.bits)

SpecQsfp28(pg) ==
  IF "enet_extended" \notin pg.bits THEN SpecQsfp40(pg)
  ELSE CASE pg.ext = 2 -> "QSFP28_SR4"  [] pg.ext = 3  -> "QSFP28_LR4"
         [] pg.ext = 6 -> "QSFP28_CWDM4" [] pg.ext = 7 -> "QSFP28_PSM4"
         [] pg.ext = 11 -> "QSFP28_CR4" [] pg.ext = 23 -> "QSFP28_CLR4"
         [] OTHER -> "unknown"

(***************************************************************************)
(* The QSFP+ and QSFP28 branches of pm_parse classify every page as the    *)
(* specification's predicate order does (the forced 10GBASE-SR bit of      *)
(* pm_detect.c:173 lies outside the bits those chains test).               *)
(***************************************************************************)
QsfpClassifyMatchesSpec ==
  /\ Classify("QSFP_PLUS", page, AsBuilt) = SpecQsfp40(page)
  /\ Classify("QSFP28", page, AsBuilt) = SpecQsfp28(page)

\* the specification's speeds, in Gb/s: 1000BASE-* at 1, 10GBASE-* at 10,
\* QSFP+ at 40, QSFP28 at 100, a DAC at 10 from a nominal rate of 0x64 up
SpecGbps(v, pg) ==
  CASE v \in {"SFP_SX", "SFP_LX", "SFP_CX", "SFP_RJ45"} -> 1
    [] v \in {"SFP_SR", "SFP_LR", "SFP_LRM"} -> 10
    [] v \in {"QSFP_LR4", "QSFP_SR4", "QSFP_CR4"} -> 40
    [] v = "SFP_DAC" -> IF pg.br >= 100 THEN 10 ELSE 1
    [] OTHER -> 100

(***************************************************************************)
(* For the variant pm_parse picks, the record carries the specification's  *)
(* speed (max_speed and the one-entry supported_speeds list, in Mb/s), the *)
(* status supported, and a cable technology exactly for a DAC, active when *)
(* its active bit is set and passive when only its passive bit is; an      *)
(* unclassified module is never reported supported.                       *)
(***************************************************************************)
ColumnsMatchSpec ==
  \A fam \in {"SFP_PLUS", "QSFP_PLUS", "QSFP28"} :
    LET v    == Classify(fam, page, AsBuilt)
        cols == ModuleColumns(fam, page, AsBuilt)
        tech == page.bits \cap {"cable_technology_active", "cable_technology_passive"}
    IN  /\ v = "unknown" => cols.connector_status # "supported"
        /\ v # "unknown" =>
             /\ cols.connector_status = "supported"
             /\ cols.max_speed = ToString(1000 * SpecGbps(v, page))
             /\ cols.supported_speeds = cols.max_speed
        /\ (v = "SFP_DAC") = (cols.cable_technology # "deleted")
        /\ v = "SFP_DAC" /\ "cable_technology_active" \in tech =>
             cols.cable_technology = "active"
        /\ v = "SFP_DAC" /\ tech = {"cable_technology_passive"} =>
             cols.cable_technology = "passive"

\* the specification's trim: drop space characters from the right
RECURSIVE SpecTrim(_)
SpecTrim(f) ==
  IF f /= << >> /\ f[Len(f)] = SPACE THEN SpecTrim(SubSeq(f, 1, Len(f) - 1))
  ELSE f

\* s reads as the octets o in "xx-xx-xx" form, lowercase hex digits
DigitValue(c) ==
  CHOOSE d \in 0..15 : << "0", "1", "2", "3", "4", "5", "6", "7", "8", "9",
                          "a", "b", "c", "d", "e", "f" >>[d + 1] = c

SpecOui(s, o) ==
  /\ Len(s) = 8
  /\ s[3] = "-" /\ s[6] = "-"
  /\ \A k \in 1..3 : 16 * DigitValue(s[3 * k - 2]) + DigitValue(s[3 * k - 1]) = o[k]

(***************************************************************************)
(* The vendor_oui column of the QSFP+ and QSFP28 branches reads back as    *)
(* the page's three OUI octets, written as the specification's            *)
(* "xx-xx-xx": pm_oui_format's 9-byte buffer must hold all eight           *)
(* characters of the snprintf output and its NUL.                          *)
(***************************************************************************)
OuiFormatMatchesSpec == SpecOui(pm_oui_format(page.oui), page.oui)

(***************************************************************************)
(* Every vendor ASCII column pm_parse publishes is the page field          *)
(* right-trimmed of its trailing spaces only (spec section 4.2), for       *)
(* every family.                                                           *)
(***************************************************************************)
VendorMatchesSpec ==
  \A fam \in {"SFP_PLUS", "QSFP_PLUS", "QSFP28"} :
    \A col \in DOMAIN VendorWidth(fam) :
      VendorColumn(fam, page[col], col) = SpecTrim(page[col])

\* the specification's region sum: the integer total taken modulo 256
RegionSum(pg, lo, hi) ==
  LET total[i \in lo..(hi + 1)] ==
        IF i = lo THEN 0 ELSE total[i - 1] + pg[i - 1]
  IN total[hi + 1] % 256

SpecBaseOk(pg) == RegionSum(pg, 0, BaseEnd) = pg[BaseCheck]
SpecExtOk(pg)  == RegionSum(pg, ExtStart, ExtEnd) = pg[ExtCheck]

(***************************************************************************)
(* sfpp_sum_verify accepts a page exactly when both of its checksum bytes  *)
(* equal the modulo-256 sum of their regions: pm_byte_sum's unsigned-char *)
(* accumulator must wrap the way the contract's modulo does.               *)
(***************************************************************************)
ChecksumMatchesSpec ==
  (sfpp_sum_verify(page.raw) = 0) <=> (SpecBaseOk(page.raw) /\ SpecExtOk(page.raw))

(***************************************************************************)
(* The SFP+ branch of pm_parse classifies every page as the                *)
(* specification's priority list does: a 10GBASE-LR module is SFP_LR.      *)
(***************************************************************************)
SfpClassifyMatchesSpec ==
  Classify("SFP_PLUS", page, AsBuilt) = SpecSfp(page)

(***************************************************************************)
(* pm_parse meets the contract of spec section 4.2 for every family: the   *)
(* classification and the vendor columns are those the specification      *)
(* derives from the page.                                                 *)
(***************************************************************************)
ParseMatchesSpec ==
  /\ QsfpClassifyMatchesSpec
  /\ SfpClassifyMatchesSpec
  /\ VendorMatchesSpec

(***************************************************************************)
(* The reference diagnostics decode.                                       *)
(***************************************************************************)
SignedByte(b) == IF b >= 128 THEN b - 256 ELSE b
Bit(b, n) == (b \div (2 ^ n)) % 2 = 1
Word16(pg, at) == pg[at] * 256 + pg[at + 1]

\* temperature: signed whole degrees and 1/256 fraction, kept apart
SpecTemp(pg, at) == [whole |-> SignedByte(pg[at]), frac |-> pg[at + 1]]

SpecNumeric(pg, m, at) ==
  IF m = "temperature" THEN SpecTemp(pg, at) ELSE Word16(pg, at) * ScaleOf(m)

\* SFF-8472 A2: thresholds 0-39 (temp, vcc, bias, tx power, rx power;
\* high alarm, low alarm, high warning, low warning), values 96-105
SffSfpOrder == <<"temperature", "vcc", "tx_bias", "tx_power", "rx_power">>
SffIndex(m) == CHOOSE i \in 1..5 : SffSfpOrder[i] = m

\* flags: alarms in 112-113, warnings in 116-117; high then low bit
SffSfpFlag(m, k) ==
  LET warn == k \in {"high_warning", "low_warning"}
      high == k \in {"high_alarm", "high_warning"}
      rx   == m = "rx_power"
      byte == (IF warn THEN 116 ELSE 112) + (IF rx THEN 1 ELSE 0)
      hi   == IF rx THEN 7 ELSE 9 - 2 * SffIndex(m)
  IN <<byte, IF high THEN hi ELSE hi - 1>>

SpecSfpDom(pg) ==
  [c \in SfpColumns |->
     LET m == c[1] IN
     CASE c[2] = "value" -> SpecNumeric(pg, m, 94 + 2 * SffIndex(m))
       [] c[2] \in Range(Kinds) ->
            LET bb == SffSfpFlag(m, c[2]) IN Bit(pg[bb[1]], bb[2])
       [] OTHER ->
            LET k == CHOOSE i \in 1..4 : Thresholds[i] = c[2]
            IN  SpecNumeric(pg, m, 8 * (SffIndex(m) - 1) + 2 * (k - 1))]

\* SFF-8636: temperature 22, Vcc 26, rx power 34-41, tx bias 42-49; lane
\* flags in 9-10 (rx) and 11-12 (tx), odd lane in bits 7-4, even in 3-0,
\* each nibble high alarm, low alarm, high warning, low warning from the top
SffLane(m) == CHOOSE n \in Lanes : m \in {LaneMetric("tx", n), LaneMetric("rx", n)}
SffIsTx(m) == \E n \in Lanes : m = LaneMetric("tx", n)

SpecQsfpDom(pg) ==
  [c \in QsfpColumns |->
     LET m == c[1] IN
     CASE m = "temperature" -> SpecNumeric(pg, m, 22)
       [] m = "vcc" -> SpecNumeric(pg, m, 26)
       [] c[2] = "value" ->
            SpecNumeric(pg, m, (IF SffIsTx(m) THEN 42 ELSE 34) + 2 * (SffLane(m) - 1))
       [] OTHER ->
            LET n    == SffLane(m)
                byte == (IF SffIsTx(m) THEN 11 ELSE 9) + (n - 1) \div 2
                top  == IF n % 2 = 1 THEN 7 ELSE 3
                k    == CHOOSE i \in 1..4 : Kinds[i] = c[2]
            IN  Bit(pg[byte], top - (k - 1))]

SpecDom(conn, pg) ==
  CASE conn = "SFP_PLUS" -> SpecSfpDom(pg)
    [] conn \in {"QSFP_PLUS", "QSFP28"} -> SpecQsfpDom(pg)
    [] OTHER -> << >>

Out == pm_set_a2(page.port, page.a2).columns
Ref == SpecDom(page.port, page.a2)
TempColumns == {c \in DOMAIN Ref : c[1] = "temperature" /\ c[2] \notin Range(Kinds)}

(***************************************************************************)
(* pm_set_a2 writes exactly the DOM columns the contract defines for the   *)
(* port's family (for QSFP no threshold), and every one of them other than *)
(* the temperature ones holds the value the SFF map gives: the struct      *)
(* layouts of pm_dom.h put every field at its documented byte, words are   *)
(* big-endian with the right scale, flags come from the right bit.        *)
(***************************************************************************)
DomDecodeMatchesSpec ==
  /\ DOMAIN Out = DOMAIN Ref
  /\ \A c \in DOMAIN Ref \ TempColumns : Out[c] = Ref[c]

(***************************************************************************)
(* The whole-degree part of every decoded temperature (value and SFP+      *)
(* thresholds) is the signed msb: a module at -1 degree C is not reported *)
(* at 255 degrees.  It rests on "char" fields of pm_dom.h being signed.    *)
(***************************************************************************)
TemperatureSignMatchesSpec ==
  \A c \in TempColumns : Out[c] \div 256 = Ref[c].whole

(***************************************************************************)
(* Every decoded temperature is the signed msb plus lsb/256 degrees, the   *)
(* spec's "signed 8-bit integer part + unsigned fractional byte/256".      *)
(***************************************************************************)
TemperatureMatchesSpec ==
  \A c \in TempColumns : Out[c] = Ref[c].whole * 256 + Ref[c].frac
(***************************************************************************)
(* The identity-page maps of SFF-8472 (A0h, bytes 0-127) and SFF-8636      *)
(* (upper page 00h, bytes 128-255): the module byte of every field the    *)
(* code reads, and <<byte, bit>> of every compliance and diagnostics bit   *)
(* it tests, with the struct member holding it.                            *)
(***************************************************************************)
SffSfpByte ==
  [connector |-> 2, bit_rate_nominal |-> 12, length_copper |-> 18,
   vendor_name |-> 20, vendor_oui |-> 37, vendor_part_number |-> 40,
   vendor_revision |-> 56, check_code_for_base |-> 63, options |-> 64,
   vendor_serial_number |-> 68, check_code_for_extended |-> 95]

SffSfpBit ==
  { <<"transceiver", pm_sfp_serial_id_transceiver_t, "enet_10gbase_sr", 3, 4>>,
    <<"transceiver", pm_sfp_serial_id_transceiver_t, "enet_10gbase_lr", 3, 5>>,
    <<"transceiver", pm_sfp_serial_id_transceiver_t, "enet_10gbase_lrm", 3, 6>>,
    <<"transceiver", pm_sfp_serial_id_transceiver_t, "enet_1000base_sx", 6, 0>>,
    <<"transceiver", pm_sfp_serial_id_transceiver_t, "enet_1000base_lx", 6, 1>>,
    <<"transceiver", pm_sfp_serial_id_transceiver_t, "enet_1000base_cx", 6, 2>>,
    <<"transceiver", pm_sfp_serial_id_transceiver_t, "enet_1000base_t", 6, 3>>,
    <<"transceiver", pm_sfp_serial_id_transceiver_t, "cable_technology_passive", 8, 2>>,
    <<"transceiver", pm_sfp_serial_id_transceiver_t, "cable_technology_active", 8, 3>>,
    <<"diag_monitor_type", pm_sfp_diag_monitoring_type_t, "addr_change_required", 92, 2>>,
    <<"diag_monitor_type", pm_sfp_diag_monitoring_type_t, "power_measurement_type", 92, 3>>,
    <<"diag_monitor_type", pm_sfp_diag_monitoring_type_t, "internally_calibrated", 92, 5>>,
    <<"diag_monitor_type", pm_sfp_diag_monitoring_type_t, "implemented_digital", 92, 6>> }

SffQsfpByte ==
  [connector |-> 130, bit_rate_nominal |-> 140, vendor_name |-> 148,
   vendor_oui |-> 165, vendor_part_number |-> 168, vendor_revision |-> 184,
   check_code_for_base |-> 191, options |-> 192, vendor_serial_number |-> 196,
   check_code_for_extended |-> 223]

SffQsfpBit ==
  { <<"spec_compliance", pm_qsfp_spec_compliance_t, "enet_40gbase_lr4", 131, 1>>,
    <<"spec_compliance", pm_qsfp_spec_compliance_t, "enet_40gbase_sr4", 131, 2>>,
    <<"spec_compliance", pm_qsfp_spec_compliance_t, "enet_40gbase_cr4", 131, 3>>,
    <<"spec_compliance", pm_qsfp_spec_compliance_t, "enet_extended", 131, 7>>,
    <<"options", pm_qsfp_options_t, "ext_compliance_code", 192, 0>>,
    <<"diag_monitor_type", pm_qsfp_diag_monitoring_type_t,
      "average_input_optical_power", 220, 3>> }

\* a struct read at base agrees with an SFF map, and sfpp_sum_verify's
\* regions are the map's two check-code regions seen from base
LayoutMatches(base, st, fields, bytes, bits) ==
  /\ \A fs \in fields : FillsBytes(fs)
  /\ SizeOf(st) = 128
  /\ \A f \in DOMAIN bytes : At(base, st, f) = bytes[f]
  /\ \A b \in bits : BitAtModule(base, st, b[1], b[2], b[3]) = <<b[4], b[5]>>
  /\ base + SumVerifyRegions[1][3] = bytes.check_code_for_base
  /\ base + SumVerifyRegions[2][1] = bytes.options
  /\ base + SumVerifyRegions[2][3] = bytes.check_code_for_extended
  /\ SumVerifyRegions[1][2] + 1 = SumVerifyRegions[1][3]
  /\ SumVerifyRegions[2][2] + 1 = SumVerifyRegions[2][3]

SffByte(c) == IF c = "SFP_PLUS" THEN SffSfpByte ELSE SffQsfpByte
SffBit(c) == IF c = "SFP_PLUS" THEN SffSfpBit ELSE SffQsfpBit

\* the agreement for every pluggable connector, computed once
LayoutAgrees ==
  [c \in Families \ {"OTHER"} |->
     LayoutMatches(SerialIdOffset(c), SerialIdStruct(c), SerialIdBitFields(c),
                   SffByte(c), SffBit(c))]

(***************************************************************************)
(* The plug.h serial-ID structs, as the build lays them out, put every     *)
(* field and bit pm_parse, set_a2_read_request and sfpp_sum_verify read at *)
(* the byte and bit of SFF-8472 (SFP+, read at 0) and SFF-8636 (QSFP       *)
(* family, read at 128 into the same buffer and cast): for the page of    *)
(* every pluggable connector, the offset plug.c reads at and the struct   *)
(* pm_detect.c casts to agree with the standard; both structs fill        *)
(* exactly the 128 bytes read, and the checksum regions are the standard's.*)
(***************************************************************************)
SerialIdLayoutMatchesSff ==
  page.port \in DOMAIN LayoutAgrees => LayoutAgrees[page.port]
=============================================================================
