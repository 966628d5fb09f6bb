------------------------------ MODULE PmParse ------------------------------
(***************************************************************************)
(* Module classification (pm_parse in src/src/pm_detect.c) and DOM         *)
(* eligibility (set_a2_read_request in src/src/pm_dom.c) as operators over *)
(* an identity page.                                                       *)
(*                                                                         *)
(* A page is abstracted to the fields these functions read:                *)
(*   conn : the connector byte (only 0x21, copper pigtail, is tested),     *)
(*   bits : the set of compliance bits that are set (plug.h field names),  *)
(*   ext  : the QSFP28 extended compliance code byte (plug.h 454-470),     *)
(*   br   : bit_rate_nominal, in units of 100 Mb/s,                        *)
(*   diag : the set of diagnostic-monitoring-type bits that are set.       *)
(*                                                                         *)
(* asBuilt selects the guards as compiled: in pm_detect.c several          *)
(* branches of the SFP+ chain carry "&& false" or "|| true".  With asBuilt *)
(* FALSE the operators evaluate the conditions the source writes before    *)
(* those suffixes.                                                         *)
(***************************************************************************)
EXTENDS Naturals, Sequences
LOCAL INSTANCE SequencesExt

\* connector family configured for a port (module_device->connector)
Families == {"SFP_PLUS", "QSFP_PLUS", "QSFP28", "OTHER"}

PM_CONNECTOR_COPPER_PIGTAIL == 33          \* 0x21, plug.h:39
SFP_BIT_RATE_NOMINAL_10G == 100            \* 0x64, pm_detect.c:40

(***************************************************************************)
(* The SFP+ predicate chain of pm_parse, in source order.  "built" records *)
(* what the compiled guard does: "test" evaluates the bit, "never" is a    *)
(* guard ending in "&& false", "always" one ending in "|| true".           *)
(***************************************************************************)
SfpChain ==
  << [test |-> "copper_pigtail",   variant |-> "SFP_DAC",  built |-> "never"],
     [test |-> "enet_1000base_sx", variant |-> "SFP_SX",   built |-> "never"],
     [test |-> "enet_1000base_lx", variant |-> "SFP_LX",   built |-> "never"],
     [test |-> "enet_1000base_cx", variant |-> "SFP_CX",   built |-> "never"],
     [test |-> "enet_1000base_t",  variant |-> "SFP_RJ45", built |-> "never"],
     [test |-> "enet_10gbase_sr",  variant |-> "SFP_SR",   built |-> "always"],
     [test |-> "enet_10gbase_lr",  variant |-> "SFP_LR",   built |-> "test"],
     [test |-> "enet_10gbase_lrm", variant |-> "SFP_LRM",  built |-> "test"] >>

\* QSFP+ chain (also the QSFP28 fallback when the extended bit is clear)
Qsfp40Chain ==
  << [test |-> "enet_40gbase_lr4", variant |-> "QSFP_LR4", built |-> "test"],
     [test |-> "enet_40gbase_sr4", variant |-> "QSFP_SR4", built |-> "test"],
     [test |-> "enet_40gbase_cr4", variant |-> "QSFP_CR4", built |-> "test"] >>

\* the QSFP28 switch on ext_compliance_code
Qsfp28ExtVariant ==
  [c \in {2, 3, 6, 7, 11, 23} |->
     CASE c = 2  -> "QSFP28_SR4"   [] c = 3  -> "QSFP28_LR4"
       [] c = 6  -> "QSFP28_CWDM4" [] c = 7  -> "QSFP28_PSM4"
       [] c = 11 -> "QSFP28_CR4"   [] c = 23 -> "QSFP28_CLR4"]

\* the bits the SFP+ chain tests: the compliance bits plus the connector test
SfpFlags(pg) ==
  pg.bits \cup (IF pg.conn = PM_CONNECTOR_COPPER_PIGTAIL
                THEN {"copper_pigtail"} ELSE {})

\* a chain entry fires on these flags under the compiled or written guard
Fires(e, flags, asBuilt) ==
  IF asBuilt /\ e.built = "never" THEN FALSE
  ELSE IF asBuilt /\ e.built = "always" THEN TRUE
  ELSE e.test \in flags

\* first-match-wins over a chain; "unknown" when nothing fires
FirstVariant(chain, flags, asBuilt) ==
  LET i == SelectInSeq(chain, LAMBDA e : Fires(e, flags, asBuilt))
  IN  IF i = 0 THEN "unknown" ELSE chain[i].variant

(***************************************************************************)
(* pm_parse writes enet_10gbase_sr = 1 into the page buffer before the     *)
(* switch (pm_detect.c:173), whatever the family and the build.            *)
(***************************************************************************)
ForceSr(pg) == [pg EXCEPT !.bits = @ \cup {"enet_10gbase_sr"}]

SfpClassify(pg, asBuilt) == FirstVariant(SfpChain, SfpFlags(ForceSr(pg)), asBuilt)

\* the code byte dispatched on without looking at the extended bit
Qsfp28ClassifyIgnoringExtBit(pg, asBuilt) ==
  IF pg.ext \in DOMAIN Qsfp28ExtVariant THEN Qsfp28ExtVariant[pg.ext]
  ELSE FirstVariant(Qsfp40Chain, pg.bits, asBuilt)

Qsfp28Classify(pg, asBuilt) ==
  IF "enet_extended" \in pg.bits
  THEN IF pg.ext \in DOMAIN Qsfp28ExtVariant THEN Qsfp28ExtVariant[pg.ext]
       ELSE "unknown"
  ELSE FirstVariant(Qsfp40Chain, pg.bits, asBuilt)

\* the connector value pm_parse sets for a page read on a port of family fam
Classify(fam, pg, asBuilt) ==
  CASE fam = "SFP_PLUS"  -> SfpClassify(pg, asBuilt)
    [] fam = "QSFP_PLUS" -> FirstVariant(Qsfp40Chain, ForceSr(pg).bits, asBuilt)
    [] fam = "QSFP28"    -> Qsfp28Classify(ForceSr(pg), asBuilt)
    [] OTHER             -> "unknown"

\* the variants for which pm_parse sets port->optical = true
OpticalVariants ==
  {"SFP_SX", "SFP_LX", "SFP_SR", "SFP_LR", "SFP_LRM", "QSFP_LR4", "QSFP_SR4",
   "QSFP28_SR4", "QSFP28_LR4", "QSFP28_CWDM4", "QSFP28_PSM4", "QSFP28_CLR4"}

(***************************************************************************)
(* The speed, status and cable columns each branch of pm_parse sets.  A   *)
(* column DELETEd by a branch (or by pm_delete_all_data) is "deleted".    *)
(* SET_INT_STRING comes from a header outside the repository; it is taken *)
(* to print the integer in decimal, as set_supported_speeds' "%d" does.   *)
(***************************************************************************)
\* the max_speed of each variant's branch (SET_INT_STRING), in Mb/s
VariantSpeed ==
  [v \in {"SFP_SX", "SFP_LX", "SFP_CX", "SFP_RJ45"} |-> 1000]
  @@ [v \in {"SFP_SR", "SFP_LR", "SFP_LRM"} |-> 10000]
  @@ [v \in {"QSFP_LR4", "QSFP_SR4", "QSFP_CR4"} |-> 40000]
  @@ [v \in Range(Qsfp28ExtVariant) |-> 100000]
  @@ ("unknown" :> 0)

\* the copper-pigtail branch: the speed from the nominal bit rate
DacSpeedLoose(pg) == IF pg.br > SFP_BIT_RATE_NOMINAL_10G THEN 10000 ELSE 1000

DacSpeed(pg) == IF pg.br >= SFP_BIT_RATE_NOMINAL_10G THEN 10000 ELSE 1000

\* cable_tech starts passive; the active bit is tested first
DacCableTechnology(pg) ==
  IF "cable_technology_active" \in pg.bits THEN "active" ELSE "passive"

\* asprintf("%s%s%d") per speed: the list so far, a space after the first
set_supported_speeds(speeds) ==
  FoldLeftDomain(LAMBDA acc, i : acc \o (IF i = 1 THEN "" ELSE " ") \o ToString(speeds[i]),
                 "", speeds)

\* the columns pm_parse leaves for a page read on a port of family fam
ModuleColumns(fam, pg, asBuilt) ==
  LET v     == Classify(fam, pg, asBuilt)
      dac   == v = "SFP_DAC"
      speed == IF dac THEN DacSpeed(pg) ELSE VariantSpeed[v]
  IN  IF fam \notin {"SFP_PLUS", "QSFP_PLUS", "QSFP28"}
      THEN [connector |-> v, connector_status |-> "deleted", max_speed |-> "deleted",
            supported_speeds |-> "deleted", cable_technology |-> "deleted",
            cable_length |-> "deleted"]
      ELSE [connector |-> v,
            connector_status |-> IF v = "unknown" THEN "unrecognized" ELSE "supported",
            max_speed |-> ToString(speed),
            supported_speeds |-> set_supported_speeds(<< speed >>),
            cable_technology |-> IF dac THEN DacCableTechnology(pg) ELSE "deleted",
            cable_length |-> IF dac THEN ToString(pg.copper) ELSE "deleted"]

(***************************************************************************)
(* set_a2_read_request: does the page say a diagnostics read is worth it?  *)
(***************************************************************************)
DomEligible(fam, pg) ==
  CASE fam = "SFP_PLUS" ->
         /\ {"implemented_digital", "internally_calibrated",
             "power_measurement_type"} \subseteq pg.diag
         /\ "addr_change_required" \notin pg.diag
    [] fam \in {"QSFP_PLUS", "QSFP28"} ->
         "average_input_optical_power" \in pg.diag
    [] OTHER -> FALSE

(***************************************************************************)
(* Vendor identity columns.  A fixed-width page field is a sequence of     *)
(* bytes; a byte is abstracted to SPACE (0x20, pm_detect.c:43) or a       *)
(* printable character other than space, and NUL stands for the 0 byte    *)
(* pm_parse writes as terminator and over stripped spaces.  SET_STRING     *)
(* publishes the C string, the bytes before the first NUL.                 *)
(***************************************************************************)
PM_VENDOR_NAME_LEN == 16                   \* plug.h:28-35
PM_VENDOR_OUI_LEN == 3
PM_VENDOR_PN_LEN == 16
PM_VENDOR_SN_LEN == 16
PM_SFP_VENDOR_REV_LEN == 4
PM_QSFP_VENDOR_REV_LEN == 2
SPACE == " "
NUL == "NUL"

\* the width memcpy'd for each column, per branch of pm_parse
VendorWidth(fam) ==
  [vendor_name |-> PM_VENDOR_NAME_LEN, vendor_part_number |-> PM_VENDOR_PN_LEN,
   vendor_revision |-> IF fam = "SFP_PLUS" THEN PM_SFP_VENDOR_REV_LEN
                       ELSE PM_QSFP_VENDOR_REV_LEN,
   vendor_serial_number |-> PM_VENDOR_SN_LEN]

\* the strip loop: idx (0-based) walks down from len - 1 while idx > 0 and
\* byte idx is a space, overwriting it with NUL; byte 0 is never examined
RECURSIVE StripTrailing(_, _)
StripTrailing(buf, idx) ==
  IF idx > 0 /\ buf[idx + 1] = SPACE
  THEN StripTrailing([buf EXCEPT ![idx + 1] = NUL], idx - 1)
  ELSE buf

\* the string SET_STRING reads from a NUL-terminated buffer
CString(buf) == SubSeq(buf, 1, SelectInSeq(buf, LAMBDA c : c = NUL) - 1)

\* memcpy of len bytes from src, buf[len] = 0, then the strip loop
CopyVendorField(src, len) ==
  CString(StripTrailing(SubSeq(src, 1, len) \o << NUL >>, len - 1))

(***************************************************************************)
(* The SFP+ branch copies from string literals, not from the page: the     *)
(* column names "vendor_name", "vendor_part_number", "rev" and            *)
(* "serial_number" (11, 18, 3 and 13 characters).  A literal is its text   *)
(* (bytes "L", which no page field supplies), its NUL, then whatever the   *)
(* build stores after it ("X"): memcpy reads past the shorter literals,    *)
(* but their NUL ends the C string before those bytes, and the 18-char     *)
(* literal fills its 16-byte width, so the column does not depend on them. *)
(***************************************************************************)
SfpLiteralLength ==
  [vendor_name |-> 11, vendor_part_number |-> 18, vendor_revision |-> 3,
   vendor_serial_number |-> 13]

LiteralBytes(n) ==
  [i \in 1..n |-> "L"] \o << NUL >> \o [i \in 1..PM_VENDOR_SN_LEN |-> "X"]

SfpVendorColumn(field, col) ==
  CopyVendorField(LiteralBytes(SfpLiteralLength[col]), VendorWidth("SFP_PLUS")[col])

QsfpVendorColumn(field, col) ==
  CopyVendorField(field, VendorWidth("QSFP_PLUS")[col])

\* the QSFP28 branch repeats the QSFP+ block on the same page layout
Qsfp28VendorColumn(field, col) == QsfpVendorColumn(field, col)

\* the value pm_parse publishes in column col for page field field
VendorColumn(fam, field, col) ==
  CASE fam = "SFP_PLUS"  -> SfpVendorColumn(field, col)
    [] fam = "QSFP_PLUS" -> QsfpVendorColumn(field, col)
    [] fam = "QSFP28"    -> Qsfp28VendorColumn(field, col)

(***************************************************************************)
(* pm_oui_format: snprintf(ascii_oui, PM_VENDOR_OUI_LEN*3, "%02x-%02x-%02x")*)
(* snprintf writes at most size - 1 characters and a NUL.                  *)
(***************************************************************************)
HexDigit == << "0", "1", "2", "3", "4", "5", "6", "7",
               "8", "9", "a", "b", "c", "d", "e", "f" >>

\* "%02x": two lowercase hex digits, high nibble first
Hex02(n) == << HexDigit[n \div 16 + 1], HexDigit[(n % 16) + 1] >>

Snprintf(size, text) ==
  SubSeq(text, 1, IF Len(text) < size - 1 THEN Len(text) ELSE size - 1)

\* the buffer sized for the eight characters, without room for the NUL
pm_oui_formatShortBuffer(oui) ==
  Snprintf(PM_VENDOR_OUI_LEN * 3 - 1,
           Hex02(oui[1]) \o << "-" >> \o Hex02(oui[2]) \o << "-" >> \o Hex02(oui[3]))

pm_oui_format(oui) ==
  Snprintf(PM_VENDOR_OUI_LEN * 3,
           Hex02(oui[1]) \o << "-" >> \o Hex02(oui[2]) \o << "-" >> \o Hex02(oui[3]))
=============================================================================
