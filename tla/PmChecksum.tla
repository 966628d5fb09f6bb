----------------------------- MODULE PmChecksum -----------------------------
(***************************************************************************)
(* The identity-page checksum of src/src/pm_detect.c: pm_byte_sum adds the *)
(* bytes of a region into an unsigned char and compares the result with    *)
(* the check byte; sfpp_sum_verify adds the verdicts of the base region    *)
(* (bytes 0..62 against 63) and the extended region (64..94 against 95).   *)
(*                                                                         *)
(* A page is a function from byte offsets (C indexing, from 0) to bytes.   *)
(* The region bounds are constants so that a model can use a short page;   *)
(* the code's values are BaseEnd = 62, BaseCheck = 63, ExtStart = 64,      *)
(* ExtEnd = 94, ExtCheck = 95.                                             *)
(***************************************************************************)
EXTENDS Naturals

CONSTANTS BaseEnd, BaseCheck, ExtStart, ExtEnd, ExtCheck

ASSUME /\ BaseEnd < BaseCheck /\ BaseCheck < ExtStart
       /\ ExtStart <= ExtEnd /\ ExtEnd < ExtCheck

\* "unsigned char value": every addition wraps modulo 2^8
UCharAdd(value, b) == (value + b) % 256

\* a loop whose accumulator is an int: the sum never wraps
RECURSIVE SumLoopWide(_, _, _, _)
SumLoopWide(block, idx, end, value) ==
  IF idx > end THEN value
  ELSE SumLoopWide(block, idx + 1, end, value + block[idx])

\* the loop "for (idx = start; idx <= end; idx++) value += block[idx]"
RECURSIVE SumLoop(_, _, _, _)
SumLoop(block, idx, end, value) ==
  IF idx > end THEN value
  ELSE SumLoop(block, idx + 1, end, UCharAdd(value, block[idx]))

\* 1 when the region sum differs from the check byte, else 0
pm_byte_sum(block, start, end, offset) ==
  IF SumLoop(block, start, end, 0) # block[offset] THEN 1 ELSE 0

\* 0 when both regions verify; 1 or 2 otherwise
sfpp_sum_verify(page) ==
  pm_byte_sum(page, 0, BaseEnd, BaseCheck)
    + pm_byte_sum(page, ExtStart, ExtEnd, ExtCheck)
=============================================================================
