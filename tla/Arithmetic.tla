----------------------------- MODULE Arithmetic -----------------------------
(***************************************************************************)
(* The calculations of the driver whose results depend on the width of a   *)
(* register, an integer or a table: the divisor of setControllerClock, the *)
(* capacity of an MMC in parseCSD, and the list of ADMA2 descriptors that  *)
(* prepareAsyncDataTransfer builds.  Each comes with what it stands for in *)
(* exact arithmetic.  A Bug_X is X with a plausible mistake.               *)
(***************************************************************************)
EXTENDS Naturals, Sequences

MHz == 1000000

------------------------------------------------------------------------------
(* The clock.  The base clock in the capabilities register is a number of  *)
(* MHz, of eight bits from controllers of version 3 on, six bits before.   *)
BaseClock(ver3, field) == MHz * (IF ver3 THEN field ELSE field % 64)

(* clockDiv starts at 1 and is doubled while the clock is too fast.        *)
Divisors == {2 ^ k : k \in 0..30}

ClockDiv(baseClock, speedHz) ==
  CHOOSE d \in Divisors :
    /\ baseClock \div d <= speedHz
    /\ \A e \in Divisors : e < d => baseClock \div e > speedHz

(* newClockDiv: the low eight bits of the divisor go to bits 8 to 15 of the*)
(* Clock Control register, the next two to bits 6 and 7.                   *)
Bug_NewClockDiv(clockDiv) == (clockDiv % 256) * 256

NewClockDiv(clockDiv) ==
  (clockDiv % 256) * 256 + ((clockDiv \div 256) % 4) * 64

(* What the controller makes of the register: it divides the base clock by *)
(* twice the number N in it, or not at all if N is 0; controllers before   *)
(* version 3 do not have the upper two bits of N.                          *)
SDClock(ver3, baseClock, register) ==
  LET low  == register \div 256
      high == (register \div 64) % 4
      N    == IF ver3 THEN high * 256 + low ELSE low
  IN IF N = 0 THEN baseClock ELSE baseClock \div (2 * N)

setControllerClock(ver3, field, speedHz) ==
  NewClockDiv(ClockDiv(BaseClock(ver3, field), speedHz))

(* The divisor fits into the register: base clocks of up to 204 MHz at the *)
(* lowest speed, and up to 51 MHz on controllers before version 3.         *)
DivisorFits(ver3, field) ==
  BaseClock(ver3, field) <= (IF ver3 THEN 204 ELSE 51) * MHz

------------------------------------------------------------------------------
(* The capacity of an MMC.  calcPower doubles a 16-bit number, and the     *)
(* product of the three fields is taken in 32 bits: in blocks of 512 bytes *)
(* that leaves 23 bits.  The product of a 16-bit power and the first factor*)
(* fits.                                                                   *)
calcPower(exp) == (2 ^ exp) % 2 ^ 16

Bug_CardBlockCount(cSize, cSizeMultiplier, readBLLength) ==
  (cSize * calcPower(cSizeMultiplier + 2) * (calcPower(readBLLength) \div 512)) % 2 ^ 23

CardBlockCount(cSize, cSizeMultiplier, readBLLength) ==
  ((cSize + 1) * calcPower(cSizeMultiplier + 2) * (calcPower(readBLLength) \div 512))
    % 2 ^ 23

(* C_SIZE + 1 units of 2 ^ (C_SIZE_MULT + 2) blocks of 2 ^ READ_BL_LEN     *)
(* bytes, READ_BL_LEN being 9, 10 or 11.                                   *)
ExactBlockCount(cSize, cSizeMultiplier, readBLLength) ==
  (cSize + 1) * 2 ^ (cSizeMultiplier + 2 + readBLLength - 9)

------------------------------------------------------------------------------
(* The ADMA2 descriptors.  gen32IOVMSegments cuts the buffer at the        *)
(* boundaries of pages, of which the first may be entered in the middle, at*)
(* head; from the segment failed on, if there is one, it fails.            *)
kSDABlockSize == 512

PageSize == 4096

kSDAMaxBlocksPerTransfer == 61440

Bug_NumADMA2Descriptors == (kSDAMaxBlocksPerTransfer * kSDABlockSize) \div PageSize - 1

NumADMA2Descriptors == (kSDAMaxBlocksPerTransfer * kSDABlockSize) \div PageSize

Segment(head, bytes, i) ==
  LET from == IF i = 1 THEN 0 ELSE (i - 1) * PageSize - head
      to   == IF i * PageSize - head < bytes THEN i * PageSize - head ELSE bytes
  IN [offset |-> from, length |-> to - from, end |-> to >= bytes]

(* The descriptors written: all that there are segments for, or room, or   *)
(* those before the failure.                                               *)
Descriptors(head, blockCount, failed) ==
  LET bytes    == blockCount * kSDABlockSize
      segments == (head + bytes + PageSize - 1) \div PageSize
      Least(a, b) == IF a < b THEN a ELSE b
  IN [i \in 1..Least(Least(segments, NumADMA2Descriptors), failed - 1)
        |-> Segment(head, bytes, i)]
=============================================================================
