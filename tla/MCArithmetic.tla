---------------------------- MODULE MCArithmetic ----------------------------
(***************************************************************************)
(* Arithmetic over the inputs that the hardware and the callers can give:  *)
(* every base clock of a capabilities register with every speed the driver *)
(* asks for, every shape of an MMC's CSD, transfers around the boundaries  *)
(* of a page and of the longest transfer.  Each input is a state.          *)
(***************************************************************************)
EXTENDS Arithmetic

CONSTANTS CSizes,         \* C_SIZE fields considered
          BlockCounts     \* lengths of a transfer in blocks

ASSUME InputsAssumption ==
  /\ CSizes \subseteq 0..4095
  /\ BlockCounts \subseteq 1..kSDAMaxBlocksPerTransfer

VARIABLE input

(* 400 kHz, 20 MHz, 26 MHz and 200 MHz                                     *)
Speeds == {400000, 20 * MHz, 26 * MHz, 200 * MHz}

ClockInput == [calc : {"clock"}, ver3 : BOOLEAN, field : 1..255, speedHz : Speeds]

CSDInput == [calc : {"csd"}, cSize : CSizes, mult : 0..7, bl : 9..11]

DMAInput == [calc : {"dma"}, count : BlockCounts, failed : {3, 10000}]

Init == input \in ClockInput \cup CSDInput \cup DMAInput

(* The driver calculates once; the inputs stay.                            *)
Next == UNCHANGED input

Spec == Init /\ [][Next]_input
------------------------------------------------------------------------------
(* The card clock is never faster than asked for, which a card in its      *)
(* identification would not survive, and never slower than a quarter of it *)
(* (or of the base clock, if that is slower).                              *)
ClockWithinRequest ==
  input.calc = "clock" /\ DivisorFits(input.ver3, input.field) =>
    LET base  == BaseClock(input.ver3, input.field)
        clock == SDClock(input.ver3, base,
                         setControllerClock(input.ver3, input.field, input.speedHz))
    IN clock <= input.speedHz /\ (4 * (clock + 1) > input.speedHz \/ 2 * (clock + 1) > base)

(* The capacity of an MMC of less than 4 GiB is exact, whatever its fields.*)
CapacityIsExact ==
  input.calc = "csd" =>
    LET exact == ExactBlockCount(input.cSize, input.mult, input.bl)
    IN exact < 2 ^ 23 => CardBlockCount(input.cSize, input.mult, input.bl) = exact

(* The length field of a descriptor has 16 bits.                           *)
MaxLength == 65535

(* The descriptors of a buffer that starts on a page boundary describe all *)
(* of the transfer in order, the last one and no other is marked as the    *)
(* end, and each length fits its 16 bits; if a segment cannot be had, no   *)
(* descriptor is marked, so that a short list never passes for a whole one.*)
DescriptorsCoverTransfer ==
  input.calc = "dma" =>
    LET d     == Descriptors(0, input.count, input.failed)
        bytes == input.count * kSDABlockSize
        whole == input.failed > (bytes + PageSize - 1) \div PageSize
    IN /\ whole => d # <<>> /\ d[Len(d)].offset + d[Len(d)].length = bytes
       /\ \A i \in DOMAIN d :
            /\ d[i].length \in 1..MaxLength
            /\ d[i].offset = IF i = 1 THEN 0 ELSE d[i - 1].offset + d[i - 1].length
            /\ d[i].end <=> whole /\ i = Len(d)
=============================================================================
