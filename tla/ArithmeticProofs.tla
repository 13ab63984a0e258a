-------------------------- MODULE ArithmeticProofs --------------------------
(***************************************************************************)
(* Theorems about Arithmetic: the calculations are right for every card and*)
(* every transfer, not only for the inputs that the run samples.           *)
(***************************************************************************)
EXTENDS MCArithmetic, TLAPS

------------------------------------------------------------------------------
(* The capacity of an MMC.                                                 *)

(* The powers of two that a CSD can name.                                  *)
LEMMA Powers ==
  /\ 2 ^ 0 = 1 /\ 2 ^ 1 = 2 /\ 2 ^ 2 = 4 /\ 2 ^ 3 = 8 /\ 2 ^ 4 = 16 /\ 2 ^ 5 = 32
  /\ 2 ^ 6 = 64 /\ 2 ^ 7 = 128 /\ 2 ^ 8 = 256 /\ 2 ^ 9 = 512 /\ 2 ^ 10 = 1024
  /\ 2 ^ 11 = 2048
OBVIOUS

(* The powers that bound a 16-bit number and a capacity.                   *)
LEMMA Widths == 2 ^ 16 = 65536 /\ 2 ^ 23 = 8388608
BY SMT

(* p is the power of two with the exponent k.                              *)
IsPower(k, p) ==
  /\ k = 0 => p = 1
  /\ k = 1 => p = 2
  /\ k = 2 => p = 4
  /\ k = 3 => p = 8
  /\ k = 4 => p = 16
  /\ k = 5 => p = 32
  /\ k = 6 => p = 64
  /\ k = 7 => p = 128
  /\ k = 8 => p = 256
  /\ k = 9 => p = 512
  /\ k = 10 => p = 1024
  /\ k = 11 => p = 2048

(* Every power in the table is one.                                        *)
LEMMA PowerIs == \A k : IsPower(k, 2 ^ k)
<1> TAKE k
<1>1. PICK p : p = 2 ^ k
  OBVIOUS
<1>2. /\ k = 0 => p = 2 ^ 0
      /\ k = 1 => p = 2 ^ 1
      /\ k = 2 => p = 2 ^ 2
      /\ k = 3 => p = 2 ^ 3
      /\ k = 4 => p = 2 ^ 4
      /\ k = 5 => p = 2 ^ 5
      /\ k = 6 => p = 2 ^ 6
      /\ k = 7 => p = 2 ^ 7
      /\ k = 8 => p = 2 ^ 8
      /\ k = 9 => p = 2 ^ 9
      /\ k = 10 => p = 2 ^ 10
      /\ k = 11 => p = 2 ^ 11
  BY <1>1, Zenon
<1>3. IsPower(k, p)
  BY <1>2, Powers, SMT DEF IsPower
<1> QED BY <1>1, <1>3, Zenon

(* The powers multiply.                                                    *)
LEMMA PowerOfSum ==
  ASSUME NEW k \in 2..9, NEW j \in 0..2
  PROVE  2 ^ (k + j) = 2 ^ k * 2 ^ j
<1>1. ASSUME NEW a, NEW p, NEW q, IsPower(k + j, a), IsPower(k, p), IsPower(j, q)
      PROVE  a = p * q
  <2>1. k \in {2, 3, 4, 5, 6, 7, 8, 9} /\ j \in {0, 1, 2}
    OBVIOUS
  <2>2. CASE j = 0
    BY <1>1, <2>1, <2>2 DEF IsPower
  <2>3. CASE j = 1
    BY <1>1, <2>1, <2>3 DEF IsPower
  <2>4. CASE j = 2
    BY <1>1, <2>1, <2>4 DEF IsPower
  <2> QED BY <2>1, <2>2, <2>3, <2>4
<1> QED BY <1>1, PowerIs, Zenon

(* calcPower loses nothing of the factors of a CSD.                        *)
LEMMA Factors ==
  ASSUME NEW k \in 2..11
  PROVE  calcPower(k) = 2 ^ k /\ 2 ^ k \in Nat
<1>1. PICK p : p = 2 ^ k
  OBVIOUS
<1>2. IsPower(k, p)
  BY <1>1, PowerIs, Zenon
<1>3. p \in Nat
  BY <1>2 DEF IsPower
<1>4. p % 2 ^ 16 = p
  <2>1. p < 65536
    BY <1>2 DEF IsPower
  <2> QED BY <1>3, <2>1, Widths, SMT
<1> QED BY <1>1, <1>3, <1>4, Zenon DEF calcPower

(* The factor for the length of a block.                                   *)
LEMMA BlockFactor ==
  ASSUME NEW bl \in 9..11
  PROVE  calcPower(bl) \div 512 = 2 ^ (bl - 9) /\ 2 ^ (bl - 9) \in Nat
<1>1. PICK p : p = calcPower(bl)
  OBVIOUS
<1>2. PICK j : j = bl - 9
  OBVIOUS
<1>3. PICK q : q = 2 ^ j
  OBVIOUS
<1>4. calcPower(bl) = 2 ^ bl
  <2>1. bl \in 2..11
    OBVIOUS
  <2> QED BY <2>1, Factors
<1>5. IsPower(bl, p)
  BY <1>1, <1>4, PowerIs, Zenon
<1>6. IsPower(j, q)
  BY <1>3, PowerIs, Zenon
<1>7. p \div 512 = q /\ q \in Nat
  <2>1. bl \in {9, 10, 11}
    OBVIOUS
  <2>2. CASE bl = 9
    BY <1>2, <1>5, <1>6, <2>2 DEF IsPower
  <2>3. CASE bl = 10
    BY <1>2, <1>5, <1>6, <2>3 DEF IsPower
  <2>4. CASE bl = 11
    BY <1>2, <1>5, <1>6, <2>4 DEF IsPower
  <2> QED BY <2>1, <2>2, <2>3, <2>4
<1> QED BY <1>1, <1>2, <1>3, <1>7, Zenon

(* The 32 bits of CardBlockCount lose nothing of a capacity that fits.     *)
LEMMA CapacityExact ==
  ASSUME NEW cSize \in Nat, NEW mult \in 0..7, NEW bl \in 9..11,
         ExactBlockCount(cSize, mult, bl) < 2 ^ 23
  PROVE  CardBlockCount(cSize, mult, bl) = ExactBlockCount(cSize, mult, bl)
<1>1. PICK p : p = 2 ^ (mult + 2)
  OBVIOUS
<1>2. PICK b : b = 2 ^ (bl - 9)
  OBVIOUS
<1>3. mult + 2 + bl - 9 = (mult + 2) + (bl - 9) /\ mult + 2 \in 2..9 /\ bl - 9 \in 0..2
  OBVIOUS
<1>4. p = calcPower(mult + 2) /\ p \in Nat
  <2>1. mult + 2 \in 2..11
    OBVIOUS
  <2> QED BY <1>1, <2>1, Factors, Zenon
<1>5. b = calcPower(bl) \div 512 /\ b \in Nat
  BY <1>2, BlockFactor, Zenon
<1>6. 2 ^ (mult + 2 + bl - 9) = p * b
  <2>1. 2 ^ (mult + 2 + bl - 9) = 2 ^ ((mult + 2) + (bl - 9))
    BY <1>3, Zenon
  <2>2. 2 ^ ((mult + 2) + (bl - 9)) = 2 ^ (mult + 2) * 2 ^ (bl - 9)
    BY <1>3, PowerOfSum, Zenon
  <2> QED BY <1>1, <1>2, <2>1, <2>2, Zenon
<1>7. PICK n : n = (cSize + 1) * p * b
  OBVIOUS
<1>8. n \in Nat /\ n = (cSize + 1) * (p * b)
  BY <1>4, <1>5, <1>7
<1>9. ExactBlockCount(cSize, mult, bl) = n
  BY <1>6, <1>8, Zenon DEF ExactBlockCount
<1>10. CardBlockCount(cSize, mult, bl) = n % 2 ^ 23
  BY <1>4, <1>5, <1>7, Zenon DEF CardBlockCount
<1>11. n < 2 ^ 23
  BY <1>9, Zenon
<1>12. n % 2 ^ 23 = n
  BY <1>8, <1>11, Widths, SMT
<1> QED BY <1>9, <1>10, <1>12, Zenon

------------------------------------------------------------------------------
(* The clock.                                                              *)

(* The divisors that the Clock Control register can hold.                  *)
Small == {1, 2, 4, 8, 16, 32, 64, 128, 256, 512}

(* The greatest of them, which controllers before version 3 have less of.  *)
Greatest(ver3) == IF ver3 THEN 512 ELSE 128

(* The greater powers.                                                     *)
LEMMA GreaterPowers == \A k \in 12..30 : 2 ^ k \in Nat /\ 2 ^ k > 512
<1>1. ASSUME NEW k, NEW p, p = 2 ^ k
      PROVE  k \in 12..30 => p \in Nat /\ p > 512
  <2>1. /\ k = 12 => p = 2 ^ 12
        /\ k = 13 => p = 2 ^ 13
        /\ k = 14 => p = 2 ^ 14
        /\ k = 15 => p = 2 ^ 15
        /\ k = 16 => p = 2 ^ 16
        /\ k = 17 => p = 2 ^ 17
        /\ k = 18 => p = 2 ^ 18
        /\ k = 19 => p = 2 ^ 19
        /\ k = 20 => p = 2 ^ 20
        /\ k = 21 => p = 2 ^ 21
        /\ k = 22 => p = 2 ^ 22
        /\ k = 23 => p = 2 ^ 23
        /\ k = 24 => p = 2 ^ 24
        /\ k = 25 => p = 2 ^ 25
        /\ k = 26 => p = 2 ^ 26
        /\ k = 27 => p = 2 ^ 27
        /\ k = 28 => p = 2 ^ 28
        /\ k = 29 => p = 2 ^ 29
        /\ k = 30 => p = 2 ^ 30
    BY <1>1, Zenon
  <2> QED BY <2>1, SMT
<1> QED BY <1>1, Zenon

(* They are divisors, and every other divisor is greater.                  *)
LEMMA DivisorsAre ==
  Small \subseteq Divisors /\ \A e \in Divisors : e \in Nat /\ (e \in Small \/ e > 512)
<1>1. ASSUME NEW d \in Small
      PROVE  d \in Divisors
  <2>1. \E k \in 0..30 : d = 2 ^ k
    <3>1. d \in {2 ^ 0, 2 ^ 1, 2 ^ 2, 2 ^ 3, 2 ^ 4, 2 ^ 5, 2 ^ 6, 2 ^ 7, 2 ^ 8, 2 ^ 9}
      BY Powers, SMT DEF Small
    <3>2. {0, 1, 2, 3, 4, 5, 6, 7, 8, 9} \subseteq 0..30
      BY SMT
    <3> QED BY <3>1, <3>2, Zenon
  <2> QED BY <2>1, Zenon DEF Divisors
<1>2. ASSUME NEW k \in 0..30
      PROVE  2 ^ k \in Nat /\ (2 ^ k \in Small \/ 2 ^ k > 512)
  <2>1. CASE k \in 0..11
    <3>1. PICK p : p = 2 ^ k
      OBVIOUS
    <3>2. IsPower(k, p)
      BY <3>1, PowerIs, Zenon
    <3>3. k \in {0, 1, 2, 3, 4, 5, 6, 7, 8, 9, 10, 11}
      BY <2>1
    <3>4. p \in Nat /\ (p \in Small \/ p > 512)
      BY <3>2, <3>3, SMT DEF IsPower, Small
    <3> QED BY <3>1, <3>4, Zenon
  <2>2. CASE k \in 12..30
    BY <2>2, GreaterPowers
  <2> QED BY <2>1, <2>2
<1> QED BY <1>1, <1>2, Zenon DEF Divisors

(* A base clock that the greatest of them divides enough has a least one.  *)
LEMMA LeastDivisor ==
  ASSUME NEW base \in Nat, NEW speedHz \in Nat, base \div 512 <= speedHz
  PROVE  \E d \in Small : base \div d <= speedHz /\ \A e \in Small : e < d => base \div e > speedHz
BY SMT DEF Small

(* ClockDiv finds it: half of it would not do.                             *)
LEMMA ClockDivIs ==
  ASSUME NEW base \in Nat, NEW speedHz \in Nat, base \div 512 <= speedHz
  PROVE  /\ ClockDiv(base, speedHz) \in Small
         /\ base \div ClockDiv(base, speedHz) <= speedHz
         /\ \A e \in Small : e < ClockDiv(base, speedHz) => base \div e > speedHz
<1>1. PICK d \in Small : base \div d <= speedHz /\ \A e \in Small : e < d => base \div e > speedHz
  BY LeastDivisor
<1>2. d \in Divisors /\ \A e \in Divisors : e < d => base \div e > speedHz
  <2>1. d <= 512 /\ d \in Nat
    BY SMT DEF Small
  <2>2. ASSUME NEW e \in Divisors, e < d
        PROVE  e \in Small
    BY <2>1, <2>2, DivisorsAre, SMT
  <2> QED BY <1>1, <2>2, DivisorsAre, Zenon
<1>3. PICK c : c = ClockDiv(base, speedHz)
  OBVIOUS
<1>4. /\ c \in Divisors /\ base \div c <= speedHz
      /\ \A e \in Divisors : e < c => base \div e > speedHz
  BY <1>1, <1>2, <1>3, Zenon DEF ClockDiv
<1>5. c \in Small
  <2>1. ~(c > 512)
    <3>1. 512 \in Divisors
      BY DivisorsAre, Zenon DEF Small
    <3>2. c > 512 => base \div 512 > speedHz
      BY <1>4, <3>1, DivisorsAre, SMT
    <3> QED BY <3>2, SMT
  <2> QED BY <1>4, <2>1, DivisorsAre, Zenon
<1>6. \A e \in Small : e < c => base \div e > speedHz
  BY <1>4, DivisorsAre, Zenon
<1> QED BY <1>3, <1>4, <1>5, <1>6, Zenon

(* What the controller makes of a divisor that its register can hold.      *)
LEMMA ClockOfDivisor ==
  ASSUME NEW ver3 \in BOOLEAN, NEW base \in Nat, NEW d \in Small, ver3 \/ d <= 128
  PROVE  SDClock(ver3, base, NewClockDiv(d)) = base \div (2 * d)
<1>1. PICK r : r = NewClockDiv(d)
  OBVIOUS
<1>2. PICK low : low = r \div 256
  OBVIOUS
<1>3. PICK high : high = (r \div 64) % 4
  OBVIOUS
<1>4. PICK n : n = IF ver3 THEN high * 256 + low ELSE low
  OBVIOUS
<1>5. n = d
  BY <1>1, <1>2, <1>3, <1>4, SMT DEF Small, NewClockDiv
<1>6. n # 0
  BY <1>5, SMT DEF Small
<1> QED BY <1>1, <1>2, <1>3, <1>4, <1>5, <1>6, Zenon DEF SDClock

(* For every base clock and every speed whose divisor fits the register,   *)
(* the clock is at most the speed, and at least about a quarter of it, or  *)
(* half of the base clock.                                                 *)
LEMMA ClockFits ==
  ASSUME NEW ver3 \in BOOLEAN, NEW base \in Nat, NEW speedHz \in Nat,
         base \div Greatest(ver3) <= speedHz,
         NEW clock, clock = SDClock(ver3, base, NewClockDiv(ClockDiv(base, speedHz)))
  PROVE  clock <= speedHz /\ (4 * (clock + 1) > speedHz \/ 2 * (clock + 1) > base)
<1>1. base \div 512 <= speedHz
  BY SMT DEF Greatest
<1>2. PICK d : d = ClockDiv(base, speedHz)
  OBVIOUS
<1>3. /\ d \in Small /\ base \div d <= speedHz
      /\ \A e \in Small : e < d => base \div e > speedHz
  BY <1>1, <1>2, ClockDivIs
<1>4. ver3 \/ d <= 128
  <2>1. 128 \in Small /\ 128 \in Nat /\ d \in Nat
    BY <1>3, SMT DEF Small
  <2> QED BY <1>3, <2>1, SMT DEF Greatest
<1>5. clock = base \div (2 * d)
  BY <1>2, <1>3, <1>4, ClockOfDivisor
<1>6. CASE d = 1
  BY <1>3, <1>5, <1>6, SMT
<1>7. CASE d # 1
  <2>1. \E h \in Small : d = 2 * h
    BY <1>3, <1>7, SMT DEF Small
  <2>2. PICK h \in Small : d = 2 * h
    BY <2>1
  <2>3. h < d
    BY <2>2, SMT DEF Small
  <2>4. base \div h > speedHz
    BY <1>3, <2>3, Zenon
  <2>5. clock <= speedHz /\ 4 * (clock + 1) > speedHz
    BY <1>3, <1>5, <2>2, <2>4, SMT DEF Small
  <2> QED BY <2>5, Zenon
<1> QED BY <1>6, <1>7, Zenon

------------------------------------------------------------------------------
(* The ADMA2 descriptors.                                                  *)

(* The table of descriptors has room for the longest transfer.             *)
LEMMA Sizes ==
  /\ kSDAMaxBlocksPerTransfer = 61440 /\ NumADMA2Descriptors = 7680
  /\ PageSize = 4096 /\ kSDABlockSize = 512 /\ MaxLength = 65535
BY DEF kSDAMaxBlocksPerTransfer, NumADMA2Descriptors, PageSize, kSDABlockSize, MaxLength

(* The number of pages that bytes from head on touch.                      *)
Pages(head, bytes) == (head + bytes + PageSize - 1) \div PageSize

(* They are as many as it takes and no more.                               *)
LEMMA PagesBound ==
  ASSUME NEW head \in 0..(PageSize - 1), NEW bytes \in Nat \ {0}
  PROVE  /\ Pages(head, bytes) \in Nat \ {0}
         /\ (Pages(head, bytes) - 1) * PageSize < head + bytes
         /\ head + bytes <= Pages(head, bytes) * PageSize
<1>1. Pages(head, bytes) = (head + bytes + 4095) \div 4096
  BY Sizes DEF Pages
<1> QED BY <1>1, Sizes, SMT

(* Where the segment of a page lies in the transfer.                       *)
LEMMA SegmentIs ==
  ASSUME NEW head \in 0..(PageSize - 1), NEW bytes \in Nat \ {0}, NEW i \in 1..Pages(head, bytes)
  PROVE  /\ Segment(head, bytes, i).offset = IF i = 1 THEN 0 ELSE (i - 1) * PageSize - head
         /\ Segment(head, bytes, i).offset + Segment(head, bytes, i).length =
              IF i = Pages(head, bytes) THEN bytes ELSE i * PageSize - head
         /\ Segment(head, bytes, i).length \in 1..PageSize
         /\ Segment(head, bytes, i).end <=> (i = Pages(head, bytes))
<1>1. PICK n : n = Pages(head, bytes)
  OBVIOUS
<1>2. /\ n \in Nat \ {0} /\ i \in 1..n
      /\ (n - 1) * PageSize < head + bytes /\ head + bytes <= n * PageSize
  BY <1>1, PagesBound, Zenon
<1>3. PICK from : from = IF i = 1 THEN 0 ELSE (i - 1) * PageSize - head
  OBVIOUS
<1>4. PICK to : to = IF i * PageSize - head < bytes THEN i * PageSize - head ELSE bytes
  OBVIOUS
<1>5. PICK fin : fin = (to >= bytes)
  OBVIOUS
<1>6. from \in Nat /\ from < bytes
  BY <1>2, <1>3, Sizes, SMT
<1>7. /\ to = IF i = n THEN bytes ELSE i * PageSize - head
      /\ to \in Nat /\ from < to /\ to - from <= PageSize
      /\ (to >= bytes) <=> (i = n)
  BY <1>2, <1>3, <1>4, <1>6, Sizes, SMT
<1>8. to - from \in 1..PageSize /\ from + (to - from) = to
  <2>1. from \in Nat /\ to \in Nat /\ from < to /\ to - from <= PageSize
    BY <1>6, <1>7, Zenon
  <2> QED BY <2>1, Sizes, SMT
<1>9. /\ Segment(head, bytes, i).offset = from
      /\ Segment(head, bytes, i).length = to - from
      /\ Segment(head, bytes, i).end = fin
  <2>1. Segment(head, bytes, i) = [offset |-> from, length |-> to - from, end |-> fin]
    BY <1>3, <1>4, <1>5, Zenon DEF Segment
  <2> QED BY <2>1, SMT
<1>10. Segment(head, bytes, i).offset + Segment(head, bytes, i).length = to
  BY <1>8, <1>9, Zenon
<1>11. /\ Segment(head, bytes, i).length \in 1..PageSize
       /\ Segment(head, bytes, i).end <=> (i = n)
  BY <1>5, <1>7, <1>8, <1>9, Zenon
<1> QED BY <1>1, <1>3, <1>7, <1>9, <1>10, <1>11, Zenon

(* A transfer of at most 61440 blocks whose buffer starts at a page needs  *)
(* no more pages than there are descriptors.                               *)
LEMMA PagesFit ==
  ASSUME NEW count \in 1..kSDAMaxBlocksPerTransfer
  PROVE  /\ count * kSDABlockSize \in Nat \ {0}
         /\ Pages(0, count * kSDABlockSize) <= NumADMA2Descriptors
<1>1. PICK bytes : bytes = count * kSDABlockSize
  OBVIOUS
<1>2. bytes \in Nat \ {0} /\ bytes <= 7680 * 4096
  BY <1>1, Sizes, SMT
<1>3. Pages(0, bytes) = (bytes + 4095) \div 4096
  BY <1>2, Sizes, SMT DEF Pages
<1>4. Pages(0, bytes) <= 7680
  BY <1>2, <1>3, SMT
<1>5. /\ bytes \in Nat \ {0}
      /\ Pages(0, bytes) <= NumADMA2Descriptors
  BY <1>2, <1>4, Sizes, SMT
<1> QED BY <1>1, <1>5, SMT

(* What is written into the table: a segment for each page, up to the one  *)
(* that fails.                                                             *)
LEMMA DescriptorsAre ==
  ASSUME NEW head, NEW count, NEW failed \in Nat \ {0}, NEW bytes, NEW n, NEW m,
         bytes = count * kSDABlockSize,
         n = Pages(head, bytes), n \in Nat \ {0}, n <= NumADMA2Descriptors,
         m = IF failed <= n THEN failed - 1 ELSE n
  PROVE  /\ m \in Nat
         /\ Descriptors(head, count, failed) = [i \in 1..m |-> Segment(head, bytes, i)]
<1>1. PICK room : room = NumADMA2Descriptors
  OBVIOUS
<1>2. room \in Nat /\ n <= room
  BY <1>1, Sizes, SMT
<1>3. PICK most : most = IF n < room THEN n ELSE room
  OBVIOUS
<1>4. m = IF most < failed - 1 THEN most ELSE failed - 1
  BY <1>2, <1>3, SMT
<1>5. (head + bytes + PageSize - 1) \div PageSize = n
  BY Zenon DEF Pages
<1>6. Descriptors(head, count, failed) = [i \in 1..m |-> Segment(head, bytes, i)]
  BY <1>1, <1>3, <1>4, <1>5, Zenon DEF Descriptors
<1>7. m \in Nat
  BY SMT
<1> QED BY <1>6, <1>7, Zenon

(* The segments of a transfer, as far as they can be had, follow one       *)
(* another, and the last is marked if and only if there are all of them.   *)
LEMMA SegmentsFollow ==
  ASSUME NEW head \in 0..(PageSize - 1), NEW bytes \in Nat \ {0},
         NEW i \in 1..Pages(head, bytes)
  PROVE  /\ Segment(head, bytes, i).length \in 1..PageSize
         /\ i = 1 => Segment(head, bytes, i).offset = 0
         /\ i # 1 => Segment(head, bytes, i).offset =
              Segment(head, bytes, i - 1).offset + Segment(head, bytes, i - 1).length
         /\ i = Pages(head, bytes) =>
              Segment(head, bytes, i).offset + Segment(head, bytes, i).length = bytes
         /\ Segment(head, bytes, i).end <=> (i = Pages(head, bytes))
<1>1. Pages(head, bytes) \in Nat \ {0}
  BY PagesBound, Zenon
<1>2. /\ Segment(head, bytes, i).offset = IF i = 1 THEN 0 ELSE (i - 1) * PageSize - head
      /\ Segment(head, bytes, i).offset + Segment(head, bytes, i).length =
           IF i = Pages(head, bytes) THEN bytes ELSE i * PageSize - head
      /\ Segment(head, bytes, i).length \in 1..PageSize
      /\ Segment(head, bytes, i).end <=> (i = Pages(head, bytes))
  BY SegmentIs
<1>3. ASSUME i # 1
      PROVE  Segment(head, bytes, i - 1).offset + Segment(head, bytes, i - 1).length =
               (i - 1) * PageSize - head
  <2>1. PICK j : j = i - 1
    OBVIOUS
  <2>2. j \in 1..Pages(head, bytes) /\ j # Pages(head, bytes)
    BY <1>1, <1>3, <2>1, SMT
  <2>3. Segment(head, bytes, j).offset + Segment(head, bytes, j).length =
          IF j = Pages(head, bytes) THEN bytes ELSE j * PageSize - head
    BY <2>2, SegmentIs
  <2> QED BY <2>1, <2>2, <2>3, Zenon
<1> QED BY <1>2, <1>3, Zenon

(* The list of descriptors as the driver uses it.                          *)
LEMMA ListOfDescriptors ==
  ASSUME NEW head \in 0..(PageSize - 1), NEW count, NEW failed \in Nat \ {0},
         NEW bytes \in Nat \ {0}, bytes = count * kSDABlockSize,
         Pages(head, bytes) <= NumADMA2Descriptors,
         NEW d, d = Descriptors(head, count, failed),
         NEW whole, whole = (failed > Pages(head, bytes))
  PROVE  /\ whole => d # <<>> /\ d[Len(d)].offset + d[Len(d)].length = bytes
         /\ \A i \in DOMAIN d :
              /\ d[i].length \in 1..PageSize
              /\ d[i].offset = IF i = 1 THEN 0 ELSE d[i - 1].offset + d[i - 1].length
              /\ d[i].end <=> (whole /\ (i = Len(d)))
<1>1. PICK n : n = Pages(head, bytes)
  OBVIOUS
<1>2. n \in Nat \ {0} /\ n <= NumADMA2Descriptors
  BY <1>1, PagesBound, Zenon
<1>3. PICK m : m = IF failed <= n THEN failed - 1 ELSE n
  OBVIOUS
<1>4. m \in Nat /\ d = [i \in 1..m |-> Segment(head, bytes, i)]
  BY <1>1, <1>2, <1>3, DescriptorsAre
<1>5. Len(d) = m
  BY <1>4, SMT
<1>6. m <= n /\ (whole <=> (m = n))
  <2>1. whole <=> (failed > n)
    BY <1>1, Zenon
  <2>2. m <= n /\ ((failed > n) <=> (m = n))
    BY <1>2, <1>3, SMT
  <2> QED BY <2>1, <2>2, Zenon
<1>7. DOMAIN d = 1..m /\ \A i \in 1..m : d[i] = Segment(head, bytes, i)
  BY <1>4, Zenon
<1>8. ASSUME whole
      PROVE  d # <<>> /\ d[Len(d)].offset + d[Len(d)].length = bytes
  <2>1. m = n
    BY <1>6, <1>8, Zenon
  <2>2. d # <<>>
    <3>1. Len(d) # 0
      BY <1>2, <1>5, <2>1, SMT
    <3> QED BY <3>1, SMT
  <2>3. n \in 1..m /\ n \in 1..Pages(head, bytes)
    BY <1>1, <1>2, <2>1, SMT
  <2>4. Segment(head, bytes, n).offset + Segment(head, bytes, n).length = bytes
    BY <1>1, <2>3, SegmentsFollow
  <2>5. d[Len(d)] = Segment(head, bytes, n)
    BY <1>5, <1>7, <2>1, <2>3, Zenon
  <2> QED BY <2>2, <2>4, <2>5, Zenon
<1>9. ASSUME NEW i \in DOMAIN d
      PROVE  /\ d[i].length \in 1..PageSize
             /\ d[i].offset = IF i = 1 THEN 0 ELSE d[i - 1].offset + d[i - 1].length
             /\ d[i].end <=> (whole /\ (i = Len(d)))
  <2>1. i \in 1..m
    BY <1>7, Zenon
  <2>2. i \in 1..Pages(head, bytes)
    BY <1>1, <1>2, <1>4, <1>6, <2>1, SMT
  <2>3. /\ Segment(head, bytes, i).length \in 1..PageSize
        /\ i = 1 => Segment(head, bytes, i).offset = 0
        /\ i # 1 => Segment(head, bytes, i).offset =
             Segment(head, bytes, i - 1).offset + Segment(head, bytes, i - 1).length
        /\ Segment(head, bytes, i).end <=> (i = Pages(head, bytes))
    BY <2>2, SegmentsFollow
  <2>4. d[i] = Segment(head, bytes, i)
    BY <1>7, <2>1, Zenon
  <2>5. i # 1 => d[i - 1] = Segment(head, bytes, i - 1)
    <3>1. ASSUME i # 1
          PROVE  i - 1 \in 1..m
      BY <1>4, <2>1, <3>1, SMT
    <3> QED BY <1>7, <3>1, Zenon
  <2>6. d[i].offset = IF i = 1 THEN 0 ELSE d[i - 1].offset + d[i - 1].length
    BY <2>3, <2>4, <2>5, Zenon
  <2>7. (i = n) <=> (m = n /\ i = m)
    BY <1>2, <1>4, <1>6, <2>1, SMT
  <2>8. d[i].end <=> (whole /\ (i = Len(d)))
    BY <1>1, <1>5, <1>6, <2>3, <2>4, <2>7, Zenon
  <2> QED BY <2>3, <2>4, <2>6, <2>8, Zenon
<1> QED BY <1>8, <1>9, Zenon

------------------------------------------------------------------------------
(* The properties of the run.                                              *)

(* An input says which calculation it is for.                              *)
LEMMA Kinds ==
  /\ \A i \in ClockInput : i.calc = "clock"
  /\ \A i \in CSDInput : i.calc = "csd"
  /\ \A i \in DMAInput : i.calc = "dma"
BY SMT DEF ClockInput, CSDInput, DMAInput

(* What the inputs may be.                                                 *)
LEMMA InputsMeant ==
  /\ \A c \in CSizes : c \in Nat
  /\ \A c \in BlockCounts : c \in 1..kSDAMaxBlocksPerTransfer
BY InputsAssumption

(* A step changes no input.                                                *)
LEMMA InputsStay ==
  /\ CapacityIsExact /\ [Next]_input => CapacityIsExact'
  /\ DescriptorsCoverTransfer /\ [Next]_input => DescriptorsCoverTransfer'
  /\ ClockWithinRequest /\ [Next]_input => ClockWithinRequest'
BY Zenon DEF Next, CapacityIsExact, ClockWithinRequest, DescriptorsCoverTransfer

(* The lowest speed, which a card is identified at.                        *)
Lowest == 400000

(* The speeds that the driver asks for are not lower than 400 kHz.         *)
LEMMA SpeedsMeant == \A s \in Speeds : s \in Nat /\ s >= Lowest
BY SMT DEF Lowest, Speeds, MHz

(* A divisor that fits brings the base clock down to 400 kHz.              *)
LEMMA DivisorReaches ==
  ASSUME NEW ver3 \in BOOLEAN, NEW field \in 1..255, DivisorFits(ver3, field)
  PROVE  /\ BaseClock(ver3, field) \in Nat
         /\ BaseClock(ver3, field) \div Greatest(ver3) <= Lowest
<1>1. PICK base : base = BaseClock(ver3, field)
  OBVIOUS
<1>2. base \in Nat
  BY <1>1, SMT DEF BaseClock, MHz
<1>3. base <= (IF ver3 THEN 204000000 ELSE 51000000)
  BY <1>1, SMT DEF DivisorFits, MHz
<1>4. base \div Greatest(ver3) <= Lowest
  BY <1>2, <1>3, SMT DEF Lowest, Greatest
<1> QED BY <1>1, <1>2, <1>4, Zenon

(* The clock never exceeds the speed asked for, nor falls far below it, for*)
(* every base clock whose divisor fits the register.                       *)
THEOREM ClockWithinRequestAlways == Spec => []ClockWithinRequest
<1>1. Init => ClockWithinRequest
  <2>1. SUFFICES ASSUME Init, input.calc = "clock", DivisorFits(input.ver3, input.field)
                 PROVE  ClockWithinRequest
    BY Zenon DEF ClockWithinRequest
  <2>2. input.ver3 \in BOOLEAN /\ input.field \in 1..255 /\ input.speedHz \in Speeds
    <3>1. input \in ClockInput
      BY <2>1, Kinds, SMT DEF Init
    <3> QED BY <3>1, SMT DEF ClockInput
  <2>3. PICK base : base = BaseClock(input.ver3, input.field)
    OBVIOUS
  <2>4. PICK clock : clock = SDClock(input.ver3, base, NewClockDiv(ClockDiv(base, input.speedHz)))
    OBVIOUS
  <2>5. input.speedHz \in Nat /\ input.speedHz >= Lowest
    BY <2>2, SpeedsMeant
  <2>6. base \in Nat /\ base \div Greatest(input.ver3) <= Lowest
    BY <2>1, <2>2, <2>3, DivisorReaches, Zenon
  <2>7. base \div Greatest(input.ver3) <= input.speedHz
    BY <2>2, <2>5, <2>6, SMT DEF Lowest, Greatest
  <2>8. clock <= input.speedHz /\ (4 * (clock + 1) > input.speedHz \/ 2 * (clock + 1) > base)
    BY <2>2, <2>4, <2>5, <2>6, <2>7, ClockFits, Zenon
  <2> QED BY <2>3, <2>4, <2>8, Zenon DEF ClockWithinRequest, setControllerClock
<1> QED BY <1>1, InputsStay, PTL DEF Spec

(* The capacity of every MMC of less than 4 GiB is exact.                  *)
THEOREM CapacityIsExactAlways == Spec => []CapacityIsExact
<1>1. Init => CapacityIsExact
  <2>1. SUFFICES ASSUME Init, input.calc = "csd",
                        ExactBlockCount(input.cSize, input.mult, input.bl) < 2 ^ 23
                 PROVE  CardBlockCount(input.cSize, input.mult, input.bl) =
                          ExactBlockCount(input.cSize, input.mult, input.bl)
    BY Zenon DEF CapacityIsExact
  <2>2. input \in CSDInput
    BY <2>1, Kinds, SMT DEF Init
  <2>3. input.cSize \in CSizes /\ input.mult \in 0..7 /\ input.bl \in 9..11
    BY <2>2, SMT DEF CSDInput
  <2>4. input.cSize \in Nat
    BY <2>3, InputsMeant, Zenon
  <2> QED BY <2>1, <2>3, <2>4, CapacityExact, Zenon
<1> QED BY <1>1, InputsStay, PTL DEF Spec

(* The descriptors cover every transfer of up to 61440 blocks.             *)
THEOREM DescriptorsCoverAlways == Spec => []DescriptorsCoverTransfer
<1>1. Init => DescriptorsCoverTransfer
  <2>1. SUFFICES ASSUME Init, input.calc = "dma"
                 PROVE  DescriptorsCoverTransfer
    BY Zenon DEF DescriptorsCoverTransfer
  <2>2. input.count \in 1..kSDAMaxBlocksPerTransfer /\ input.failed \in Nat \ {0}
    <3>1. input \in DMAInput
      BY <2>1, Kinds, SMT DEF Init
    <3>2. input.count \in BlockCounts /\ input.failed \in Nat \ {0}
      BY <3>1, SMT DEF DMAInput
    <3> QED BY <3>2, InputsMeant, Zenon
  <2>3. PICK bytes : bytes = input.count * kSDABlockSize
    OBVIOUS
  <2>4. PICK d : d = Descriptors(0, input.count, input.failed)
    OBVIOUS
  <2>5. PICK whole : whole = (input.failed > Pages(0, bytes))
    OBVIOUS
  <2>6. bytes \in Nat \ {0} /\ Pages(0, bytes) <= NumADMA2Descriptors
    BY <2>2, <2>3, PagesFit, Zenon
  <2>7. 0 \in 0..(PageSize - 1)
    BY Sizes, SMT
  <2>8. /\ whole => d # <<>> /\ d[Len(d)].offset + d[Len(d)].length = bytes
        /\ \A i \in DOMAIN d :
             /\ d[i].length \in 1..PageSize
             /\ d[i].offset = IF i = 1 THEN 0 ELSE d[i - 1].offset + d[i - 1].length
             /\ d[i].end <=> (whole /\ (i = Len(d)))
    BY <2>2, <2>3, <2>4, <2>5, <2>6, <2>7, ListOfDescriptors
  <2>9. whole = (input.failed > (bytes + PageSize - 1) \div PageSize)
    <3>1. Pages(0, bytes) = (bytes + PageSize - 1) \div PageSize
      BY <2>6, Sizes, SMT DEF Pages
    <3> QED BY <2>5, <3>1, Zenon
  <2>10. \A n \in 1..PageSize : n \in 1..MaxLength
    BY Sizes, SMT
  <2> QED BY <2>3, <2>4, <2>8, <2>9, <2>10, Zenon DEF DescriptorsCoverTransfer
<1> QED BY <1>1, InputsStay, PTL DEF Spec
=============================================================================
