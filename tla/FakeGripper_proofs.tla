------------------------- MODULE FakeGripper_proofs -------------------------
(***************************************************************************)
(* Proofs about the fake gripper, for any register map, any profiles and   *)
(* openings, and any raw writes.                                           *)
(***************************************************************************)
EXTENDS FakeGripper, SequenceTheorems, TLAPS

(* The bytes of a register, and its words.                                 *)
Byte == {n \in Nat : n < 256}

(* A word has sixteen bits.                                                *)
LEMMA Words == \A w : w \in Word <=> w \in Nat /\ w < 65536
<1>1. UINT16_MAX \in Int
  BY DEF UINT16_MAX
<1>2. \A w : w \in Word <=> w \in Nat /\ w <= UINT16_MAX
  BY <1>1 DEF Word
<1>3. UINT16_MAX = 65535
  BY DEF UINT16_MAX
<1> QED
  BY <1>2, <1>3

-----------------------------------------------------------------------------
(* Bytes and words.                                                        *)

(* The quotient and the remainder by 256.                                  *)
LEMMA Halves ==
  ASSUME NEW n \in Nat
  PROVE  /\ n \div 256 \in Nat /\ n % 256 \in Byte
         /\ n % 256 = n - 256 * (n \div 256)
<1>1. n \div 256 \in Nat
  OBVIOUS
<1>2. n % 256 \in Byte
  BY DEF Byte
<1>3. n % 256 = n - 256 * (n \div 256)
  OBVIOUS
<1> QED
  BY <1>1, <1>2, <1>3

(* A register holds its two bytes ...                                      *)
LEMMA WordOfBytes ==
  ASSUME NEW h \in Byte, NEW l \in Byte
  PROVE  /\ 256 * h + l \in Word
         /\ (256 * h + l) \div 256 = h /\ (256 * h + l) % 256 = l
<1>1. 256 * h + l \in Word
  BY Words DEF Byte
<1> DEFINE n == 256 * h + l
<1>2. n \in Nat /\ n = 256 * h + l
  BY DEF Byte
<1> HIDE DEF n
<1>3. n \div 256 \in Nat /\ n % 256 \in Byte /\ n % 256 = n - 256 * (n \div 256)
  BY <1>2, Halves
<1>4. PICK q \in Nat, m \in Byte : q = n \div 256 /\ m = n % 256
  BY <1>3
<1>5. m = n - 256 * q
  BY <1>3, <1>4
<1>6. q = h /\ m = l
  BY <1>2, <1>5 DEF Byte
<1> QED
  BY <1>1, <1>4, <1>6 DEF n

(* ... and two bytes come out of it.                                       *)
LEMMA BytesOfWord ==
  ASSUME NEW w \in Word
  PROVE  w \div 256 \in Byte /\ w % 256 \in Byte
<1>1. w \in Nat /\ w < 65536
  BY Words
<1>2. w \div 256 \in Nat /\ w \div 256 <= 255
  BY <1>1
<1>3. w \div 256 \in Byte
  BY <1>2 DEF Byte
<1> QED
  BY <1>1, <1>3, Halves

(* Multiplication by a positive number keeps the order, both ways.         *)
LEMMA Cancel ==
  ASSUME NEW a \in Int, NEW b \in Int, NEW k \in Nat \ {0}
  PROVE  (a * k < b * k => a < b) /\ (a <= b => a * k <= b * k)
  OBVIOUS

(* A quotient.                                                             *)
LEMMA Quotient ==
  ASSUME NEW n \in Nat, NEW d \in Nat \ {0}
  PROVE  /\ n \div d \in Nat
         /\ d * (n \div d) <= n /\ n < d * (n \div d) + d
  OBVIOUS

(* Rounding is off by at most a half.                                      *)
LEMMA RoundedRegister ==
  ASSUME NEW n \in Nat, NEW d \in Nat \ {0}
  PROVE  /\ roundedRegister(n, d) \in Nat
         /\ 2 * (d * roundedRegister(n, d)) <= 2 * n + d
         /\ 2 * n < 2 * (d * roundedRegister(n, d)) + d
<1>1. 2 * n + d \in Nat /\ 2 * d \in Nat \ {0}
  OBVIOUS
<1> DEFINE q == (2 * n + d) \div (2 * d)
<1>2. q \in Nat /\ (2 * d) * q <= 2 * n + d /\ 2 * n + d < (2 * d) * q + 2 * d
  BY <1>1, Quotient
<1>3. roundedRegister(n, d) = q
  BY DEF roundedRegister
<1> HIDE DEF q
<1> QED
  BY <1>2, <1>3

-----------------------------------------------------------------------------
(* Blocks in the register file.                                            *)

(* The blocks hold the fields and do not overlap.                          *)
LEMMA Layout ==
  /\ kCommandAddress \in Nat /\ kStatusAddress \in Nat
  /\ kBlockRegisters \in Nat /\ kRegisterCountOnWire \in Nat
  /\ 3 <= kRegisterCountOnWire /\ kRegisterCountOnWire <= kBlockRegisters
  /\ kCommandAddress + kBlockRegisters <= kStatusAddress
  BY RegisterAssumption

RegisterFile == [Registers -> Word]

(* The bytes of n registers that the fields are in.                        *)
LEMMA BytesFromRegisters ==
  ASSUME NEW r, NEW n \in Nat, n >= 3
  PROVE  LET b == bytesFromRegisters(r, n)
         IN  /\ b[0] = r[0] \div 256
             /\ b[2] = r[1] \div 256 /\ b[3] = r[1] % 256
             /\ b[4] = r[2] \div 256 /\ b[5] = r[2] % 256
<1> DEFINE b == bytesFromRegisters(r, n)
<1>1. \A i \in {0, 1, 2, 3, 4, 5} :
        b[i] = IF i % 2 = 0 THEN r[i \div 2] \div 256 ELSE r[i \div 2] % 256
  <2>1. \A i \in {0, 1, 2, 3, 4, 5} : i \in 0..(2 * n - 1)
    OBVIOUS
  <2> QED
    BY <2>1 DEF bytesFromRegisters
<1>2. /\ 0 % 2 = 0 /\ 2 % 2 = 0 /\ 4 % 2 = 0 /\ 3 % 2 # 0 /\ 5 % 2 # 0
      /\ 0 \div 2 = 0 /\ 2 \div 2 = 1 /\ 3 \div 2 = 1 /\ 4 \div 2 = 2 /\ 5 \div 2 = 2
  OBVIOUS
<1> HIDE DEF b
<1>3. b[0] = r[0] \div 256 /\ b[2] = r[1] \div 256 /\ b[4] = r[2] \div 256
  BY <1>1, <1>2
<1>4. b[3] = r[1] % 256 /\ b[5] = r[2] % 256
  BY <1>1, <1>2
<1> QED
  BY <1>3, <1>4 DEF b

(* The same, of a block in the file.                                       *)
LEMMA BytesOfBlock ==
  ASSUME NEW r, NEW a \in Nat
  PROVE  LET b == BytesAt(r, a)
         IN  /\ b[0] = r[a] \div 256
             /\ b[2] = r[a + 1] \div 256 /\ b[3] = r[a + 1] % 256
             /\ b[4] = r[a + 2] \div 256 /\ b[5] = r[a + 2] % 256
<1> DEFINE block == BlockAt(r, a)
<1>1. block[0] = r[a] /\ block[1] = r[a + 1] /\ block[2] = r[a + 2]
  BY Layout DEF BlockAt
<1> HIDE DEF block
<1> DEFINE b == bytesFromRegisters(block, kBlockRegisters)
<1>2. /\ b[0] = block[0] \div 256
      /\ b[2] = block[1] \div 256 /\ b[3] = block[1] % 256
      /\ b[4] = block[2] \div 256 /\ b[5] = block[2] % 256
  BY Layout, BytesFromRegisters
<1>3. b = BytesAt(r, a)
  BY DEF BytesAt, block
<1> HIDE DEF b
<1> QED
  BY <1>1, <1>2, <1>3

(* The registers of a block lie in the file, and the blocks apart.         *)
LEMMA BlocksInFile ==
  /\ \A i \in 0..(kBlockRegisters - 1) :
       kCommandAddress + i \in Registers /\ kStatusAddress + i \in Registers
  /\ \A i \in kCommandAddress..(kCommandAddress + kBlockRegisters - 1) :
       i \in Registers /\ i \notin kStatusAddress..(kStatusAddress + kBlockRegisters - 1)
  BY Layout DEF Registers, kRegisterCount

(* What the fields of a status may be.                                     *)
StatusFields ==
  [act : BOOLEAN, gto : BOOLEAN, sta : 0..3, obj : 0..3,
   fault : Byte, echo : Byte, pos : Byte, current : Byte]

(* The flags of a status share a byte, from which each comes back.         *)
LEMMA FlagsByte ==
  ASSUME NEW a \in {0, 1}, NEW g \in {0, 1}, NEW t \in 0..3, NEW o \in 0..3
  PROVE  LET b == a + 8 * g + 16 * t + 64 * o
         IN  /\ b \in Byte /\ b % 2 = a /\ (b \div 8) % 2 = g
             /\ (b \div 16) % 4 = t /\ b \div 64 = o
<1> DEFINE b == a + 8 * g + 16 * t + 64 * o
<1>1. b \in Byte
  BY DEF Byte
<1>2. b % 2 = a
  OBVIOUS
<1>3. (b \div 8) % 2 = g
  OBVIOUS
<1>4. (b \div 16) % 4 = t
  OBVIOUS
<1>5. b \div 64 = o
  OBVIOUS
<1> QED
  BY <1>1, <1>2, <1>3, <1>4, <1>5

(* The bytes of a status ...                                               *)
LEMMA StatusBytesType ==
  ASSUME NEW s \in StatusFields
  PROVE  /\ \A i \in 0..(2 * kBlockRegisters - 1) : StatusBytes(s)[i] \in Byte
         /\ StatusOf(StatusBytes(s)) = s
<1> DEFINE b == StatusBytes(s)
           f == Bit(s.act) + 8 * Bit(s.gto) + 16 * s.sta + 64 * s.obj
<1>1. /\ Bit(s.act) \in {0, 1} /\ Bit(s.gto) \in {0, 1} /\ s.sta \in 0..3 /\ s.obj \in 0..3
      /\ s.fault \in Byte /\ s.echo \in Byte /\ s.pos \in Byte /\ s.current \in Byte
  BY DEF StatusFields, Bit
<1>2. /\ f \in Byte /\ f % 2 = Bit(s.act) /\ (f \div 8) % 2 = Bit(s.gto)
      /\ (f \div 16) % 4 = s.sta /\ f \div 64 = s.obj
  <2> DEFINE x == Bit(s.act)
             y == Bit(s.gto)
             z == s.sta
             w == s.obj
  <2>1. x \in {0, 1} /\ y \in {0, 1} /\ z \in 0..3 /\ w \in 0..3
    BY <1>1
  <2> HIDE DEF x, y, z, w
  <2>2. LET v == x + 8 * y + 16 * z + 64 * w
        IN  /\ v \in Byte /\ v % 2 = x /\ (v \div 8) % 2 = y
            /\ (v \div 16) % 4 = z /\ v \div 64 = w
    BY <2>1, FlagsByte
  <2> QED
    BY <2>2 DEF x, y, z, w
<1>3. 0 \in Byte
  BY DEF Byte
<1> HIDE DEF f
<1>4. \A i \in 0..(2 * kBlockRegisters - 1) :
        b[i] = CASE i = 0 -> f [] i = 2 -> s.fault [] i = 3 -> s.echo [] i = 4 -> s.pos
                 [] i = 5 -> s.current [] OTHER -> 0
  BY DEF StatusBytes, f
<1> HIDE DEF b
<1>5. \A i \in 0..(2 * kBlockRegisters - 1) : b[i] \in Byte
  BY <1>1, <1>2, <1>3, <1>4
<1>6. \A i \in {0, 2, 3, 4, 5} : i \in 0..(2 * kBlockRegisters - 1)
  BY Layout
<1>7. b[0] = f /\ b[2] = s.fault /\ b[3] = s.echo /\ b[4] = s.pos /\ b[5] = s.current
  BY <1>4, <1>6
<1>8. StatusOf(b) = s
  <2>1. StatusOf(b) =
          [act |-> f % 2 = 1, gto |-> (f \div 8) % 2 = 1, sta |-> s.sta, obj |-> s.obj,
           fault |-> s.fault, echo |-> s.echo, pos |-> s.pos, current |-> s.current]
    BY <1>2, <1>7 DEF StatusOf
  <2>2. (f % 2 = 1) = s.act /\ ((f \div 8) % 2 = 1) = s.gto
    <3>1. s.act \in BOOLEAN /\ s.gto \in BOOLEAN
      BY DEF StatusFields
    <3>2. (Bit(s.act) = 1) = s.act /\ (Bit(s.gto) = 1) = s.gto
      BY <3>1 DEF Bit
    <3> QED
      BY <1>2, <3>2
  <2> QED
    BY <2>1, <2>2 DEF StatusFields
<1> QED
  BY <1>5, <1>8 DEF b

(* ... fill the registers of its block.                                    *)
LEMMA SetStatus ==
  ASSUME NEW s \in StatusFields, NEW r \in RegisterFile
  PROVE  /\ setStatus(r, s) \in RegisterFile
         /\ \A i \in Registers \ (kStatusAddress..(kStatusAddress + kBlockRegisters - 1)) :
              setStatus(r, s)[i] = r[i]
         /\ statusIn(setStatus(r, s)) = s
<1> DEFINE b == StatusBytes(s)
           words == registersFromBytes(b, kBlockRegisters)
           after == setStatus(r, s)
           S == kStatusAddress
<1>1. \A i \in 0..(2 * kBlockRegisters - 1) : b[i] \in Byte
  BY StatusBytesType
<1>2. StatusOf(b) = s
  BY StatusBytesType
<1>3. \A i \in Registers :
        after[i] = IF i \in S..(S + kBlockRegisters - 1) THEN words[i - S] ELSE r[i]
  BY DEF setStatus, Stored
<1>4. after = [i \in Registers |-> after[i]]
  BY DEF setStatus, Stored
<1> HIDE DEF b
<1>5. \A i \in 0..(kBlockRegisters - 1) : words[i] = 256 * b[2 * i] + b[2 * i + 1]
  BY DEF registersFromBytes
<1> HIDE DEF words, after
<1>6. \A i \in 0..(kBlockRegisters - 1) :
        2 * i \in 0..(2 * kBlockRegisters - 1) /\ 2 * i + 1 \in 0..(2 * kBlockRegisters - 1)
  BY Layout
<1>7. \A i \in 0..(kBlockRegisters - 1) :
        /\ words[i] \in Word
        /\ words[i] \div 256 = b[2 * i] /\ words[i] % 256 = b[2 * i + 1]
  BY <1>1, <1>5, <1>6, WordOfBytes
<1>8. \A i \in Registers : after[i] \in Word
  <2>1. \A i \in S..(S + kBlockRegisters - 1) : i - S \in 0..(kBlockRegisters - 1)
    BY Layout
  <2> QED
    BY <1>3, <1>7, <2>1 DEF RegisterFile
<1>9. after \in RegisterFile
  BY <1>4, <1>8 DEF RegisterFile
<1>10. \A i \in 0..(kBlockRegisters - 1) : after[S + i] = words[i]
  <2>1. \A i \in 0..(kBlockRegisters - 1) :
          S + i \in Registers /\ S + i \in S..(S + kBlockRegisters - 1) /\ (S + i) - S = i
    BY Layout, BlocksInFile
  <2> QED
    BY <1>3, <2>1
<1>11. after[S] = words[0] /\ after[S + 1] = words[1] /\ after[S + 2] = words[2]
  <2>1. 0 \in 0..(kBlockRegisters - 1) /\ 1 \in 0..(kBlockRegisters - 1)
          /\ 2 \in 0..(kBlockRegisters - 1) /\ S + 0 = S
    BY Layout
  <2> QED
    BY <1>10, <2>1
<1> DEFINE c == BytesAt(after, S)
<1>12. /\ c[0] = words[0] \div 256
       /\ c[2] = words[1] \div 256 /\ c[3] = words[1] % 256
       /\ c[4] = words[2] \div 256 /\ c[5] = words[2] % 256
  BY <1>11, BytesOfBlock, Layout
<1> HIDE DEF c
<1>13. c[0] = b[0] /\ c[2] = b[2] /\ c[3] = b[3] /\ c[4] = b[4] /\ c[5] = b[5]
  <2>1. 0 \in 0..(kBlockRegisters - 1) /\ 1 \in 0..(kBlockRegisters - 1)
          /\ 2 \in 0..(kBlockRegisters - 1)
    BY Layout
  <2>2. /\ words[0] \div 256 = b[2 * 0]
        /\ words[1] \div 256 = b[2 * 1] /\ words[1] % 256 = b[2 * 1 + 1]
        /\ words[2] \div 256 = b[2 * 2] /\ words[2] % 256 = b[2 * 2 + 1]
    BY <1>7, <2>1
  <2>3. 2 * 0 = 0 /\ 2 * 1 = 2 /\ 2 * 1 + 1 = 3 /\ 2 * 2 = 4 /\ 2 * 2 + 1 = 5
    OBVIOUS
  <2> QED
    BY <1>12, <2>2, <2>3
<1>14. statusIn(after) = StatusOf(b)
  BY <1>13 DEF statusIn, StatusOf, c
<1> QED
  BY <1>2, <1>3, <1>9, <1>14 DEF after

-----------------------------------------------------------------------------
(* Units: openings to registers and back.                                  *)

(* Within half a register step of the nearest opening p has to o.          *)
Near(back, o, p) ==
    LET nearest == Clamp(o, p.minOpening, p.maxOpening)
        off == back.num - nearest * back.den
    IN  2 * off <= openingRange(p) /\ -2 * off <= openingRange(p)

(* The register an opening gets: S is the span of openings, B the band of  *)
(* registers from r on, e how far the gripper opens.                       *)
LEMMA RegisterInBand ==
  ASSUME NEW S \in Nat \ {0}, NEW B \in Nat \ {0}, NEW r \in Nat, NEW e \in 0..S,
         NEW v, v = roundedRegister(r * S + (S - e) * B, S)
  PROVE  /\ v \in Nat /\ r <= v /\ v <= r + B
         /\ 2 * (S * v) <= 2 * (r * S + (S - e) * B) + S
         /\ 2 * (r * S + (S - e) * B) < 2 * (S * v) + S
<1> DEFINE n == r * S + (S - e) * B
<1>1. S - e \in Nat /\ S - e <= S
  OBVIOUS
<1>2. (S - e) * B \in Nat /\ (S - e) * B <= S * B
  <2> DEFINE d == S - e
  <2>1. d \in Int /\ S \in Int /\ d <= S /\ d \in Nat
    BY <1>1
  <2> HIDE DEF d
  <2>2. d * B <= S * B /\ d * B \in Nat
    BY <2>1, Cancel
  <2> QED
    BY <2>2 DEF d
<1>3. r * S \in Nat
  OBVIOUS
<1>4. n \in Nat /\ r * S <= n /\ n <= r * S + S * B
  BY <1>2, <1>3
<1>5. r * S + S * B = (r + B) * S
  OBVIOUS
<1> HIDE DEF n
<1>6. v \in Nat /\ 2 * (S * v) <= 2 * n + S /\ 2 * n < 2 * (S * v) + S
  BY <1>4, RoundedRegister DEF n
<1>7. S * v = v * S /\ (v + 1) * S = v * S + S /\ (r + B + 1) * S = (r + B) * S + S
  BY <1>6
<1>8. r * S < (v + 1) * S
  <2>1. v * S \in Int /\ r * S \in Int /\ (v + 1) * S \in Int
    BY <1>6
  <2> QED
    BY <1>4, <1>6, <1>7, <2>1
<1>9. v * S < (r + B + 1) * S
  <2>1. v * S \in Int /\ (r + B) * S \in Int /\ (r + B + 1) * S \in Int
    BY <1>6
  <2> QED
    BY <1>4, <1>5, <1>6, <1>7, <2>1
<1>10. r < v + 1 /\ v < r + B + 1
  BY <1>6, <1>8, <1>9, Cancel
<1> QED
  BY <1>6, <1>10 DEF n

(* The opening that register gives back.                                   *)
LEMMA BandReadsBack ==
  ASSUME NEW S \in Nat \ {0}, NEW B \in Nat \ {0}, NEW r \in Nat, NEW e \in 0..S,
         NEW m \in Nat, NEW v, v = roundedRegister(r * S + (S - e) * B, S)
  PROVE  LET off == (m * B + (B - (v - r)) * S) - (m + e) * B
         IN  2 * off <= S /\ -2 * off <= S
<1> DEFINE n == r * S + (S - e) * B
<1>1. /\ v \in Nat /\ r <= v /\ v <= r + B
      /\ 2 * (S * v) <= 2 * n + S /\ 2 * n < 2 * (S * v) + S
  BY RegisterInBand
<1>2. (m * B + (B - (v - r)) * S) - (m + e) * B = n - S * v
  BY <1>1
<1>3. n \in Int /\ S * v \in Int
  BY <1>1
<1> DEFINE q == S * v
<1>4. n - q \in Int /\ 2 * (n - q) <= S /\ -2 * (n - q) <= S
  <2> HIDE DEF n, q
  <2>1. n \in Int /\ q \in Int /\ 2 * q <= 2 * n + S /\ 2 * n < 2 * q + S
    BY <1>1, <1>3 DEF q
  <2> QED
    BY <2>1
<1> HIDE DEF n
<1> QED
  BY <1>2, <1>4

(* The register of an opening is a byte, and gives that opening back.      *)
LEMMA OpeningRegister ==
  ASSUME NEW p \in Profile, NEW o \in Int,
         NEW v \in openingToRegister([num |-> o, den |-> 1], p)
  PROVE  v \in Byte /\ \A back \in openingFromRegister(v, p) : Near(back, o, p)
<1> DEFINE S == openingRange(p)
           B == registerPositionRange(p)
           r == p.openPosition
           m == p.minOpening
           e == Clamp(o - m * 1, 0, S * 1)
<1>1. /\ m \in Nat /\ p.maxOpening \in Nat /\ S = p.maxOpening - m
      /\ r \in Nat /\ p.closedPosition \in Nat /\ p.closedPosition <= 255
      /\ B = p.closedPosition - r
  BY DEF Profile, openingRange, registerPositionRange
<1>2. ~(S <= 0 \/ B <= 0) /\ v = roundedRegister(r * S * 1 + (S * 1 - e) * B, S * 1)
  <2>1. PICK x : x = [num |-> o, den |-> 1]
    OBVIOUS
  <2>2. x.num = o /\ x.den = 1 /\ v \in openingToRegister(x, p)
    BY <2>1
  <2> QED
    BY <2>2 DEF openingToRegister
<1>3. S \in Nat \ {0} /\ B \in Nat \ {0}
  BY <1>1, <1>2
<1> HIDE DEF S, B, r, m, e
<1>4. e = Clamp(o - m, 0, S) /\ e \in 0..S
  BY <1>1, <1>3 DEF e, Clamp
<1>5. v = roundedRegister(r * S + (S - e) * B, S)
  <2>1. r * S * 1 = r * S /\ S * 1 = S
    BY <1>1, <1>3
  <2> QED
    BY <1>2, <2>1
<1>6. v \in Nat /\ r <= v /\ v <= r + B
  BY <1>1, <1>3, <1>4, <1>5, RegisterInBand
<1>7. v \in Byte
  BY <1>1, <1>6 DEF Byte
<1>8. Clamp(o, p.minOpening, p.maxOpening) = m + e
  BY <1>1, <1>3, <1>4 DEF Clamp, m
<1>9. Clamp(v - r, 0, B) = v - r
  BY <1>1, <1>3, <1>6 DEF Clamp
<1>10. openingFromRegister(v, p) = {[num |-> m * B + (B - (v - r)) * S, den |-> B]}
  <2>1. ~(B <= 0 \/ S <= 0)
    BY <1>3
  <2>2. openingFromRegister(v, p) =
          IF B <= 0 \/ S <= 0 THEN {}
          ELSE {[num |-> m * B + (B - Clamp(v - r, 0, B)) * S, den |-> B]}
    BY DEF openingFromRegister, S, B, m, r
  <2> QED
    BY <1>9, <2>1, <2>2
<1>11. Near([num |-> m * B + (B - (v - r)) * S, den |-> B], o, p)
  <2> DEFINE off == (m * B + (B - (v - r)) * S) - (m + e) * B
  <2>1. 2 * off <= S /\ -2 * off <= S
    BY <1>1, <1>3, <1>4, <1>5, BandReadsBack
  <2> QED
    BY <1>8, <2>1 DEF Near, S
<1> QED
  BY <1>7, <1>10, <1>11

(* A speed's register is a byte.                                           *)
LEMMA SpeedRegister ==
  ASSUME NEW p \in Profile, NEW v \in speedToRegister(p.maxSpeed, p)
  PROVE  v \in Byte
<1> DEFINE S == p.maxSpeed - p.minSpeed
           d == Clamp(p.maxSpeed - p.minSpeed, 0, p.maxSpeed - p.minSpeed)
<1>1. p.maxSpeed \in Nat /\ p.minSpeed \in Nat
  BY DEF Profile
<1>2. S \in Nat \ {0} /\ v = roundedRegister(255 * d, S)
  BY <1>1 DEF speedToRegister, registerFromSpan
<1>3. d = S
  BY <1>1, <1>2 DEF Clamp
<1> HIDE DEF S, d
<1>4. 255 * S \in Nat /\ v = roundedRegister(255 * S, S)
  BY <1>2, <1>3
<1>5. v \in Nat /\ 2 * (S * v) <= 2 * (255 * S) + S
  BY <1>2, <1>4, RoundedRegister
<1>6. v * S < 256 * S
  BY <1>2, <1>5
<1>7. v < 256
  BY <1>2, <1>5, <1>6, Cancel
<1> QED
  BY <1>5, <1>7 DEF Byte

-----------------------------------------------------------------------------
(* Commands.                                                               *)
CommandFields == [act : BOOLEAN, gto : BOOLEAN, pos : Byte, speed : Byte]

(* What an application's command holds.                                    *)
LEMMA CommandForType ==
  ASSUME NEW p \in Grippers, NEW o \in Openings, NEW act \in BOOLEAN, NEW gto \in BOOLEAN,
         NEW c \in CommandFor(p, o, act, gto)
  PROVE  /\ c \in CommandFields
         /\ \A back \in openingFromRegister(c.pos, p) : Near(back, o, p)
<1>1. p \in Profile /\ o \in Int
  BY RegisterAssumption
<1>2. PICK v \in openingToRegister([num |-> o, den |-> 1], p),
           w \in speedToRegister(p.maxSpeed, p) :
             c = [act |-> act, gto |-> gto, pos |-> v, speed |-> w]
  BY DEF CommandFor
<1>3. v \in Byte /\ w \in Byte
  BY <1>1, OpeningRegister, SpeedRegister
<1>4. \A back \in openingFromRegister(v, p) : Near(back, o, p)
  BY <1>1, OpeningRegister
<1> QED
  BY <1>2, <1>3, <1>4 DEF CommandFields

(* Its words, the first n registers of its block.                          *)
LEMMA CommandWordsType ==
  ASSUME NEW c \in CommandFields
  PROVE  /\ \A i \in 0..(kRegisterCountOnWire - 1) : CommandWords(c)[i] \in Word
         /\ CommandWords(c)[0] = 256 * (Bit(c.act) + 8 * Bit(c.gto))
         /\ CommandWords(c)[1] = c.pos
         /\ CommandWords(c)[2] = 256 * c.speed
<1> DEFINE b == CommandBytes(c)
           f == Bit(c.act) + 8 * Bit(c.gto)
           words == CommandWords(c)
<1>1. c.pos \in Byte /\ c.speed \in Byte /\ f \in Byte /\ 0 \in Byte
  BY DEF CommandFields, Bit, Byte
<1> HIDE DEF f
<1>2. \A i \in 0..(2 * kBlockRegisters - 1) :
        b[i] = CASE i = 0 -> f [] i = 3 -> c.pos [] i = 4 -> c.speed [] OTHER -> 0
  BY DEF CommandBytes, f
<1>3. \A i \in 0..(kRegisterCountOnWire - 1) : words[i] = 256 * b[2 * i] + b[2 * i + 1]
  BY DEF CommandWords, registersFromBytes
<1> HIDE DEF b, words
<1>4. \A i \in 0..(kRegisterCountOnWire - 1) :
        2 * i \in 0..(2 * kBlockRegisters - 1) /\ 2 * i + 1 \in 0..(2 * kBlockRegisters - 1)
  BY Layout
<1>5. \A i \in 0..(2 * kBlockRegisters - 1) : b[i] \in Byte
  BY <1>1, <1>2
<1>6. \A i \in 0..(kRegisterCountOnWire - 1) : words[i] \in Word
  BY <1>3, <1>4, <1>5, WordOfBytes
<1>7. \A i \in {0, 1, 2, 3, 4, 5} : i \in 0..(2 * kBlockRegisters - 1)
  BY Layout
<1>8. b[0] = f /\ b[1] = 0 /\ b[2] = 0 /\ b[3] = c.pos /\ b[4] = c.speed /\ b[5] = 0
  BY <1>2, <1>7
<1>9. \A i \in {0, 1, 2} : i \in 0..(kRegisterCountOnWire - 1)
  BY Layout
<1>10. /\ words[0] = 256 * b[2 * 0] + b[2 * 0 + 1] /\ words[1] = 256 * b[2 * 1] + b[2 * 1 + 1]
       /\ words[2] = 256 * b[2 * 2] + b[2 * 2 + 1]
  BY <1>3, <1>9
<1>11. /\ 2 * 0 = 0 /\ 2 * 0 + 1 = 1 /\ 2 * 1 = 2 /\ 2 * 1 + 1 = 3
       /\ 2 * 2 = 4 /\ 2 * 2 + 1 = 5
  OBVIOUS
<1>12. words[0] = 256 * f /\ words[1] = c.pos /\ words[2] = 256 * c.speed
  BY <1>1, <1>8, <1>10, <1>11 DEF Byte
<1> QED
  BY <1>6, <1>12 DEF words, f

-----------------------------------------------------------------------------
(* The device.                                                             *)

(* What any register file holds, read as a command or as a status.         *)
LEMMA FieldsOfFile ==
  ASSUME NEW r \in RegisterFile
  PROVE  command(r) \in CommandFields /\ statusIn(r) \in StatusFields
<1>1. ASSUME NEW a \in {kCommandAddress, kStatusAddress}
      PROVE  LET b == BytesAt(r, a)
             IN  /\ b[0] \in Byte /\ b[2] \in Byte /\ b[3] \in Byte
                 /\ b[4] \in Byte /\ b[5] \in Byte
  <2>1. \A i \in {0, 1, 2} : i \in 0..(kBlockRegisters - 1) /\ a + 0 = a /\ a \in Nat
    BY Layout
  <2>2. r[a] \in Word /\ r[a + 1] \in Word /\ r[a + 2] \in Word
    <3>1. a \in Registers /\ a + 1 \in Registers /\ a + 2 \in Registers
      BY <2>1, BlocksInFile
    <3> QED
      BY <3>1 DEF RegisterFile
  <2>3. /\ r[a] \div 256 \in Byte
        /\ r[a + 1] \div 256 \in Byte /\ r[a + 1] % 256 \in Byte
        /\ r[a + 2] \div 256 \in Byte /\ r[a + 2] % 256 \in Byte
    BY <2>2, BytesOfWord
  <2> QED
    BY <2>1, <2>3, BytesOfBlock
<1>2. command(r) \in CommandFields
  BY <1>1 DEF command, CommandOf, CommandFields
<1>3. ASSUME NEW x \in Byte PROVE (x \div 16) % 4 \in 0..3 /\ x \div 64 \in 0..3
  BY DEF Byte
<1>4. statusIn(r) \in StatusFields
  <2> DEFINE b == BytesAt(r, kStatusAddress)
  <2>1. /\ b[0] \in Byte /\ b[2] \in Byte /\ b[3] \in Byte
        /\ b[4] \in Byte /\ b[5] \in Byte
    BY <1>1
  <2>2. (b[0] \div 16) % 4 \in 0..3 /\ b[0] \div 64 \in 0..3
    BY <1>3, <2>1
  <2> HIDE DEF b
  <2>3. StatusOf(b) \in StatusFields
    BY <2>1, <2>2 DEF StatusOf, StatusFields
  <2> QED
    BY <2>3 DEF statusIn, b
<1> QED
  BY <1>2, <1>4

(* They are what their own registers say.                                  *)
LEMMA FieldsFollow ==
  ASSUME NEW r, NEW q,
         NEW a \in Nat, \A i \in {a, a + 1, a + 2} : q[i] = r[i]
  PROVE  /\ CommandOf(BytesAt(q, a)) = CommandOf(BytesAt(r, a))
         /\ StatusOf(BytesAt(q, a)) = StatusOf(BytesAt(r, a))
<1> DEFINE b == BytesAt(r, a)
           c == BytesAt(q, a)
<1>1. c[0] = b[0] /\ c[2] = b[2] /\ c[3] = b[3] /\ c[4] = b[4] /\ c[5] = b[5]
  BY BytesOfBlock
<1> HIDE DEF b, c
<1>2. CommandOf(c) = CommandOf(b) /\ StatusOf(c) = StatusOf(b)
  BY <1>1 DEF CommandOf, StatusOf
<1> QED
  BY <1>2 DEF b, c

(* A new status leaves the command block alone.                            *)
LEMMA SetStatusKeepsCommand ==
  ASSUME NEW s \in StatusFields, NEW r \in RegisterFile
  PROVE  command(setStatus(r, s)) = command(r)
<1> DEFINE q == setStatus(r, s)
<1>1. \A i \in {0, 1, 2} :
        kCommandAddress + i \in kCommandAddress..(kCommandAddress + kBlockRegisters - 1)
  BY Layout
<1>2. \A i \in {0, 1, 2} : q[kCommandAddress + i] = r[kCommandAddress + i]
  BY <1>1, BlocksInFile, SetStatus
<1> HIDE DEF q
<1>3. \A i \in {kCommandAddress, kCommandAddress + 1, kCommandAddress + 2} : q[i] = r[i]
  BY <1>2, Layout
<1> QED
  BY <1>3, FieldsFollow, Layout DEF command, q

(* Words stored in the file.                                               *)
LEMMA StoredFacts ==
  ASSUME NEW r \in RegisterFile, NEW a \in Nat, NEW n \in Nat, NEW words,
         \A i \in 0..(n - 1) : words[i] \in Word
  PROVE  /\ Stored(r, a, n, words) \in RegisterFile
         /\ \A i \in Registers \ (a..(a + n - 1)) : Stored(r, a, n, words)[i] = r[i]
         /\ \A i \in 0..(n - 1) :
              a + i \in Registers => Stored(r, a, n, words)[a + i] = words[i]
<1> DEFINE q == Stored(r, a, n, words)
<1>1. \A i \in Registers : q[i] = IF i \in a..(a + n - 1) THEN words[i - a] ELSE r[i]
  BY DEF Stored
<1>2. q = [i \in Registers |-> q[i]]
  BY DEF Stored
<1> HIDE DEF q
<1>3. \A i \in a..(a + n - 1) : i - a \in 0..(n - 1)
  OBVIOUS
<1>4. \A i \in Registers : q[i] \in Word
  BY <1>1, <1>3 DEF RegisterFile
<1>5. q \in RegisterFile
  BY <1>2, <1>4 DEF RegisterFile
<1>6. \A i \in 0..(n - 1) : a + i \in a..(a + n - 1) /\ (a + i) - a = i
  OBVIOUS
<1>7. \A i \in 0..(n - 1) : a + i \in Registers => q[a + i] = words[i]
  BY <1>1, <1>6
<1> QED
  BY <1>1, <1>5, <1>7 DEF q

(* What a write leaves: the command that is in the file then, and the      *)
(* status of a device that has acted on it.                                *)
LEMMA WriteEffect ==
  ASSUME registers \in RegisterFile, StatusFollowsCommand,
         NEW a \in Nat, NEW n \in Nat, NEW words,
         \A i \in 0..(n - 1) : words[i] \in Word, write(a, n, words)
  PROVE  LET stored == Stored(registers, a, n, words)
         IN  /\ registers' \in RegisterFile
             /\ StatusFollowsCommand'
             /\ command(registers') = command(stored)
             /\ statusIn(registers').pos = command(stored).pos
             /\ statusIn(registers').fault =
                  FaultKept(command(stored).act, statusIn(stored).fault)
<1> DEFINE stored == Stored(registers, a, n, words)
           c == command(stored)
           fault == statusIn(stored).fault
           s == processCommand(c, fault)
<1>1. stored \in RegisterFile
  BY StoredFacts
<1>2. /\ registers' = setStatus(stored, s) /\ activationDone' = Done(c.act)
      /\ previousActivateBit' = c.act
  BY DEF write
<1> HIDE DEF stored
<1>3. c \in CommandFields /\ statusIn(stored) \in StatusFields
  BY <1>1, FieldsOfFile
<1>4. fault \in Byte
  BY <1>3 DEF StatusFields
<1>5. command(registers) \in CommandFields
  BY FieldsOfFile
<1> HIDE DEF c, fault
<1>6. c.act \in BOOLEAN /\ c.gto \in BOOLEAN /\ c.pos \in Byte
  BY <1>3 DEF CommandFields
<1>7. Done(c.act) = c.act
  <2>1. activationDone = previousActivateBit /\ activationDone \in BOOLEAN
    BY <1>5 DEF StatusFollowsCommand, CommandFields
  <2> QED
    BY <1>6, <2>1 DEF Done
<1>8. s = [act |-> c.act, gto |-> c.act /\ c.gto, sta |-> IF c.act THEN 3 ELSE 0,
           obj |-> IF c.act /\ c.gto THEN 3 ELSE 0, fault |-> FaultKept(c.act, fault),
           echo |-> c.pos, pos |-> c.pos, current |-> 42]
  BY <1>7 DEF processCommand, kReportedCurrent
<1> HIDE DEF s
<1>9. FaultKept(c.act, fault) \in Byte
  BY <1>4 DEF FaultKept, Byte
<1>10. s \in StatusFields
  <2>1. 42 \in Byte /\ 0 \in 0..3 /\ 3 \in 0..3
    BY DEF Byte
  <2> QED
    BY <1>6, <1>8, <1>9, <2>1 DEF StatusFields
<1>11. registers' \in RegisterFile /\ statusIn(registers') = s
  BY <1>1, <1>2, <1>10, SetStatus
<1>12. command(registers') = c
  BY <1>1, <1>2, <1>10, SetStatusKeepsCommand DEF c
<1>13. s.act = c.act /\ (s.sta = 3) = c.act /\ s.gto = (c.act /\ c.gto)
  BY <1>6, <1>8
<1>14. StatusFollowsCommand'
  <2>1. command(registers)' = c /\ statusIn(registers)' = s
    BY <1>11, <1>12 DEF command, statusIn, BytesAt, BlockAt
  <2>2. activationDone' = c.act /\ previousActivateBit' = c.act
    BY <1>2, <1>7
  <2> QED
    BY <1>13, <2>1, <2>2 DEF StatusFollowsCommand
<1>15. s.pos = c.pos /\ s.fault = FaultKept(c.act, fault)
  BY <1>8
<1> QED
  BY <1>11, <1>12, <1>14, <1>15 DEF stored, c, fault

-----------------------------------------------------------------------------
(* Replies.                                                                *)
Token == Word \cup {"head", "foot", "exception", "code"}

(* An answer wraps its words ...                                           *)
LEMMA AnswerFacts ==
  ASSUME NEW w \in Seq(Word)
  PROVE  /\ Answer(w) \in Seq(Token) /\ Len(Answer(w)) = Len(w) + 2
         /\ Answer(w)[1] = "head"
         /\ \A i \in 1..Len(w) : Answer(w)[i + 1] = w[i]
<1> DEFINE h == <<"head">>
           f == <<"foot">>
           hw == h \o w
<1>1. /\ h \in Seq(Token) /\ Len(h) = 1 /\ h[1] = "head"
      /\ f \in Seq(Token) /\ Len(f) = 1
  BY DEF Token
<1>2. w \in Seq(Token) /\ Len(w) \in Nat
  BY SeqMonotonic, LenProperties DEF Token
<1> HIDE DEF h, f
<1>3. /\ hw \in Seq(Token) /\ Len(hw) = 1 + Len(w)
      /\ \A i \in 1..(1 + Len(w)) : hw[i] = IF i <= 1 THEN h[i] ELSE w[i - 1]
  <2>1. /\ h \o w \in Seq(Token) /\ Len(h \o w) = Len(h) + Len(w)
        /\ \A i \in 1..(Len(h) + Len(w)) :
             (h \o w)[i] = IF i <= Len(h) THEN h[i] ELSE w[i - Len(h)]
    BY <1>1, <1>2, ConcatProperties, Zenon
  <2> QED
    BY <1>1, <2>1
<1> HIDE DEF hw
<1>4. /\ hw \o f \in Seq(Token) /\ Len(hw \o f) = 1 + Len(w) + 1
      /\ \A i \in 1..(1 + Len(w) + 1) :
           (hw \o f)[i] = IF i <= 1 + Len(w) THEN hw[i] ELSE f[i - (1 + Len(w))]
  <2>1. /\ hw \o f \in Seq(Token) /\ Len(hw \o f) = Len(hw) + Len(f)
        /\ \A i \in 1..(Len(hw) + Len(f)) :
             (hw \o f)[i] = IF i <= Len(hw) THEN hw[i] ELSE f[i - Len(hw)]
    BY <1>1, <1>3, ConcatProperties, Zenon
  <2> QED
    BY <1>1, <1>3, <2>1
<1> DEFINE hwf == hw \o f
<1> HIDE DEF hwf
<1>5. \A i \in 1..(1 + Len(w)) : hwf[i] = IF i <= 1 THEN h[i] ELSE w[i - 1]
  BY <1>2, <1>3, <1>4 DEF hwf
<1>6. hwf[1] = "head"
  BY <1>1, <1>2, <1>5
<1>7. \A i \in 1..Len(w) : hwf[i + 1] = w[i]
  <2>1. \A i \in 1..Len(w) : i + 1 \in 1..(1 + Len(w)) /\ ~(i + 1 <= 1) /\ (i + 1) - 1 = i
    BY <1>2
  <2> QED
    BY <1>5, <2>1
<1> QED
  BY <1>2, <1>4, <1>6, <1>7 DEF Answer, h, f, hw, hwf

(* ... and an exception is none.                                           *)
LEMMA RefusalFacts ==
  Refusal \in Seq(Token) /\ Len(Refusal) = 3 /\ Refusal[1] # "head"
  BY DEF Refusal, Token

(* The words that are read.                                                *)
LEMMA ReadFacts ==
  ASSUME NEW r \in RegisterFile, NEW a \in Nat, NEW n \in Nat, containsRange(a, n)
  PROVE  /\ read(r, a, n) \in Seq(Word) /\ Len(read(r, a, n)) = n
         /\ \A k \in 1..n : ~InCommandBlock(a + k - 1) => read(r, a, n)[k] = r[a + k - 1]
<1> DEFINE w == read(r, a, n)
<1>1. \A k \in 1..n : w[k] = IF InCommandBlock(a + k - 1) THEN 0 ELSE r[a + k - 1]
  BY DEF read
<1>2. w = [k \in 1..n |-> w[k]] /\ DOMAIN w = 1..n
  BY DEF read
<1> HIDE DEF w
<1>3. \A k \in 1..n : w[k] \in Word
  <2>1. 0 \in Word
    BY Words
  <2>2. \A k \in 1..n : a + k - 1 \in Registers
    BY Layout DEF containsRange, kRegisterCount, Registers
  <2> QED
    BY <1>1, <2>1, <2>2 DEF RegisterFile
<1>4. w \in [1..n -> Word]
  BY <1>2, <1>3
<1>5. w \in Seq(Word)
  BY <1>4, SeqDef
<1>6. Len(w) = n
  BY <1>2, <1>5, LenProperties
<1> QED
  BY <1>1, <1>5, <1>6 DEF w

-----------------------------------------------------------------------------
(* The inductive invariant.                                                *)
TypeOK ==
    /\ registers \in RegisterFile
    /\ at \in {"idle", "head", "rest", "refused"}
    /\ wanted \in Nat

(* A position byte that gives back the opening the client asked for.       *)
Returns(byte) ==
    \A a \in asked : \A back \in openingFromRegister(byte, a.profile) :
      Near(back, a.opening, a.profile)

(* The word with that byte, in the answer to a command with an opening.    *)
Carries(word) ==
    asked # {} => wanted = kRegisterCountOnWire /\ Returns(word \div 256)

(* The reply under way is as long as the client will take, word by word,   *)
(* and its third word has the position.                                    *)
ReplyFits ==
    /\ at = "idle" => toClient = <<>> /\ Returns(status[4])
    /\ at = "head" =>
         /\ toClient \in Seq(Token)
         /\ \/ toClient[1] # "head" /\ Len(toClient) = 3 /\ asked = {}
            \/ /\ toClient[1] = "head" /\ Len(toClient) = wanted + 2
               /\ Carries(toClient[4])
    /\ at = "rest" =>
         toClient \in Seq(Token) /\ Len(toClient) = wanted + 1 /\ Carries(toClient[3])
    /\ at = "refused" => toClient \in Seq(Token) /\ Len(toClient) = 2 /\ asked = {}

IInv == TypeOK /\ StatusFollowsCommand /\ ReplyFits

(* The file and the device's bits hold at first what no command says.      *)
LEMMA InitHolds == Init => IInv
<1> SUFFICES ASSUME Init PROVE IInv
  OBVIOUS
<1>1. 0 \in Word
  BY Words
<1>2. TypeOK
  BY <1>1 DEF Init, TypeOK, RegisterFile
<1>3. StatusFollowsCommand
  <2>1. \A a \in {kCommandAddress, kStatusAddress} : BytesAt(registers, a)[0] = 0
    <3>1. ASSUME NEW a \in {kCommandAddress, kStatusAddress}
          PROVE  BytesAt(registers, a)[0] = 0
      <4>1. a \in Registers /\ a \in Nat
        BY Layout DEF Registers, kRegisterCount
      <4>2. registers[a] = 0
        BY <4>1 DEF Init
      <4>3. 0 \div 256 = 0
        OBVIOUS
      <4> QED
        BY <4>1, <4>2, <4>3, BytesOfBlock
    <3> QED
      BY <3>1
  <2>2. 0 % 2 = 0 /\ (0 \div 8) % 2 = 0 /\ (0 \div 16) % 4 = 0
    OBVIOUS
  <2>3. ASSUME NEW b, b[0] = 0
        PROVE  /\ ~CommandOf(b).act /\ ~CommandOf(b).gto
               /\ ~StatusOf(b).act /\ ~StatusOf(b).gto /\ StatusOf(b).sta = 0
    <3>1. b[0] % 2 # 1 /\ (b[0] \div 8) % 2 # 1 /\ (b[0] \div 16) % 4 = 0
      BY <2>2, <2>3
    <3> QED
      BY <3>1 DEF CommandOf, StatusOf
  <2>4. /\ ~command(registers).act /\ ~command(registers).gto
        /\ ~statusIn(registers).act /\ ~statusIn(registers).gto
        /\ statusIn(registers).sta = 0
    BY <2>1, <2>3 DEF command, statusIn
  <2>5. command(registers) \in CommandFields /\ statusIn(registers) \in StatusFields
    BY <1>2, FieldsOfFile DEF TypeOK
  <2>6. /\ command(registers).act = FALSE /\ command(registers).gto = FALSE
        /\ statusIn(registers).act = FALSE /\ statusIn(registers).gto = FALSE
    BY <2>4, <2>5 DEF CommandFields, StatusFields
  <2>7. activationDone = FALSE /\ previousActivateBit = FALSE
    BY DEF Init
  <2>8. (statusIn(registers).sta = 3) = FALSE
    BY <2>4
  <2> QED
    BY <2>6, <2>7, <2>8 DEF StatusFollowsCommand
<1>4. ReplyFits
  BY DEF Init, ReplyFits, Returns
<1> QED
  BY <1>2, <1>3, <1>4 DEF IInv

-----------------------------------------------------------------------------
(* The steps.                                                              *)

(* A request that is answered, or refused, leaves a reply that fits.       *)
LEMMA SendFits ==
  ASSUME TypeOK, ReplyFits, NEW opening, NEW n \in Nat, NEW w \in Seq(Token),
         Sends(opening, n), Replies(w),
         \/ w[1] # "head" /\ Len(w) = 3 /\ opening = {}
         \/ /\ w[1] = "head" /\ Len(w) = n + 2
            /\ opening # {} =>
                 /\ n = kRegisterCountOnWire
                 /\ \A a \in opening : \A back \in openingFromRegister(w[4] \div 256, a.profile) :
                      Near(back, a.opening, a.profile)
  PROVE  ReplyFits'
<1>1. toClient = <<>> /\ at' = "head" /\ asked' = opening /\ wanted' = n
  BY DEF Sends, ReplyFits
<1>2. toClient' = w
  BY <1>1, ConcatEmptySeq DEF Replies
<1>3. CASE w[1] # "head" /\ Len(w) = 3 /\ opening = {}
  BY <1>1, <1>2, <1>3 DEF ReplyFits
<1>4. CASE /\ w[1] = "head" /\ Len(w) = n + 2
           /\ opening # {} =>
                /\ n = kRegisterCountOnWire
                /\ \A a \in opening : \A back \in openingFromRegister(w[4] \div 256, a.profile) :
                     Near(back, a.opening, a.profile)
  <2>1. Carries(toClient[4])'
    BY <1>1, <1>2, <1>4 DEF Carries, Returns
  <2> QED
    BY <1>1, <1>2, <1>4, <2>1 DEF ReplyFits
<1> QED
  BY <1>3, <1>4

(* Without an opening it needs the right length only.                      *)
LEMMA SendFitsAny ==
  ASSUME TypeOK, ReplyFits, NEW n \in Nat, NEW w \in Seq(Word), Len(w) = n,
         Sends({}, n), Replies(Answer(w)) \/ Replies(Refusal)
  PROVE  ReplyFits'
<1>1. CASE Replies(Answer(w))
  <2>1. Answer(w) \in Seq(Token) /\ Len(Answer(w)) = n + 2 /\ Answer(w)[1] = "head"
    BY AnswerFacts
  <2> QED
    BY <1>1, <2>1, SendFits
<1>2. CASE Replies(Refusal)
  BY <1>2, RefusalFacts, SendFits
<1> QED
  BY <1>1, <1>2

(* Reading changes nothing in the device.                                  *)
LEMMA DeviceFrame ==
  ASSUME IInv, UNCHANGED deviceVars
  PROVE  registers' \in RegisterFile /\ StatusFollowsCommand'
<1>1. UNCHANGED <<registers, previousActivateBit, activationDone>>
  BY DEF deviceVars
<1>2. registers' \in RegisterFile
  BY <1>1 DEF IInv, TypeOK
<1>3. StatusFollowsCommand'
  <2>1. command(registers)' = command(registers) /\ statusIn(registers)' = statusIn(registers)
    BY <1>1 DEF command, statusIn, BytesAt, BlockAt
  <2>2. StatusFollowsCommand
    BY DEF IInv
  <2> QED
    BY <1>1, <2>1, <2>2 DEF StatusFollowsCommand
<1> QED
  BY <1>2, <1>3

(* A request to read keeps the invariant.                                  *)
LEMMA ReadStep ==
  ASSUME IInv, NEW a \in Nat, NEW n \in Nat, Sends({}, n), handle_read_registers(a, n)
  PROVE  IInv'
<1>1. UNCHANGED deviceVars
  BY DEF handle_read_registers, Refuses
<1>2. TypeOK'
  BY <1>1, DeviceFrame DEF Sends, TypeOK
<1>3. ReplyFits'
  <2>1. TypeOK /\ ReplyFits /\ registers \in RegisterFile
    BY DEF IInv, TypeOK
  <2>2. CASE containsRange(a, n) /\ Replies(Answer(read(registers, a, n)))
    BY <2>1, <2>2, ReadFacts, SendFitsAny
  <2>3. CASE Refuses
    <3>1. Replies(Refusal)
      BY <2>3 DEF Refuses
    <3> QED
      BY <2>1, <3>1, RefusalFacts, SendFits
  <2> QED
    BY <2>2, <2>3 DEF handle_read_registers
<1> QED
  BY <1>1, <1>2, <1>3, DeviceFrame DEF IInv

(* A request to write keeps it, accepted or refused.                       *)
LEMMA WriteStep ==
  ASSUME IInv, NEW a \in Nat, NEW n \in Nat, NEW words,
         \A i \in 0..(n - 1) : words[i] \in Word,
         Sends({}, 0), handle_write_multiple_registers(a, n, words)
  PROVE  IInv'
<1>1. TypeOK /\ ReplyFits /\ StatusFollowsCommand /\ registers \in RegisterFile
  BY DEF IInv, TypeOK
<1>2. registers' \in RegisterFile /\ StatusFollowsCommand'
  <2>1. CASE write(a, n, words)
    BY <1>1, <2>1, WriteEffect
  <2>2. CASE Refuses
    BY <2>2, DeviceFrame DEF Refuses
  <2> QED
    BY <2>1, <2>2 DEF handle_write_multiple_registers
<1>3. TypeOK'
  BY <1>2 DEF Sends, TypeOK
<1>4. ReplyFits'
  <2>1. Replies(Answer(<<>>)) \/ Replies(Refusal)
    BY DEF handle_write_multiple_registers, Refuses
  <2>2. <<>> \in Seq(Word) /\ Len(<<>>) = 0
    BY EmptySeq
  <2> QED
    BY <1>1, <2>1, <2>2, SendFitsAny
<1> QED
  BY <1>2, <1>3, <1>4 DEF IInv

(* A command stored in its block is the one that was sent.                 *)
LEMMA CommandStored ==
  ASSUME NEW r \in RegisterFile, NEW c \in CommandFields
  PROVE  LET stored == Stored(r, kCommandAddress, kRegisterCountOnWire, CommandWords(c))
         IN  command(stored).pos = c.pos
<1> DEFINE words == CommandWords(c)
           stored == Stored(r, kCommandAddress, kRegisterCountOnWire, words)
<1>1. (\A i \in 0..(kRegisterCountOnWire - 1) : words[i] \in Word) /\ words[1] = c.pos
  BY CommandWordsType
<1> HIDE DEF words
<1>2. 1 \in 0..(kRegisterCountOnWire - 1) /\ kCommandAddress + 1 \in Registers
  BY Layout DEF Registers, kRegisterCount
<1>3. stored[kCommandAddress + 1] = words[1]
  BY <1>1, <1>2, StoredFacts, Layout
<1> HIDE DEF stored
<1>4. BytesAt(stored, kCommandAddress)[3] = words[1] % 256
  BY <1>3, BytesOfBlock, Layout
<1>5. words[1] % 256 = c.pos
  <2>1. c.pos \in Nat /\ c.pos < 256
    BY DEF CommandFields, Byte
  <2> QED
    BY <1>1, <2>1
<1>6. command(stored).pos = c.pos
  BY <1>4, <1>5 DEF command, CommandOf
<1> QED
  BY <1>6 DEF stored, words

(* The exchange: written, then read, so that the position in the answer is *)
(* the one that was asked for.                                             *)
LEMMA ExchangeStep ==
  ASSUME IInv, NEW p, NEW o, NEW c \in CommandFields,
         \A back \in openingFromRegister(c.pos, p) : Near(back, o, p),
         exchange(p, o, c)
  PROVE  IInv'
<1> DEFINE n == kRegisterCountOnWire
           words == CommandWords(c)
           stored == Stored(registers, kCommandAddress, n, words)
           w == read(registers', kStatusAddress, n)
           opening == {[profile |-> p, opening |-> o]}
<1>1. TypeOK /\ ReplyFits /\ StatusFollowsCommand /\ registers \in RegisterFile
  BY DEF IInv, TypeOK
<1>2. Sends(opening, n) /\ write(kCommandAddress, n, words) /\ Replies(Answer(w))
  BY DEF exchange, handle_read_write_registers
<1>3. \A i \in 0..(n - 1) : words[i] \in Word
  BY CommandWordsType
<1>4. /\ registers' \in RegisterFile /\ StatusFollowsCommand'
      /\ statusIn(registers').pos = command(stored).pos
  BY <1>1, <1>2, <1>3, WriteEffect, Layout
<1>5. command(stored).pos = c.pos
  BY <1>1, CommandStored
<1>6. containsRange(kStatusAddress, n)
  BY Layout DEF containsRange, kRegisterCount
<1>7. /\ w \in Seq(Word) /\ Len(w) = n
      /\ \A k \in 1..n :
           ~InCommandBlock(kStatusAddress + k - 1) => w[k] = registers'[kStatusAddress + k - 1]
  BY <1>4, <1>6, ReadFacts, Layout
<1>8. w[3] = registers'[kStatusAddress + 2]
  <2>1. 3 \in 1..n /\ kStatusAddress + 3 - 1 = kStatusAddress + 2
          /\ ~InCommandBlock(kStatusAddress + 3 - 1)
    BY Layout DEF InCommandBlock
  <2> QED
    BY <1>7, <2>1
<1> HIDE DEF w
<1>9. w[3] \div 256 = c.pos
  <2>1. BytesAt(registers', kStatusAddress)[4] = registers'[kStatusAddress + 2] \div 256
    BY BytesOfBlock, Layout
  <2>2. statusIn(registers').pos = BytesAt(registers', kStatusAddress)[4]
    BY DEF statusIn, StatusOf
  <2> QED
    BY <1>4, <1>5, <1>8, <2>1, <2>2
<1>10. /\ Answer(w) \in Seq(Token) /\ Len(Answer(w)) = n + 2 /\ Answer(w)[1] = "head"
       /\ Answer(w)[4] = w[3]
  <2>1. 3 \in 1..Len(w) /\ 3 + 1 = 4
    BY <1>7, Layout
  <2>2. \A i \in 1..Len(w) : Answer(w)[i + 1] = w[i]
    BY <1>7, AnswerFacts
  <2>3. Answer(w)[4] = w[3]
    BY <2>1, <2>2
  <2> QED
    BY <1>7, <2>3, AnswerFacts
<1>11. \A a \in opening : \A back \in openingFromRegister(Answer(w)[4] \div 256, a.profile) :
         Near(back, a.opening, a.profile)
  BY <1>9, <1>10
<1> HIDE DEF opening
<1>12. ReplyFits'
  BY <1>1, <1>2, <1>10, <1>11, SendFits, Layout
<1>13. TypeOK'
  BY <1>2, <1>4, Layout DEF Sends, TypeOK
<1> QED
  BY <1>4, <1>12, <1>13 DEF IInv

(* The rest of a sequence after its first k elements.                      *)
LEMMA RestOf ==
  ASSUME NEW q \in Seq(Token), NEW k \in Nat, k <= Len(q)
  PROVE  /\ SubSeq(q, k + 1, Len(q)) \in Seq(Token)
         /\ Len(SubSeq(q, k + 1, Len(q))) = Len(q) - k
         /\ \A i \in 1..(Len(q) - k) : SubSeq(q, k + 1, Len(q))[i] = q[k + i]
<1>1. Len(q) \in Nat /\ \A i \in 1..Len(q) : q[i] \in Token
  BY LenProperties, ElementOfSeq
<1>2. k + 1 \in Int /\ Len(q) \in Int /\ \A i \in (k + 1)..Len(q) : q[i] \in Token
  BY <1>1
<1> DEFINE m == k + 1
           t == SubSeq(q, m, Len(q))
<1>3. /\ t \in Seq(Token) /\ Len(t) = (IF m <= Len(q) THEN Len(q) - m + 1 ELSE 0)
      /\ \A i \in 1..(Len(q) - m + 1) : t[i] = q[m + i - 1]
  <2> HIDE DEF m
  <2>1. m \in Int /\ Len(q) \in Int /\ \A i \in m..Len(q) : q[i] \in Token
    BY <1>2 DEF m
  <2> QED
    BY <2>1, SubSeqProperties
<1> HIDE DEF t
<1>4. Len(t) = Len(q) - k
  BY <1>1, <1>3
<1>5. \A i \in 1..(Len(q) - k) : t[i] = q[k + i]
  <2>1. \A i \in 1..(Len(q) - k) : i \in 1..(Len(q) - m + 1) /\ m + i - 1 = k + i
    BY <1>1
  <2> QED
    BY <1>3, <2>1
<1> QED
  BY <1>3, <1>4, <1>5 DEF t

(* The client takes the head of a reply, and then all the rest.            *)
LEMMA TakeHeadStep == IInv /\ TakeHead => IInv'
<1> SUFFICES ASSUME IInv, TakeHead PROVE IInv'
  OBVIOUS
<1>1. /\ at = "head" /\ UNCHANGED <<deviceVars, wanted, asked, status>>
      /\ toClient' = SubSeq(toClient, drain(1) + 1, Len(toClient))
      /\ at' = IF Head(toClient) = "head" THEN "rest" ELSE "refused"
  BY DEF TakeHead
<1>2. /\ toClient \in Seq(Token) /\ wanted \in Nat
      /\ \/ toClient[1] # "head" /\ Len(toClient) = 3 /\ asked = {}
         \/ /\ toClient[1] = "head" /\ Len(toClient) = wanted + 2 /\ Carries(toClient[4])
  BY <1>1 DEF IInv, ReplyFits, TypeOK
<1>3. Len(toClient) \in Nat /\ Len(toClient) >= 2 /\ drain(1) = 1
  <2>1. Len(toClient) \in Nat
    BY <1>2, LenProperties
  <2>2. Len(toClient) >= 2
    BY <1>2
  <2>3. 1 < Len(toClient)
    BY <2>1, <2>2
  <2> QED
    BY <2>1, <2>2, <2>3 DEF drain
<1>4. Head(toClient) = toClient[1]
  BY <1>2, <1>3
<1>5. /\ toClient' \in Seq(Token) /\ Len(toClient') = Len(toClient) - 1
      /\ \A i \in 1..(Len(toClient) - 1) : toClient'[i] = toClient[1 + i]
  <2>1. toClient' = SubSeq(toClient, 1 + 1, Len(toClient))
    BY <1>1, <1>3
  <2>2. 1 \in Nat /\ 1 <= Len(toClient)
    BY <1>3
  <2> QED
    BY <1>2, <2>1, <2>2, RestOf, Zenon
<1>6. ReplyFits'
  <2>1. CASE toClient[1] # "head" /\ Len(toClient) = 3 /\ asked = {}
    <3>1. at' = "refused" /\ Len(toClient') = 2 /\ asked' = {}
      BY <1>1, <1>4, <1>5, <2>1
    <3> QED
      BY <1>5, <3>1 DEF ReplyFits
  <2>2. CASE toClient[1] = "head" /\ Len(toClient) = wanted + 2 /\ Carries(toClient[4])
    <3>1. at' = "rest" /\ Len(toClient') = wanted' + 1
      BY <1>1, <1>2, <1>4, <1>5, <2>2
    <3>2. Carries(toClient[3])'
      <4>1. wanted = kRegisterCountOnWire => toClient'[3] = toClient[4]
        <5>1. wanted = kRegisterCountOnWire => 3 \in 1..(Len(toClient) - 1)
          BY <1>3, <2>2, Layout
        <5>2. 1 + 3 = 4
          OBVIOUS
        <5> QED
          BY <1>5, <5>1, <5>2
      <4> QED
        BY <1>1, <2>2, <4>1 DEF Carries, Returns
    <3> QED
      BY <1>5, <3>1, <3>2 DEF ReplyFits
  <2> QED
    BY <1>2, <2>1, <2>2
<1>7. TypeOK'
  BY <1>1, DeviceFrame DEF IInv, TypeOK
<1> QED
  BY <1>1, <1>6, <1>7, DeviceFrame DEF IInv

(* The position it takes is the one that was asked for.                    *)
LEMMA TakeRestStep == IInv /\ TakeRest => IInv'
<1> SUFFICES ASSUME IInv, TakeRest PROVE IInv'
  OBVIOUS
<1> DEFINE words == SubSeq(toClient, 1, wanted)
<1>1. /\ at = "rest" /\ at' = "idle" /\ UNCHANGED <<deviceVars, wanted, asked>>
      /\ toClient' = SubSeq(toClient, drain(wanted + 1) + 1, Len(toClient))
      /\ wanted = kRegisterCountOnWire =>
           status' = bytesFromRegisters([i \in 0..(wanted - 1) |-> words[i + 1]], wanted)
  BY DEF TakeRest
<1>2. /\ toClient \in Seq(Token) /\ wanted \in Nat /\ Len(toClient) = wanted + 1
      /\ Carries(toClient[3])
  BY <1>1 DEF IInv, ReplyFits, TypeOK
<1>3. toClient' = <<>>
  <2>1. drain(wanted + 1) = Len(toClient) /\ Len(toClient) \in Nat
    BY <1>2 DEF drain
  <2>2. Len(toClient) + 1 \in Int /\ Len(toClient) \in Int /\ Len(toClient) < Len(toClient) + 1
    BY <2>1
  <2> QED
    BY <1>1, <2>1, <2>2, SubSeqEmpty
<1>4. Returns(status[4])'
  <2>1. ASSUME asked # {} PROVE Returns(status[4])'
    <3>1. wanted = kRegisterCountOnWire /\ Returns(toClient[3] \div 256)
      BY <1>2, <2>1 DEF Carries
    <3>2. words[3] = toClient[3]
      <4>1. \A i \in 1..wanted : toClient[i] \in Token
        BY <1>2, ElementOfSeq
      <4>2. \A i \in 1..(wanted - 1 + 1) : words[i] = toClient[1 + i - 1]
        BY <1>2, <4>1, SubSeqProperties
      <4>3. 3 \in 1..(wanted - 1 + 1) /\ 1 + 3 - 1 = 3
        BY <3>1, Layout
      <4> HIDE DEF words
      <4>4. words[3] = toClient[1 + 3 - 1]
        BY <4>2, <4>3
      <4> QED
        BY <4>3, <4>4
    <3> DEFINE f == [i \in 0..(wanted - 1) |-> words[i + 1]]
    <3>3. f[2] = words[3]
      <4>1. 2 \in 0..(wanted - 1) /\ 2 + 1 = 3
        BY <3>1, Layout
      <4> QED
        BY <4>1
    <3> HIDE DEF f
    <3>4. bytesFromRegisters(f, wanted)[4] = f[2] \div 256
      BY <3>1, BytesFromRegisters, Layout
    <3>5. status'[4] = toClient[3] \div 256
      BY <1>1, <3>1, <3>2, <3>3, <3>4 DEF f
    <3> QED
      BY <1>1, <3>1, <3>5 DEF Returns
  <2>2. ASSUME asked = {} PROVE Returns(status[4])'
    BY <1>1, <2>2 DEF Returns
  <2> QED
    BY <2>1, <2>2
<1>5. ReplyFits'
  BY <1>1, <1>3, <1>4 DEF ReplyFits
<1>6. TypeOK'
  BY <1>1, DeviceFrame DEF IInv, TypeOK
<1> QED
  BY <1>1, <1>5, <1>6, DeviceFrame DEF IInv

(* Of a refusal it takes the code and the checksum.                        *)
LEMMA TakeExceptionStep == IInv /\ TakeException => IInv'
<1> SUFFICES ASSUME IInv, TakeException PROVE IInv'
  OBVIOUS
<1>1. /\ at = "refused" /\ at' = "idle" /\ UNCHANGED <<deviceVars, wanted, asked, status>>
      /\ toClient' = SubSeq(toClient, drain(2) + 1, Len(toClient))
  BY DEF TakeException
<1>2. Len(toClient) = 2 /\ asked = {}
  BY <1>1 DEF IInv, ReplyFits
<1>3. toClient' = <<>>
  <2>1. drain(2) = 2
    BY <1>2 DEF drain
  <2>2. toClient' = SubSeq(toClient, 3, 2)
    BY <1>1, <1>2, <2>1
  <2> QED
    BY <2>2, SubSeqEmpty
<1>4. ReplyFits'
  BY <1>1, <1>2, <1>3 DEF ReplyFits, Returns
<1>5. TypeOK'
  BY <1>1, DeviceFrame DEF IInv, TypeOK
<1> QED
  BY <1>1, <1>4, <1>5, DeviceFrame DEF IInv

(* A staged fault changes nothing else of the status.                      *)
LEMMA StageEffect ==
  ASSUME IInv, NEW fault \in Faults, Stage(fault)
  PROVE  IInv' /\ statusIn(registers').fault = fault /\ fault # 0
<1> DEFINE s == [statusIn(registers) EXCEPT !.fault = fault]
<1>1. /\ registers' = setStatus(registers, s)
      /\ UNCHANGED <<previousActivateBit, activationDone, toClient, at, wanted, asked, status>>
  BY DEF Stage
<1>2. registers \in RegisterFile /\ fault \in Byte /\ fault # 0
  BY RegisterAssumption DEF IInv, TypeOK, Byte
<1>3. statusIn(registers) \in StatusFields
  BY <1>2, FieldsOfFile
<1>4. /\ s \in StatusFields /\ s.fault = fault
      /\ s.act = statusIn(registers).act /\ s.gto = statusIn(registers).gto
      /\ s.sta = statusIn(registers).sta
  BY <1>2, <1>3 DEF StatusFields
<1> HIDE DEF s
<1>5. registers' \in RegisterFile /\ statusIn(registers') = s
  BY <1>1, <1>2, <1>4, SetStatus
<1>6. command(registers') = command(registers)
  BY <1>1, <1>2, <1>4, SetStatusKeepsCommand
<1>7. StatusFollowsCommand'
  <2>1. command(registers)' = command(registers) /\ statusIn(registers)' = s
    BY <1>5, <1>6 DEF command, statusIn, BytesAt, BlockAt
  <2>2. StatusFollowsCommand
    BY DEF IInv
  <2> QED
    BY <1>1, <1>4, <2>1, <2>2 DEF StatusFollowsCommand
<1>8. ReplyFits'
  BY <1>1 DEF IInv, ReplyFits, Returns, Carries
<1>9. TypeOK'
  BY <1>1, <1>5 DEF IInv, TypeOK
<1> QED
  BY <1>2, <1>4, <1>5, <1>7, <1>8, <1>9 DEF IInv

(* A raw write's word.                                                     *)
LEMMA RawWords ==
  ASSUME NEW w \in RawWrites
  PROVE  /\ w[1] \in Nat
         /\ \A i \in 0..(1 - 1) : [j \in {0} |-> w[2]][i] \in Word
<1>1. w[1] \in Nat /\ w[2] \in Word
  BY RegisterAssumption
<1>2. 0..(1 - 1) = {0}
  OBVIOUS
<1> QED
  BY <1>1, <1>2

(* Every step keeps the invariant.                                         *)
LEMMA NextStep == IInv /\ [Next]_vars => IInv'
<1> SUFFICES ASSUME IInv, [Next]_vars PROVE IInv'
  OBVIOUS
<1>1. CASE readStatus
  BY <1>1, ReadStep, Layout DEF readStatus
<1>2. ASSUME NEW p \in Grippers, NEW o \in Openings, NEW act \in BOOLEAN, NEW gto \in BOOLEAN,
             NEW c \in CommandFor(p, o, act, gto), writeCommand(c) \/ exchange(p, o, c)
      PROVE  IInv'
  <2>1. c \in CommandFields /\ \A back \in openingFromRegister(c.pos, p) : Near(back, o, p)
    BY <1>2, CommandForType
  <2>2. CASE writeCommand(c)
    BY <2>1, <2>2, WriteStep, CommandWordsType, Layout DEF writeCommand
  <2>3. CASE exchange(p, o, c)
    BY <2>1, <2>3, ExchangeStep
  <2> QED
    BY <1>2, <2>2, <2>3
<1>3. ASSUME NEW a \in 0..kRegisterCount, RawRead(a) PROVE IInv'
  <2>1. a \in Nat
    BY Layout DEF kRegisterCount
  <2> QED
    BY <1>3, <2>1, ReadStep DEF RawRead
<1>4. ASSUME NEW w \in RawWrites, RawWrite(w[1], w[2]) PROVE IInv'
  BY <1>4, RawWords, WriteStep DEF RawWrite
<1>5. CASE TakeHead \/ TakeRest \/ TakeException
  BY <1>5, TakeHeadStep, TakeRestStep, TakeExceptionStep
<1>6. ASSUME NEW fault \in Faults, Stage(fault) PROVE IInv'
  BY <1>6, StageEffect
<1>7. CASE UNCHANGED vars
  <2>1. UNCHANGED deviceVars /\ UNCHANGED <<toClient, at, wanted, asked, status>>
    BY <1>7 DEF vars
  <2>2. ReplyFits' /\ TypeOK'
    BY <2>1, DeviceFrame DEF IInv, ReplyFits, TypeOK, Returns, Carries
  <2> QED
    BY <2>1, <2>2, DeviceFrame DEF IInv
<1> QED
  BY <1>1, <1>2, <1>3, <1>4, <1>5, <1>6, <1>7 DEF Next

(* It holds in every state.                                                *)
LEMMA Invariant == Spec => []IInv
  BY InitHolds, NextStep, PTL DEF Spec

(* The words of a reply are all taken by the call that asked for it,       *)
(* whatever it reads, writes or is refused.                                *)
THEOREM LineIsEmpty == Spec => []NothingLeftBehind
<1>1. IInv => NothingLeftBehind
  BY DEF IInv, ReplyFits, NothingLeftBehind
<1> QED
  BY <1>1, Invariant, PTL

(* The status block reports on the command block for any register map and  *)
(* any writes, those into the status block included.                       *)
THEOREM StatusReportsCommand == Spec => []StatusFollowsCommand
<1>1. IInv => StatusFollowsCommand
  BY DEF IInv
<1> QED
  BY <1>1, Invariant, PTL

(* The opening an exchange asks for comes back within half a register      *)
(* step, for any profile and any opening: rounding, packing, the           *)
(* registers, the reply and the scaling back.                              *)
THEOREM OpeningComesBack == Spec => []OpeningReadsBack
<1>1. IInv => OpeningReadsBack
  BY DEF IInv, ReplyFits, Returns, Near, OpeningReadsBack
<1> QED
  BY <1>1, Invariant, PTL

-----------------------------------------------------------------------------
(* Faults.  A raw write into the register that holds the fault replaces    *)
(* it, as the device's own write does; no other write may.                 *)
SparesFault == \A w \in RawWrites : w[1] # kStatusAddress + 1

(* What FaultLatches says of a step.                                       *)
Latches ==
    statusIn(registers).fault # 0 /\ command(registers').act
      => statusIn(registers').fault # 0

(* Words that are stored elsewhere leave a fault to latch ...              *)
LEMMA WriteLatches ==
  ASSUME IInv, NEW a \in Nat, NEW n \in Nat, NEW words,
         \A i \in 0..(n - 1) : words[i] \in Word,
         kStatusAddress + 1 \notin a..(a + n - 1), write(a, n, words)
  PROVE  Latches
<1> DEFINE stored == Stored(registers, a, n, words)
<1>1. registers \in RegisterFile /\ StatusFollowsCommand
  BY DEF IInv, TypeOK
<1>2. /\ command(registers') = command(stored)
      /\ statusIn(registers').fault = FaultKept(command(stored).act, statusIn(stored).fault)
  BY <1>1, WriteEffect
<1>3. stored[kStatusAddress + 1] = registers[kStatusAddress + 1]
  <2>1. kStatusAddress + 1 \in Registers
    BY Layout DEF Registers, kRegisterCount
  <2> QED
    BY <1>1, <2>1, StoredFacts
<1> HIDE DEF stored
<1>4. statusIn(stored).fault = statusIn(registers).fault
  <2>1. BytesAt(stored, kStatusAddress)[2] = BytesAt(registers, kStatusAddress)[2]
    BY <1>3, BytesOfBlock, Layout
  <2> QED
    BY <2>1 DEF statusIn, StatusOf
<1> QED
  BY <1>2, <1>4 DEF Latches, FaultKept

(* ... also when the range is refused.                                     *)
LEMMA HandlerLatches ==
  ASSUME IInv, NEW a \in Nat, NEW n \in Nat, NEW words,
         \A i \in 0..(n - 1) : words[i] \in Word,
         kStatusAddress + 1 \notin a..(a + n - 1),
         handle_write_multiple_registers(a, n, words)
  PROVE  Latches
<1>1. CASE write(a, n, words)
  BY <1>1, WriteLatches
<1>2. CASE Refuses
  BY <1>2 DEF Refuses, deviceVars, Latches
<1> QED
  BY <1>1, <1>2 DEF handle_write_multiple_registers

(* Every step keeps a latched fault.                                       *)
LEMMA StepLatches == SparesFault /\ IInv /\ [Next]_vars => Latches
<1> SUFFICES ASSUME SparesFault, IInv, [Next]_vars PROVE Latches
  OBVIOUS
<1>1. CASE UNCHANGED registers
  BY <1>1 DEF Latches
<1>2. kStatusAddress + 1 \notin kCommandAddress..(kCommandAddress + kRegisterCountOnWire - 1)
  BY Layout
<1>3. ASSUME NEW p \in Grippers, NEW o \in Openings, NEW act \in BOOLEAN, NEW gto \in BOOLEAN,
             NEW c \in CommandFor(p, o, act, gto), writeCommand(c) \/ exchange(p, o, c)
      PROVE  Latches
  <2>1. \A i \in 0..(kRegisterCountOnWire - 1) : CommandWords(c)[i] \in Word
    BY <1>3, CommandForType, CommandWordsType
  <2>2. CASE writeCommand(c)
    BY <1>2, <2>1, <2>2, HandlerLatches, Layout DEF writeCommand
  <2>3. CASE exchange(p, o, c)
    BY <1>2, <2>1, <2>3, WriteLatches, Layout DEF exchange, handle_read_write_registers
  <2> QED
    BY <1>3, <2>2, <2>3
<1>4. ASSUME NEW w \in RawWrites, RawWrite(w[1], w[2]) PROVE Latches
  <2>1. w[1] # kStatusAddress + 1 /\ w[1] \in Nat
    BY RawWords DEF SparesFault
  <2>2. kStatusAddress + 1 \notin w[1]..(w[1] + 1 - 1)
    BY <2>1, Layout
  <2> QED
    BY <1>4, <2>1, <2>2, RawWords, HandlerLatches DEF RawWrite
<1>5. ASSUME NEW fault \in Faults, Stage(fault) PROVE Latches
  BY <1>5, StageEffect DEF Latches
<1>6. CASE \/ readStatus \/ TakeHead \/ TakeRest \/ TakeException
           \/ \E a \in 0..kRegisterCount : RawRead(a)
  <2>1. UNCHANGED registers
    BY <1>6 DEF readStatus, RawRead, handle_read_registers, Refuses, TakeHead, TakeRest,
                TakeException, deviceVars
  <2> QED
    BY <1>1, <2>1
<1>7. CASE UNCHANGED vars
  BY <1>1, <1>7 DEF vars, deviceVars
<1> QED
  BY <1>3, <1>4, <1>5, <1>6, <1>7 DEF Next

(* A fault stays until rACT is cleared, whatever else is written, staged   *)
(* or exchanged; only a raw write into its own register is left out.       *)
THEOREM FaultIsLatched ==
  ASSUME SparesFault
  PROVE  Spec => FaultLatches
<1>1. IInv /\ [Next]_vars => [Latches]_vars
  BY StepLatches
<1> QED
  BY <1>1, Invariant, PTL DEF Spec, FaultLatches, Latches
=============================================================================
