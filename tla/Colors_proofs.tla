--------------------------- MODULE Colors_proofs ---------------------------
(***************************************************************************)
(* Theorems about the pure functions: the coding of a byte and the gamma   *)
(* correction for every component and level, the colours for every hue,    *)
(* saturation and number of mireds, and the timer's lengths for every      *)
(* 32 bit number of seconds.                                               *)
(***************************************************************************)
EXTENDS MCColors, TLAPS

-----------------------------------------------------------------------------
(* The coding of a byte. *)

Symbol(c, n) == IF Bit(c, n) = 0 THEN Zero ELSE One

(* The eight steps of the loop of byteToPulses. *)
LEMMA EightSymbols ==
  ASSUME NEW c \in Byte
  PROVE  \E f : /\ byteToPulses(c) = <<(f[8] \div 2^16) % 256, (f[8] \div 2^8) % 256, f[8] % 256>>
                /\ f[0] = 0
                /\ \A n \in 1..8 : f[n] = f[n - 1] * 8 + Symbol(c, n - 1)
<1> DEFINE
      s(n) == IF Bit(c, n) = 0 THEN Zero ELSE One
      Step(f) == [n \in 0..8 |-> IF n = 0 THEN 0 ELSE f[n - 1] * 8 + s(n - 1)]
      f1 == 0 * 8 + s(0)
      f2 == f1 * 8 + s(1)
      f3 == f2 * 8 + s(2)
      f4 == f3 * 8 + s(3)
      f5 == f4 * 8 + s(4)
      f6 == f5 * 8 + s(5)
      f7 == f6 * 8 + s(6)
      f8 == f7 * 8 + s(7)
      g == [n \in 0..8 |-> CASE n = 0 -> 0 [] n = 1 -> f1 [] n = 2 -> f2 [] n = 3 -> f3
                             [] n = 4 -> f4 [] n = 5 -> f5 [] n = 6 -> f6 [] n = 7 -> f7 [] n = 8 -> f8]
      f == CHOOSE h : h = Step(h)
<1>1. g = Step(g)
  <2> HIDE DEF s
  <2>1. \A n \in 0..8 : g[n] = Step(g)[n]
    BY SMT
  <2> QED BY <2>1, Zenon
<1>2. f = Step(f)
  <2> HIDE DEF g, Step
  <2> QED BY <1>1, Zenon
<1>3. byteToPulses(c) = <<(f[8] \div 2^16) % 256, (f[8] \div 2^8) % 256, f[8] % 256>>
  BY DEF byteToPulses
<1>4. f[0] = 0 /\ \A n \in 1..8 : f[n] = f[n - 1] * 8 + s(n - 1)
  <2> HIDE DEF f, s
  <2> QED BY <1>2
<1> QED
  BY <1>3, <1>4, Zenon DEF Symbol

(* The powers of two in the shifts. *)
LEMMA Powers == /\ 2^0 = 1 /\ 2^1 = 2 /\ 2^2 = 4 /\ 2^3 = 8 /\ 2^4 = 16
                /\ 2^5 = 32 /\ 2^6 = 64 /\ 2^7 = 128 /\ 2^8 = 256 /\ 2^16 = 65536
BY SMT

(* A byte is the number its eight bits write. *)
LEMMA BitsOfByte ==
  ASSUME NEW c \in Byte
  PROVE  /\ \A n \in 0..7 : Bit(c, n) \in 0..1
         /\ c = 128 * Bit(c, 0) + 64 * Bit(c, 1) + 32 * Bit(c, 2) + 16 * Bit(c, 3)
                  + 8 * Bit(c, 4) + 4 * Bit(c, 5) + 2 * Bit(c, 6) + Bit(c, 7)
<1>1. /\ Bit(c, 0) = (c \div 128) % 2 /\ Bit(c, 1) = (c \div 64) % 2
      /\ Bit(c, 2) = (c \div 32) % 2 /\ Bit(c, 3) = (c \div 16) % 2
      /\ Bit(c, 4) = (c \div 8) % 2 /\ Bit(c, 5) = (c \div 4) % 2
      /\ Bit(c, 6) = (c \div 2) % 2 /\ Bit(c, 7) = c % 2
  BY Powers DEF Bit, Byte
<1>2. \A n \in 0..7 : Bit(c, n) \in 0..1
  <2>1. \A n \in 0..7 : n = 0 \/ n = 1 \/ n = 2 \/ n = 3 \/ n = 4 \/ n = 5 \/ n = 6 \/ n = 7
    OBVIOUS
  <2>2. \A x \in Int : x % 2 \in 0..1
    OBVIOUS
  <2>3. /\ c \div 128 \in Int /\ c \div 64 \in Int /\ c \div 32 \in Int /\ c \div 16 \in Int
        /\ c \div 8 \in Int /\ c \div 4 \in Int /\ c \div 2 \in Int /\ c \in Int
    BY DEF Byte
  <2> QED
    BY <1>1, <2>1, <2>2, <2>3
<1>3. c \in Nat
  BY DEF Byte
<1>4. /\ c = 2 * (c \div 2) + (c % 2)
      /\ c \div 2 = 2 * (c \div 4) + ((c \div 2) % 2)
      /\ c \div 4 = 2 * (c \div 8) + ((c \div 4) % 2)
      /\ c \div 8 = 2 * (c \div 16) + ((c \div 8) % 2)
      /\ c \div 16 = 2 * (c \div 32) + ((c \div 16) % 2)
      /\ c \div 32 = 2 * (c \div 64) + ((c \div 32) % 2)
      /\ c \div 64 = 2 * (c \div 128) + ((c \div 64) % 2)
  BY <1>3
<1>5. /\ c = 2 * (c \div 2) + Bit(c, 7)
      /\ c \div 2 = 2 * (c \div 4) + Bit(c, 6)
      /\ c \div 4 = 2 * (c \div 8) + Bit(c, 5)
      /\ c \div 8 = 2 * (c \div 16) + Bit(c, 4)
      /\ c \div 16 = 2 * (c \div 32) + Bit(c, 3)
      /\ c \div 32 = 2 * (c \div 64) + Bit(c, 2)
      /\ c \div 64 = 2 * (c \div 128) + Bit(c, 1)
  BY <1>1, <1>4
<1>6. c \div 128 = Bit(c, 0)
  BY <1>1 DEF Byte
<1>7. /\ c \div 2 \in Int /\ c \div 4 \in Int /\ c \div 8 \in Int /\ c \div 16 \in Int
      /\ c \div 32 \in Int /\ c \div 64 \in Int
  BY DEF Byte
<1>8. /\ Bit(c, 0) \in Int /\ Bit(c, 1) \in Int /\ Bit(c, 2) \in Int /\ Bit(c, 3) \in Int
      /\ Bit(c, 4) \in Int /\ Bit(c, 5) \in Int /\ Bit(c, 6) \in Int /\ Bit(c, 7) \in Int
  BY <1>2
<1>9. c = 128 * Bit(c, 0) + 64 * Bit(c, 1) + 32 * Bit(c, 2) + 16 * Bit(c, 3)
            + 8 * Bit(c, 4) + 4 * Bit(c, 5) + 2 * Bit(c, 6) + Bit(c, 7)
  BY <1>5, <1>6, <1>7, <1>8, <1>3
<1> QED
  BY <1>2, <1>9

(* The bytes of the symbols: each bit is the middle one of its three.       *)
LEMMA CodedBytes ==
  ASSUME NEW c \in Byte
  PROVE  byteToPulses(c) =
           <<146 + 64 * Bit(c, 0) + 8 * Bit(c, 1) + Bit(c, 2),
             73 + 32 * Bit(c, 3) + 4 * Bit(c, 4),
             36 + 128 * Bit(c, 5) + 16 * Bit(c, 6) + 2 * Bit(c, 7)>>
<1>1. PICK f : /\ byteToPulses(c) = <<(f[8] \div 65536) % 256, (f[8] \div 256) % 256, f[8] % 256>>
               /\ f[0] = 0
               /\ \A n \in 1..8 : f[n] = f[n - 1] * 8 + Symbol(c, n - 1)
  BY EightSymbols, Powers
<1>2. \A n \in 0..7 : Bit(c, n) \in 0..1 /\ Symbol(c, n) = 4 + 2 * Bit(c, n)
  BY BitsOfByte DEF Symbol, Zero, One
<1>3. f[8] = 65536 * (146 + 64 * Bit(c, 0) + 8 * Bit(c, 1) + Bit(c, 2))
                + 256 * (73 + 32 * Bit(c, 3) + 4 * Bit(c, 4))
                + (36 + 128 * Bit(c, 5) + 16 * Bit(c, 6) + 2 * Bit(c, 7))
  <2>1. f[1] = 4 + 2 * Bit(c, 0)
    BY <1>1, <1>2
  <2>2. f[2] = 36 + 16 * Bit(c, 0) + 2 * Bit(c, 1)
    BY <1>1, <1>2, <2>1
  <2>3. f[3] = 292 + 128 * Bit(c, 0) + 16 * Bit(c, 1) + 2 * Bit(c, 2)
    BY <1>1, <1>2, <2>2
  <2>4. f[4] = 8 * f[3] + 4 + 2 * Bit(c, 3)
    BY <1>1, <1>2, <2>3
  <2>5. f[5] = 64 * f[3] + 36 + 16 * Bit(c, 3) + 2 * Bit(c, 4)
    BY <1>1, <1>2, <2>3, <2>4
  <2>6. f[6] = 8 * f[5] + 4 + 2 * Bit(c, 5)
    BY <1>1, <1>2, <2>3, <2>5
  <2>7. f[7] = 64 * f[5] + 36 + 16 * Bit(c, 5) + 2 * Bit(c, 6)
    BY <1>1, <1>2, <2>3, <2>5, <2>6
  <2>8. f[8] = 8 * f[7] + 4 + 2 * Bit(c, 7)
    BY <1>1, <1>2, <2>3, <2>5, <2>7
  <2> QED
    BY <1>2, <2>3, <2>5, <2>7, <2>8
<1> DEFINE hi  == 146 + 64 * Bit(c, 0) + 8 * Bit(c, 1) + Bit(c, 2)
           mid == 73 + 32 * Bit(c, 3) + 4 * Bit(c, 4)
           lo  == 36 + 128 * Bit(c, 5) + 16 * Bit(c, 6) + 2 * Bit(c, 7)
<1>4. hi \in Byte /\ mid \in Byte /\ lo \in Byte
  BY <1>2 DEF Byte
<1>5. f[8] = 65536 * hi + 256 * mid + lo
  BY <1>3
<1> HIDE DEF hi, mid, lo
<1>6. (f[8] \div 65536) % 256 = hi /\ (f[8] \div 256) % 256 = mid /\ f[8] % 256 = lo
  BY <1>4, <1>5 DEF Byte
<1>7. byteToPulses(c) = <<hi, mid, lo>>
  BY <1>1, <1>6
<1> QED
  BY <1>7 DEF hi, mid, lo

(* Any three bytes with these bits are read in threes: a one, the bit, a zero. *)
LEMMA BitsReceived ==
  ASSUME NEW c \in Byte
  PROVE  /\ \A i \in 1..3 : byteToPulses(c)[i] \in Byte
         /\ \A n \in 0..7 : /\ Received(byteToPulses(c), 3 * n) = 1
                           /\ Received(byteToPulses(c), 3 * n + 1) = Bit(c, n)
                           /\ Received(byteToPulses(c), 3 * n + 2) = 0
<1> DEFINE b(n) == Bit(c, n)
           p == byteToPulses(c)
<1>1. /\ p[1] = 146 + 64 * b(0) + 8 * b(1) + b(2)
      /\ p[2] = 73 + 32 * b(3) + 4 * b(4)
      /\ p[3] = 36 + 128 * b(5) + 16 * b(6) + 2 * b(7)
  BY CodedBytes
<1>2. \A n \in 0..7 : b(n) \in 0..1
  BY BitsOfByte
<1> HIDE DEF b, p
<1>3. /\ Received(p, 0) = 1 /\ Received(p, 1) = b(0) /\ Received(p, 2) = 0
      /\ Received(p, 3) = 1 /\ Received(p, 4) = b(1) /\ Received(p, 5) = 0
      /\ Received(p, 6) = 1 /\ Received(p, 7) = b(2)
  <2>1. /\ Received(p, 0) = (p[1] \div 128) % 2 /\ Received(p, 1) = (p[1] \div 64) % 2
        /\ Received(p, 2) = (p[1] \div 32) % 2 /\ Received(p, 3) = (p[1] \div 16) % 2
        /\ Received(p, 4) = (p[1] \div 8) % 2 /\ Received(p, 5) = (p[1] \div 4) % 2
        /\ Received(p, 6) = (p[1] \div 2) % 2 /\ Received(p, 7) = (p[1] \div 1) % 2
    BY Powers DEF Received
  <2>2. b(0) \in 0..1 /\ b(1) \in 0..1 /\ b(2) \in 0..1
    BY <1>2
  <2> QED
    BY <1>1, <2>1, <2>2
<1>4. /\ Received(p, 8) = 0
      /\ Received(p, 9) = 1 /\ Received(p, 10) = b(3) /\ Received(p, 11) = 0
      /\ Received(p, 12) = 1 /\ Received(p, 13) = b(4) /\ Received(p, 14) = 0
      /\ Received(p, 15) = 1
  <2>1. /\ Received(p, 8) = (p[2] \div 128) % 2 /\ Received(p, 9) = (p[2] \div 64) % 2
        /\ Received(p, 10) = (p[2] \div 32) % 2 /\ Received(p, 11) = (p[2] \div 16) % 2
        /\ Received(p, 12) = (p[2] \div 8) % 2 /\ Received(p, 13) = (p[2] \div 4) % 2
        /\ Received(p, 14) = (p[2] \div 2) % 2 /\ Received(p, 15) = (p[2] \div 1) % 2
    BY Powers DEF Received
  <2>2. b(3) \in 0..1 /\ b(4) \in 0..1
    BY <1>2
  <2> QED
    BY <1>1, <2>1, <2>2
<1>5. /\ Received(p, 16) = b(5) /\ Received(p, 17) = 0
      /\ Received(p, 18) = 1 /\ Received(p, 19) = b(6) /\ Received(p, 20) = 0
      /\ Received(p, 21) = 1 /\ Received(p, 22) = b(7) /\ Received(p, 23) = 0
  <2>1. /\ Received(p, 16) = (p[3] \div 128) % 2 /\ Received(p, 17) = (p[3] \div 64) % 2
        /\ Received(p, 18) = (p[3] \div 32) % 2 /\ Received(p, 19) = (p[3] \div 16) % 2
        /\ Received(p, 20) = (p[3] \div 8) % 2 /\ Received(p, 21) = (p[3] \div 4) % 2
        /\ Received(p, 22) = (p[3] \div 2) % 2 /\ Received(p, 23) = (p[3] \div 1) % 2
    BY Powers DEF Received
  <2>2. b(5) \in 0..1 /\ b(6) \in 0..1 /\ b(7) \in 0..1
    BY <1>2
  <2> QED
    BY <1>1, <2>1, <2>2
<1>6. p[1] \in Byte /\ p[2] \in Byte /\ p[3] \in Byte
  BY <1>1, <1>2 DEF Byte
<1>7. \A n \in 0..7 : n = 0 \/ n = 1 \/ n = 2 \/ n = 3 \/ n = 4 \/ n = 5 \/ n = 6 \/ n = 7
  OBVIOUS
<1>8. \A n \in 0..7 : Received(p, 3 * n) = 1 /\ Received(p, 3 * n + 1) = b(n)
                     /\ Received(p, 3 * n + 2) = 0
  BY <1>3, <1>4, <1>5, <1>7
<1>9. \A i \in 1..3 : p[i] \in Byte
  <2>1. \A i \in 1..3 : i = 1 \/ i = 2 \/ i = 3
    OBVIOUS
  <2> QED
    BY <1>6, <2>1, Zenon
<1> QED
  BY <1>8, <1>9 DEF b, p

(* What the device makes of eight symbols. *)
LEMMA EightBits ==
  ASSUME NEW pulses,
         \A n \in 1..8 : Received(pulses, 3 * n - 2) \in 0..1
  PROVE  Decoded(pulses) =
           128 * Received(pulses, 1) + 64 * Received(pulses, 4) + 32 * Received(pulses, 7)
             + 16 * Received(pulses, 10) + 8 * Received(pulses, 13) + 4 * Received(pulses, 16)
             + 2 * Received(pulses, 19) + Received(pulses, 22)
<1> DEFINE
      r(n) == Received(pulses, 3 * n - 2)
      Step(f) == [n \in 0..8 |-> IF n = 0 THEN 0 ELSE 2 * f[n - 1] + r(n)]
      d1 == 2 * 0 + r(1)
      d2 == 2 * d1 + r(2)
      d3 == 2 * d2 + r(3)
      d4 == 2 * d3 + r(4)
      d5 == 2 * d4 + r(5)
      d6 == 2 * d5 + r(6)
      d7 == 2 * d6 + r(7)
      d8 == 2 * d7 + r(8)
      g == [n \in 0..8 |-> CASE n = 0 -> 0 [] n = 1 -> d1 [] n = 2 -> d2 [] n = 3 -> d3
                             [] n = 4 -> d4 [] n = 5 -> d5 [] n = 6 -> d6 [] n = 7 -> d7 [] n = 8 -> d8]
      data == CHOOSE h : h = Step(h)
<1>1. g = Step(g)
  <2> HIDE DEF r
  <2>1. \A n \in 0..8 : g[n] = Step(g)[n]
    BY SMT
  <2> QED
    BY <2>1, Zenon
<1>2. data = Step(data)
  <2> HIDE DEF g, Step
  <2> QED
    BY <1>1, Zenon
<1>3. Decoded(pulses) = data[8]
  BY DEF Decoded
<1>4. /\ data[0] = 0 
      /\ data[1] = 2 * data[0] + r(1) /\ data[2] = 2 * data[1] + r(2)
      /\ data[3] = 2 * data[2] + r(3) /\ data[4] = 2 * data[3] + r(4)
      /\ data[5] = 2 * data[4] + r(5) /\ data[6] = 2 * data[5] + r(6)
      /\ data[7] = 2 * data[6] + r(7) /\ data[8] = 2 * data[7] + r(8)
  <2> HIDE DEF data, r
  <2> QED
    BY <1>2
<1>5. /\ r(1) \in Int /\ r(2) \in Int /\ r(3) \in Int /\ r(4) \in Int
      /\ r(5) \in Int /\ r(6) \in Int /\ r(7) \in Int /\ r(8) \in Int
  <2>1. \A n \in 1..8 : r(n) \in 0..1
    OBVIOUS
  <2> HIDE DEF r
  <2> QED
    BY <2>1
<1>6. data[8] = 128 * r(1) + 64 * r(2) + 32 * r(3) + 16 * r(4) + 8 * r(5) + 4 * r(6) + 2 * r(7) + r(8)
  <2> HIDE DEF data, r
  <2>1. data[2] = 2 * r(1) + r(2)
    BY <1>4, <1>5
  <2>2. data[4] = 8 * r(1) + 4 * r(2) + 2 * r(3) + r(4)
    BY <1>4, <1>5, <2>1
  <2>3. data[6] = 4 * data[4] + 2 * r(5) + r(6)
    BY <1>4, <1>5, <2>2
  <2> QED
    BY <1>4, <1>5, <2>2, <2>3
<1> QED
  BY <1>3, <1>6

(* What was coded is read back. *)
LEMMA ReadsBack ==
  ASSUME NEW c \in Byte
  PROVE  Decoded(byteToPulses(c)) = c
<1> DEFINE p == byteToPulses(c)
<1>1. /\ Received(p, 1) = Bit(c, 0) /\ Received(p, 4) = Bit(c, 1)
      /\ Received(p, 7) = Bit(c, 2) /\ Received(p, 10) = Bit(c, 3)
      /\ Received(p, 13) = Bit(c, 4) /\ Received(p, 16) = Bit(c, 5)
      /\ Received(p, 19) = Bit(c, 6) /\ Received(p, 22) = Bit(c, 7)
  <2>1. \A n \in 0..7 : Received(p, 3 * n + 1) = Bit(c, n)
    BY BitsReceived
  <2> HIDE DEF p
  <2> QED
    BY <2>1
<1>2. \A n \in 1..8 : Received(p, 3 * n - 2) \in 0..1
  <2>1. \A n \in 1..8 : n - 1 \in 0..7 /\ 3 * n - 2 = 3 * (n - 1) + 1
    OBVIOUS
  <2> QED
    BY <2>1, BitsReceived, BitsOfByte
<1> HIDE DEF p
<1>3. Decoded(p) = 128 * Bit(c, 0) + 64 * Bit(c, 1) + 32 * Bit(c, 2) + 16 * Bit(c, 3)
                     + 8 * Bit(c, 4) + 4 * Bit(c, 5) + 2 * Bit(c, 6) + Bit(c, 7)
  BY <1>1, <1>2, EightBits
<1> QED
  BY <1>3, BitsOfByte DEF p

-----------------------------------------------------------------------------
(* The gamma correction. *)

LEMMA ProductGrows ==
  ASSUME NEW a \in Nat, NEW b \in Nat, NEW c \in Nat, a <= b
  PROVE  a * c <= b * c /\ c * a <= c * b
<1>1. PICK d \in Nat : b = a + d
  <2>1. b - a \in Nat /\ b = a + (b - a)
    OBVIOUS
  <2> QED
    BY <2>1
<1>2. (a + d) * c = a * c + d * c /\ c * (a + d) = c * a + c * d
  OBVIOUS
<1>3. a * c \in Nat /\ d * c \in Nat /\ c * a \in Nat /\ c * d \in Nat
  OBVIOUS
<1> QED
  BY <1>1, <1>2, <1>3

(* The level the components are multiplied with is the level squared over   *)
(* 255, in a byte: the 16 bits it is kept in never cut it.                  *)
LEMMA SquaredLevel ==
  ASSUME NEW l \in Byte
  PROVE  /\ correctedLevel(l) \in Byte
         /\ correctedLevel(l) = (l * l) \div 255
         /\ 255 * correctedLevel(l) <= l * l
         /\ l * l < 255 * correctedLevel(l) + 255
<1>1. l * l \in Nat /\ l * l <= 65025
  <2>1. l * l <= 255 * l /\ l * l \in Nat
    BY ProductGrows DEF Byte
  <2> QED
    BY <2>1 DEF Byte
<1> DEFINE s == l * l
<1> HIDE DEF s
<1>2. /\ s \div 255 \in 0..255 /\ (s \div 255) % 65536 = s \div 255
      /\ 255 * (s \div 255) <= s /\ s < 255 * (s \div 255) + 255
  <2>1. s \in Nat /\ s <= 65025
    BY <1>1 DEF s
  <2> QED
    BY <2>1
<1>3. correctedLevel(l) = (s \div 255) % 65536
  <2>1. 2^16 = 65536
    BY SMT
  <2> QED
    BY <2>1 DEF correctedLevel, s
<1> QED
  BY <1>2, <1>3 DEF s, Byte

(* The product with a component, rounded, needs no more than a byte either. *)
LEMMA Scaled ==
  ASSUME NEW v \in Byte, NEW k \in Byte
  PROVE  LET q == (v * k + 127) \div 255 IN
           /\ q \in Byte
           /\ q % 256 = q
           /\ 255 * q <= v * k + 127
           /\ v * k + 127 < 255 * q + 255
<1>1. v * k \in Nat /\ v * k <= 65025
  <2>1. v * k <= 255 * k /\ v * k \in Nat
    BY ProductGrows DEF Byte
  <2> QED
    BY <2>1 DEF Byte
<1> DEFINE p == v * k
<1>2. p \in Nat /\ p <= 65025
  BY <1>1
<1> HIDE DEF p
<1>3. LET q == (p + 127) \div 255 IN
        q \in 0..255 /\ q % 256 = q /\ 255 * q <= p + 127 /\ p + 127 < 255 * q + 255
  BY <1>2
<1> QED
  BY <1>3 DEF p, Byte

(* gammaCorrection without its casts. *)
Rounded(v, l) == (v * correctedLevel(l) + 127) \div 255
LEMMA GammaUncut ==
  ASSUME NEW v \in Byte, NEW l \in Byte
  PROVE  /\ Rounded(v, l) \in Byte
         /\ gammaCorrection(v, l) =
              IF Rounded(v, l) = 0 /\ v > 0 /\ l > 0 THEN 1 ELSE Rounded(v, l)
<1>1. Rounded(v, l) \in Byte /\ Rounded(v, l) % 256 = Rounded(v, l)
  BY SquaredLevel, Scaled DEF Rounded
<1> QED
  BY <1>1 DEF gammaCorrection, Rounded

(* No component and no level but 0 is corrected to 0. *)
LEMMA OnlyZeroIsDark ==
  ASSUME NEW v \in Byte, NEW l \in Byte
  PROVE  gammaCorrection(v, l) = 0 <=> v = 0 \/ l = 0
<1>1. v = 0 \/ l = 0 => Rounded(v, l) = 0
  <2>1. l = 0 => correctedLevel(l) = 0
    BY SquaredLevel
  <2>2. correctedLevel(l) \in Int /\ v \in Int
    BY SquaredLevel DEF Byte
  <2>3. v = 0 \/ l = 0 => v * correctedLevel(l) = 0
    BY <2>1, <2>2
  <2> QED
    BY <2>3 DEF Rounded
<1>2. gammaCorrection(v, l) =
        IF Rounded(v, l) = 0 /\ v > 0 /\ l > 0 THEN 1 ELSE Rounded(v, l)
  BY GammaUncut
<1>3. v \in Nat /\ l \in Nat
  BY DEF Byte
<1> QED
  BY <1>1, <1>2, <1>3

(* The error of two divisions, by 255 and rounded by 255, is bounded. *)
LEMMA NearlyQuadratic ==
  ASSUME NEW v \in Byte, NEW l \in Byte
  PROVE  LET error == 65025 * gammaCorrection(v, l) - v * l * l
         IN  2 * error <= 3 * 65025 /\ 2 * error >= -3 * 65025
<1> DEFINE k == correctedLevel(l)
           q == Rounded(v, l)
           r == l * l - 255 * k
           m == v * k
           n == v * r
           c == gammaCorrection(v, l)
<1>1. k \in Byte /\ r \in 0..254 /\ l * l = 255 * k + r
  <2>1. k \in Byte /\ 255 * k <= l * l /\ l * l < 255 * k + 255
    BY SquaredLevel
  <2> HIDE DEF k
  <2>2. k \in Int /\ l * l \in Int
    BY <2>1 DEF Byte
  <2> QED
    BY <2>1, <2>2
<1>2. q \in Byte /\ (c = q \/ (q = 0 /\ c = 1))
  BY GammaUncut
<1>3. 255 * q <= m + 127 /\ m + 127 < 255 * q + 255
  BY <1>1, Scaled DEF Rounded
<1> HIDE DEF k, q, r, c
<1>4. v \in Nat /\ v <= 255 /\ k \in Nat /\ r \in Nat /\ r <= 254 /\ l \in Nat /\ q \in Nat
  BY <1>1, <1>2 DEF Byte
<1>5. m \in Nat /\ n \in Nat /\ n <= v * 254
  BY <1>4, ProductGrows
<1>6. v * l * l = 255 * m + n
  <2>1. v * l * l = v * (l * l)
    BY <1>4
  <2>2. v * (255 * k + r) = v * (255 * k) + n /\ v * (255 * k) = 255 * m
    BY <1>4
  <2> QED
    BY <1>1, <2>1, <2>2
<1> HIDE DEF m, n
<1>7. 2 * (65025 * c - (255 * m + n)) <= 195075 /\ 2 * (65025 * c - (255 * m + n)) >= -195075
  BY <1>2, <1>3, <1>4, <1>5
<1> QED
  BY <1>6, <1>7 DEF c

(* A higher level is squared to no less. *)
LEMMA LevelOfMore ==
  ASSUME NEW l \in Byte, l < 255
  PROVE  correctedLevel(l) <= correctedLevel(l + 1)
<1>1. l + 1 \in Byte
  BY DEF Byte
<1>2. l * l \in Int /\ (l + 1) * (l + 1) \in Int /\ l * l <= (l + 1) * (l + 1)
  BY DEF Byte
<1> DEFINE s == l * l
           t == (l + 1) * (l + 1)
<1>3. s \in Int /\ t \in Int /\ s <= t
  BY <1>2
<1>4. correctedLevel(l) = s \div 255 /\ correctedLevel(l + 1) = t \div 255
  BY <1>1, SquaredLevel
<1> HIDE DEF s, t
<1>5. s \div 255 <= t \div 255
  BY <1>3
<1> QED
  BY <1>4, <1>5

(* The rounded product grows with the component and with the level. *)
LEMMA RoundedGrows ==
  ASSUME NEW v \in Byte, NEW w \in Byte, v <= w, NEW l \in Byte, NEW m \in Byte,
         correctedLevel(l) <= correctedLevel(m)
  PROVE  Rounded(v, l) <= Rounded(w, m)
<1> DEFINE k == correctedLevel(l)
           j == correctedLevel(m)
<1>1. k \in Nat /\ j \in Nat /\ v \in Nat /\ w \in Nat /\ k <= j
  <2>1. k \in Byte /\ j \in Byte
    BY SquaredLevel
  <2> QED
    BY <2>1 DEF Byte
<1> HIDE DEF k, j
<1>2. v * k <= w * k /\ w * k <= w * j /\ v * k \in Int /\ w * k \in Int /\ w * j \in Int
  BY <1>1, ProductGrows
<1> DEFINE x == v * k
           y == w * j
<1>3. x \in Int /\ y \in Int /\ x <= y
  BY <1>2
<1> HIDE DEF x, y
<1>4. (x + 127) \div 255 <= (y + 127) \div 255
  BY <1>3
<1> QED
  BY <1>4 DEF Rounded, x, y, k, j

(* Lifting a dark 0 to 1 keeps the order. *)
LEMMA BrighterFromRounded ==
  ASSUME NEW v \in Byte, NEW w \in Byte, v <= w, NEW l \in Byte, NEW m \in Byte, l <= m,
         Rounded(v, l) <= Rounded(w, m)
  PROVE  gammaCorrection(v, l) <= gammaCorrection(w, m)
<1> DEFINE q == Rounded(v, l)
           r == Rounded(w, m)
<1>1. gammaCorrection(v, l) = IF q = 0 /\ v > 0 /\ l > 0 THEN 1 ELSE q
  BY GammaUncut
<1>2. gammaCorrection(w, m) = IF r = 0 /\ w > 0 /\ m > 0 THEN 1 ELSE r
  BY GammaUncut
<1>3. q \in Byte /\ r \in Byte
  BY GammaUncut
<1> HIDE DEF q, r
<1>4. q \in Nat /\ r \in Nat /\ v \in Nat /\ w \in Nat /\ l \in Nat /\ m \in Nat
  BY <1>3 DEF Byte
<1>5. q <= r
  BY DEF q, r
<1> QED
  BY <1>1, <1>2, <1>4, <1>5

(* The correction is monotone, and the identity at the full level. *)
LEMMA BrighterIsBrighter ==
  ASSUME NEW v \in Byte, NEW l \in Byte
  PROVE  /\ l < 255 => gammaCorrection(v, l) <= gammaCorrection(v, l + 1)
         /\ v < 255 => gammaCorrection(v, l) <= gammaCorrection(v + 1, l)
         /\ gammaCorrection(v, 255) = v
<1>1. ASSUME l < 255
      PROVE  gammaCorrection(v, l) <= gammaCorrection(v, l + 1)
  <2>1. l + 1 \in Byte /\ v <= v /\ l <= l + 1
    BY <1>1 DEF Byte
  <2>2. Rounded(v, l) <= Rounded(v, l + 1)
    BY <1>1, <2>1, LevelOfMore, RoundedGrows
  <2> QED
    BY <2>1, <2>2, BrighterFromRounded
<1>2. ASSUME v < 255
      PROVE  gammaCorrection(v, l) <= gammaCorrection(v + 1, l)
  <2>1. v + 1 \in Byte /\ v <= v + 1 /\ correctedLevel(l) <= correctedLevel(l) /\ l <= l
    BY <1>2, SquaredLevel DEF Byte
  <2>2. Rounded(v, l) <= Rounded(v + 1, l)
    BY <2>1, RoundedGrows
  <2> QED
    BY <2>1, <2>2, BrighterFromRounded
<1>3. gammaCorrection(v, 255) = v
  <2>1. 255 \in Byte /\ correctedLevel(255) = 255
    BY SquaredLevel DEF Byte
  <2>2. Rounded(v, 255) = (v * 255 + 127) \div 255
    BY <2>1 DEF Rounded
  <2>3. Rounded(v, 255) = v
    BY <2>2 DEF Byte
  <2>4. gammaCorrection(v, 255) = IF Rounded(v, 255) = 0 /\ v > 0 THEN 1 ELSE Rounded(v, 255)
    BY <2>1, GammaUncut
  <2>5. v \in Nat
    BY DEF Byte
  <2> QED
    BY <2>3, <2>4, <2>5
<1> QED
  BY <1>1, <1>2, <1>3

-----------------------------------------------------------------------------
(* Hue, saturation and temperature. *)

(* Within a sector. *)
Position == 0..84

(* What a component can be at two nodes that follow each other. *)
Neighbours(from, to) ==
  (from = 0 /\ to = 0) \/ (from = 0 /\ to = 255) \/ (from = 255 /\ to = 0)

(* The share, of 85, a component has of the pure hue at position hueSect.   *)
Share(from, to, hueSect) ==
  CASE from = 0 /\ to = 255 -> hueSect
    [] from = 255 /\ to = 0 -> 85 - hueSect
    [] OTHER -> 0

(* Between two nodes the pure hue is exact, and neither the product with    *)
(* the saturation nor the sum with the floor is cut by the cast to a byte.  *)
LEMMA ComponentUncut ==
  ASSUME NEW from \in Byte, NEW to \in Byte, Neighbours(from, to),
         NEW w \in Position, NEW s \in Byte
  PROVE  /\ Share(from, to, w) \in 0..85
         /\ Component(from, to, w, s) =
              ((3 * (Share(from, to, w) * s)) \div 255) + ((255 - s) \div 2)
<1> DEFINE k == Share(from, to, w)
           pure == from + Quotient((to - from) * w, HueSectorSize)
<1>0. s \in 0..255 /\ w \in 0..84
  BY DEF Byte, Position
<1>1. k \in 0..85
  BY <1>0 DEF Share
<1>2. HueSectorSize = 85
  BY DEF HueSectorSize, MaxHue, NumbOfSectors
<1>3. pure = 3 * k
  <2>1. CASE from = 0 /\ to = 0
    <3>1. Quotient((to - from) * w, 85) = 0 /\ k = 0
      BY <1>0, <2>1 DEF Quotient, Share
    <3> QED
      BY <1>0, <1>2, <2>1, <3>1
  <2>2. CASE from = 0 /\ to = 255
    <3>1. Quotient((to - from) * w, 85) = 3 * w /\ k = w
      BY <1>0, <2>2 DEF Quotient, Share
    <3> QED
      BY <1>0, <1>2, <2>2, <3>1
  <2>3. CASE from = 255 /\ to = 0
    <3>1. Quotient((to - from) * w, 85) = -(3 * w) /\ k = 85 - w
      BY <1>0, <2>3 DEF Quotient, Share
    <3> QED
      BY <1>0, <1>2, <2>3, <3>1
  <2> QED
    BY <2>1, <2>2, <2>3 DEF Neighbours
<1> HIDE DEF k
<1>4. k * s \in Nat /\ k * s <= 85 * s
  BY <1>0, <1>1, ProductGrows
<1> DEFINE p == k * s
<1>5. pure * s = 3 * p
  <2>1. (3 * k) * s = 3 * (k * s)
    BY <1>0, <1>1
  <2> QED
    BY <1>3, <2>1
<1>6. Component(from, to, w, s) = (Quotient(pure * s, 255) + ((255 - s) \div 2)) % 256
  BY DEF Component
<1> HIDE DEF p, pure
<1>7. p \in Nat /\ p <= 85 * s
  BY <1>0, <1>4 DEF p
<1>8. Quotient(3 * p, 255) = (3 * p) \div 255
  BY <1>7 DEF Quotient
<1>9. ((3 * p) \div 255) + ((255 - s) \div 2) \in 0..255
  <2>1. (3 * p) \div 255 <= s /\ (3 * p) \div 255 >= 0
    BY <1>0, <1>7
  <2> QED
    BY <1>0, <1>7, <2>1
<1>10. \A x \in 0..255 : x % 256 = x
  OBVIOUS
<1>11. Component(from, to, w, s) = ((3 * p) \div 255) + ((255 - s) \div 2)
  BY <1>5, <1>6, <1>8, <1>9, <1>10
<1> QED
  BY <1>1, <1>11 DEF p, k

(* A component is the mixture of its share and white, to within two steps. *)
LEMMA ComponentMixes ==
  ASSUME NEW from \in Byte, NEW to \in Byte, Neighbours(from, to),
         NEW w \in Position, NEW s \in Byte
  PROVE  Near(170 * Component(from, to, w, s), 2 * Share(from, to, w) * s + 85 * (255 - s), 340)
<1> DEFINE k == Share(from, to, w)
           p == k * s
           c == Component(from, to, w, s)
<1>1. k \in 0..85 /\ c = ((3 * p) \div 255) + ((255 - s) \div 2)
  BY ComponentUncut
<1>0. s \in 0..255
  BY DEF Byte
<1> HIDE DEF k
<1>2. p \in Nat /\ 2 * k * s = 2 * p
  BY <1>0, <1>1, ProductGrows
<1> HIDE DEF p, c
<1>3. 170 * c - (2 * p + 85 * (255 - s)) \in -340..340
  BY <1>0, <1>1, <1>2
<1>4. Near(170 * c, 2 * k * s + 85 * (255 - s), 340)
  BY <1>2, <1>3 DEF Near
<1> QED
  BY <1>4 DEF c, k

(* The nodes of the circle by their components. *)
LEMMA Nodes ==
  /\ RGB_nodes[1] = [R |-> 255, G |-> 0, B |-> 0] /\ RGB_nodes[2] = [R |-> 0, G |-> 255, B |-> 0]
  /\ RGB_nodes[3] = [R |-> 0, G |-> 0, B |-> 255] /\ RGB_nodes[4] = [R |-> 255, G |-> 0, B |-> 0]
BY DEF RGB_nodes, RGB

(* The three sectors of the circle: which two components mix, and where.    *)
LEMMA InSector ==
  ASSUME NEW h \in Byte, NEW s \in Byte, NEW i \in 0..2, NEW w \in Position,
         ClampedHue(h) = 85 * i + w
  PROVE  LET C(from, to) == Component(from, to, w, s)
             rgb == convertHStoRGB([hue |-> h, saturation |-> s])
         IN  /\ i = 0 => rgb.R = C(255, 0) /\ rgb.G = C(0, 255) /\ rgb.B = C(0, 0)
             /\ i = 1 => rgb.R = C(0, 0) /\ rgb.G = C(255, 0) /\ rgb.B = C(0, 255)
             /\ i = 2 => rgb.R = C(0, 255) /\ rgb.G = C(0, 0) /\ rgb.B = C(255, 0)
<1> DEFINE from == RGB_nodes[1 + i]
           to == RGB_nodes[1 + i + 1]
           colorHS == [hue |-> h, saturation |-> s]
<1>1. HueSectorSize = 85
  BY DEF HueSectorSize, MaxHue, NumbOfSectors
<1>2. (85 * i + w) \div 85 = i /\ (85 * i + w) % 85 = w
  BY DEF Position
<1>3. colorHS.hue = h /\ colorHS.saturation = s
  OBVIOUS
<1>4. convertHStoRGB(colorHS) =
        RGB(Component(from.R, to.R, w, s), Component(from.G, to.G, w, s), Component(from.B, to.B, w, s))
  BY <1>1, <1>2, <1>3, Zenon DEF convertHStoRGB
<1>5. /\ convertHStoRGB(colorHS).R = Component(from.R, to.R, w, s)
      /\ convertHStoRGB(colorHS).G = Component(from.G, to.G, w, s)
      /\ convertHStoRGB(colorHS).B = Component(from.B, to.B, w, s)
  BY <1>4 DEF RGB
<1>6. 1 + 0 = 1 /\ 1 + 1 = 2 /\ 1 + 2 = 3 /\ 2 + 1 = 3 /\ 3 + 1 = 4
  OBVIOUS
<1>7. i = 0 => /\ from.R = 255 /\ from.G = 0 /\ from.B = 0
               /\ to.R = 0 /\ to.G = 255 /\ to.B = 0
  BY Nodes, <1>6
<1>8. i = 1 => /\ from.R = 0 /\ from.G = 255 /\ from.B = 0
               /\ to.R = 0 /\ to.G = 0 /\ to.B = 255
  BY Nodes, <1>6
<1>9. i = 2 => /\ from.R = 0 /\ from.G = 0 /\ from.B = 255
               /\ to.R = 255 /\ to.G = 0 /\ to.B = 0
  BY Nodes, <1>6
<1> QED
  BY <1>5, <1>7, <1>8, <1>9

(* Every hue is in one of three sectors. *)
LEMMA SomeSector ==
  ASSUME NEW h \in Byte
  PROVE  \E i \in 0..2, w \in Position : ClampedHue(h) = 85 * i + w
<1>1. ClampedHue(h) \in 0..254
  BY DEF ClampedHue, MaxHue, Byte
<1>2. \A x \in 0..254 : x \div 85 \in 0..2 /\ x % 85 \in 0..84 /\ x = 85 * (x \div 85) + (x % 85)
  OBVIOUS
<1> QED
  BY <1>1, <1>2 DEF Position

(* Every shown colour is the mixture, in each sector. *)
LEMMA HueMixes ==
  ASSUME hue \in Byte, saturation \in Byte
  PROVE  MixesHueAndWhite
<1>1. PICK i \in 0..2, w \in Position : ClampedHue(hue) = 85 * i + w
  BY SomeSector
<1> DEFINE s == saturation
           Mix(k) == 2 * k * s + 85 * (255 - s)
<1>2. /\ Exact(0) = Mix(Weight(0)) /\ Exact(1) = Mix(Weight(1)) /\ Exact(2) = Mix(Weight(2))
  BY DEF Exact
<1>3. /\ i = 0 => Weight(0) = 85 - w /\ Weight(1) = w /\ Weight(2) = 0
      /\ i = 1 => Weight(0) = 0 /\ Weight(1) = 85 - w /\ Weight(2) = w
      /\ i = 2 => Weight(0) = w /\ Weight(1) = 0 /\ Weight(2) = 85 - w
  <2> DEFINE h == IF hue > 254 THEN 254 ELSE hue
             W(d) == IF d <= 85 THEN 85 - d ELSE IF d >= 170 THEN d - 170 ELSE 0
  <2>1. h = 85 * i + w
    BY <1>1 DEF ClampedHue, MaxHue
  <2>2. /\ Weight(0) = W((h - 85 * 0 + 255) % 255) /\ Weight(1) = W((h - 85 * 1 + 255) % 255)
        /\ Weight(2) = W((h - 85 * 2 + 255) % 255)
    BY Zenon DEF Weight
  <2> HIDE DEF h
  <2> QED
    BY <2>1, <2>2 DEF Position
<1>4. Share(255, 0, w) = 85 - w /\ Share(0, 255, w) = w /\ Share(0, 0, w) = 0
  BY DEF Share
<1>5. /\ Near(170 * Component(255, 0, w, s), Mix(85 - w), 340)
      /\ Near(170 * Component(0, 255, w, s), Mix(w), 340)
      /\ Near(170 * Component(0, 0, w, s), Mix(0), 340)
  <2>1. \A from, to \in Byte : Neighbours(from, to) =>
          Near(170 * Component(from, to, w, s), Mix(Share(from, to, w)), 340)
    BY ComponentMixes
  <2>2. 0 \in Byte /\ 255 \in Byte /\ Neighbours(0, 0) /\ Neighbours(0, 255) /\ Neighbours(255, 0)
    BY DEF Byte, Neighbours
  <2> HIDE DEF Mix, s
  <2> QED
    BY <1>4, <2>1, <2>2
<1> DEFINE C(from, to) == Component(from, to, w, s)
<1>9. /\ i = 0 => Shown.R = C(255, 0) /\ Shown.G = C(0, 255) /\ Shown.B = C(0, 0)
      /\ i = 1 => Shown.R = C(0, 0) /\ Shown.G = C(255, 0) /\ Shown.B = C(0, 255)
      /\ i = 2 => Shown.R = C(0, 255) /\ Shown.G = C(0, 0) /\ Shown.B = C(255, 0)
  BY <1>1, InSector DEF Shown
<1>10. i = 0 \/ i = 1 \/ i = 2
  OBVIOUS
<1> HIDE DEF Mix, s, C
<1> QED
  BY <1>2, <1>3, <1>5, <1>9, <1>10 DEF MixesHueAndWhite, C

(* The saturation of a temperature needs no more than a byte. *)
LEMMA SaturationInByte ==
  ASSUME NEW m \in Nat
  PROVE  TemperatureSaturation(m) \in Byte
<1> DEFINE sat == MicroSaturation(m)
<1>1. sat \in Int
  BY DEF MicroSaturation
<1>2. TemperatureSaturation(m) = LET fabs == IF sat < 0 THEN -sat ELSE sat
                                 IN  IF fabs > 255000000 THEN 255 ELSE fabs \div 1000000
  BY DEF TemperatureSaturation
<1> HIDE DEF sat
<1> QED
  BY <1>1, <1>2 DEF Byte

(* For every number of mireds, hue and saturation are bytes, the saturation *)
(* falls down to neutral white and rises from there, and the hue changes    *)
(* there only (setColorTemperature).                                        *)
THEOREM TemperatureOfAnyMireds ==
  ASSUME NEW m \in Nat
  PROVE  LET at == TemperatureHS(m)
             next == TemperatureHS(m + 1)
         IN  /\ at.hue \in Byte /\ at.saturation \in Byte
             /\ at.hue = 20 => next.hue = 20 /\ next.saturation >= at.saturation
             /\ next.hue = 147 => next.saturation <= at.saturation
<1> DEFINE a == MicroSaturation(m)
           b == MicroSaturation(m + 1)
           Abs(x) == IF x < 0 THEN -x ELSE x
           Sat(x) == IF Abs(x) > 255000000 THEN 255 ELSE Abs(x) \div 1000000
<1>1. a \in Int /\ b = a + 666105
  BY DEF MicroSaturation
<1>2. /\ TemperatureHS(m).hue = IF a < 0 THEN 147 ELSE 20
      /\ TemperatureHS(m + 1).hue = IF b < 0 THEN 147 ELSE 20
      /\ TemperatureHS(m).saturation = Sat(a)
      /\ TemperatureHS(m + 1).saturation = Sat(b)
  BY DEF TemperatureHS, TemperatureSaturation
<1>3. TemperatureHS(m).hue \in Byte /\ TemperatureHS(m).saturation \in Byte
  BY SaturationInByte DEF TemperatureHS, Byte
<1> HIDE DEF a, b
<1>4. a >= 0 => Sat(b) >= Sat(a)
  BY <1>1
<1>5. b < 0 => Sat(b) <= Sat(a)
  BY <1>1
<1> QED
  BY <1>1, <1>2, <1>3, <1>4, <1>5

(* Warm white is red over blue and cold white blue over red.                *)
LEMMA WarmAndCold ==
  ASSUME NEW m \in Nat
  PROVE  LET at == TemperatureHS(m)
             rgb == convertHStoRGB(at)
         IN  /\ at.hue = 147 => rgb.B >= rgb.R
             /\ at.hue = 20 => rgb.R >= rgb.B
<1> DEFINE s == TemperatureSaturation(m)
<1>1. /\ TemperatureHS(m).hue \in {147, 20}
      /\ TemperatureHS(m) = [hue |-> TemperatureHS(m).hue, saturation |-> s]
  BY DEF TemperatureHS
<1>2. s \in Byte
  BY SaturationInByte
<1> HIDE DEF s
<1> DEFINE C(from, to, w) == Component(from, to, w, s)
<1>3. 20 \in Position /\ 62 \in Position /\ 20 \in Byte /\ 147 \in Byte /\ 0 \in Byte /\ 255 \in Byte
  BY DEF Position, Byte
<1>4. ClampedHue(20) = 85 * 0 + 20 /\ ClampedHue(147) = 85 * 1 + 62
  BY DEF ClampedHue, MaxHue
<1>5. LET rgb == convertHStoRGB([hue |-> 20, saturation |-> s])
      IN  rgb.R = C(255, 0, 20) /\ rgb.B = C(0, 0, 20)
  BY <1>2, <1>3, <1>4, InSector
<1>6. LET rgb == convertHStoRGB([hue |-> 147, saturation |-> s])
      IN  rgb.R = C(0, 0, 62) /\ rgb.B = C(0, 255, 62)
  BY <1>2, <1>3, <1>4, InSector
<1>7. /\ Neighbours(0, 0) /\ Neighbours(0, 255) /\ Neighbours(255, 0)
      /\ Share(0, 0, 20) = 0 /\ Share(255, 0, 20) = 65 /\ Share(0, 0, 62) = 0 /\ Share(0, 255, 62) = 62
  BY DEF Neighbours, Share
<1>8. /\ C(0, 0, 20) = ((3 * (0 * s)) \div 255) + ((255 - s) \div 2)
      /\ C(255, 0, 20) = ((3 * (65 * s)) \div 255) + ((255 - s) \div 2)
      /\ C(0, 0, 62) = ((3 * (0 * s)) \div 255) + ((255 - s) \div 2)
      /\ C(0, 255, 62) = ((3 * (62 * s)) \div 255) + ((255 - s) \div 2)
  <2>1. \A from, to \in Byte, w \in Position : Neighbours(from, to) =>
          Component(from, to, w, s) = ((3 * (Share(from, to, w) * s)) \div 255) + ((255 - s) \div 2)
    BY <1>2, ComponentUncut
  <2> QED
    BY <1>3, <1>7, <2>1
<1> HIDE DEF C
<1>9. C(255, 0, 20) >= C(0, 0, 20) /\ C(0, 255, 62) >= C(0, 0, 62)
  BY <1>2, <1>8 DEF Byte
<1> QED
  BY <1>1, <1>5, <1>6, <1>9

(* Any two neighbouring temperatures are in order. *)
LEMMA TemperatureInOrder ==
  ASSUME hue \in Byte, saturation \in Byte
  PROVE  TemperatureOrder
<1>1. Mireds \in Nat
  BY DEF Mireds, Byte
<1> QED
  BY <1>1, TemperatureOfAnyMireds, WarmAndCold DEF TemperatureOrder

-----------------------------------------------------------------------------
(* The lengths of the timer. *)

(* 2^32, and the numbers below it. *)
Wide == 4294967296
Number == {n \in Nat : n < Wide}
Half   == {n \in Nat : n < 65536}

(* The halves of what is left of a number cut to 32 bits. *)
LEMMA CutHalves ==
  \A m \in Nat : /\ m % Wide \in Number
                 /\ (m % Wide) \div 65536 = (m \div 65536) % 65536
                 /\ (m % Wide) % 65536 = m % 65536
                 /\ m < Wide => m % Wide = m
<1>1. \A m \in Nat : m % Wide \in Number
  BY SMT DEF Wide, Number
<1>2. \A m \in Nat : (m % Wide) \div 65536 = (m \div 65536) % 65536
  BY SMT DEF Wide
<1>3. \A m \in Nat : (m % Wide) % 65536 = m % 65536
  BY SMT DEF Wide
<1>4. \A m \in Nat : m < Wide => m % Wide = m
  BY SMT DEF Wide
<1> QED
  BY <1>1, <1>2, <1>3, <1>4

(* The halves of a number. *)
LEMMA WordHalves == \A n \in Int : Word(n) = <<n \div 65536, n % 65536>>
<1>1. 2^16 = 65536
  BY SMT
<1> QED
  BY <1>1 DEF Word

(* A product is cut to 32 bits, and to nothing less. *)
LEMMA TimesCutsTo32Bits ==
  ASSUME NEW n \in Number, NEW k \in Nat
  PROVE  Times(Word(n), k) = Word((n * k) % Wide) /\ (n * k) % Wide \in Number /\ n * k \in Nat
<1> DEFINE h == n \div 65536
           l == n % 65536
           x == h * k
           y == l * k
           m == n * k
           w == Word(n)
<1>1. n \in Nat /\ h \in Nat /\ l \in Nat /\ n = 65536 * h + l
  BY DEF Number
<1>2. Times(w, k) = <<(x + (y \div 65536)) % 65536, y % 65536>>
  <2>1. 2^16 = 65536
    BY SMT
  <2>2. w[1] = h /\ w[2] = l
    BY <1>1, WordHalves
  <2> HIDE DEF w, h, l
  <2> QED
    BY <2>1, <2>2 DEF Times
<1> HIDE DEF h, l
<1>3. x \in Nat /\ y \in Nat /\ m \in Nat /\ m = 65536 * x + y
  <2>1. (65536 * h + l) * k = (65536 * h) * k + l * k /\ (65536 * h) * k = 65536 * (h * k)
    BY <1>1
  <2> QED
    BY <1>1, <2>1
<1> HIDE DEF x, y, m, w
<1>4. m % Wide \in Number /\ m % Wide \in Int
  BY <1>3, CutHalves DEF Number
<1>5. (x + (y \div 65536)) % 65536 = (m % Wide) \div 65536
  <2>1. x + (y \div 65536) = m \div 65536
    BY <1>3
  <2> QED
    BY <1>3, <2>1, CutHalves
<1>6. y % 65536 = (m % Wide) % 65536
  <2>1. y % 65536 = m % 65536
    BY <1>3
  <2> QED
    BY <1>3, <2>1, CutHalves
<1>7. Times(w, k) = Word(m % Wide)
  BY <1>2, <1>4, <1>5, <1>6, WordHalves
<1> QED
  BY <1>3, <1>4, <1>7 DEF m, w

(* The quotient of a 32 bit number by 1000, taken by halves. *)
LEMMA OverDivides ==
  ASSUME NEW n \in Number
  PROVE  Over(Word(n), 1000) = n \div 1000
<1> DEFINE h == n \div 65536
           l == n % 65536
           w == Word(n)
<1>1. n \in Nat /\ h \in Nat /\ l \in Nat /\ n = 65536 * h + l
  BY DEF Number
<1>2. w[1] = h /\ w[2] = l
  BY <1>1, WordHalves
<1>3. Over(w, 1000) = (h \div 1000) * 65536 + (((h % 1000) * 65536 + l) \div 1000)
  <2>1. 2^16 = 65536
    BY SMT
  <2> HIDE DEF w, h, l
  <2> QED
    BY <1>2, <2>1 DEF Over
<1> HIDE DEF h, l, w
<1>4. (h \div 1000) * 65536 + (((h % 1000) * 65536 + l) \div 1000) = (65536 * h + l) \div 1000
  <2> DEFINE q == h \div 1000
             r == h % 1000
  <2>1. q \in Nat /\ r \in Nat /\ h = 1000 * q + r
    BY <1>1
  <2> HIDE DEF q, r
  <2>2. (q * 65536) + ((r * 65536 + l) \div 1000) = (65536 * (1000 * q + r) + l) \div 1000
    BY <1>1, <2>1
  <2> QED
    BY <2>1, <2>2 DEF q, r
<1> QED
  BY <1>1, <1>3, <1>4 DEF w

(* pdMS_TO_TICKS: the product with the rate, in 32 bits, over 1000. *)
LEMMA TicksOfMilliseconds ==
  ASSUME NEW n \in Number
  PROVE  pdMS_TO_TICKS(Word(n)) = ((n * 1024) % Wide) \div 1000
<1>1. Times(Word(n), 1024) = Word((n * 1024) % Wide) /\ (n * 1024) % Wide \in Number
  BY TimesCutsTo32Bits
<1> QED
  BY <1>1, OverDivides DEF pdMS_TO_TICKS, configTICK_RATE_HZ

(* A time whose product with the rate fits is counted to within a tick. *)
LEMMA TicksOfShortTime ==
  ASSUME NEW n \in Nat, n * 1024 < Wide
  PROVE  /\ pdMS_TO_TICKS(Word(n)) \in Int
         /\ pdMS_TO_TICKS(Word(n)) * 1000 <= n * 1024
         /\ n * 1024 < (pdMS_TO_TICKS(Word(n)) + 1) * 1000
<1>1. n \in Number
  BY SMT DEF Number, Wide
<1>2. (n * 1024) % Wide = n * 1024
  BY CutHalves
<1>3. pdMS_TO_TICKS(Word(n)) = (n * 1024) \div 1000
  BY <1>1, <1>2, TicksOfMilliseconds
<1> QED
  BY <1>3

(* The four effects, and none else, have a length. *)
LEMMA EffectsInTime ==
  ASSUME effectId \in Byte, variant \in Byte
  PROVE  EffectsTimed
<1> DEFINE ms == CASE effectId = 0 /\ variant < 2 -> 800
                   [] effectId = 0 /\ variant = 2 -> 12800
                   [] effectId = 1 /\ variant = 0 -> 1500
                   [] OTHER -> 0
           ticks == EffectTicks(effectId, variant)
<1>1. ms \in {0, 800, 1500, 12800} /\ offEffectDuration(effectId, variant) = ms
  BY DEF offEffectDuration, EffectIdentifier, kDelayedAllOff, kDyingLight, Byte
<1>2. ticks = pdMS_TO_TICKS(Word(ms))
  BY <1>1 DEF EffectTicks
<1> HIDE DEF ms, ticks
<1>3. ms \in Nat /\ ms * 1024 < Wide
  BY <1>1, SMT DEF Wide
<1>4. ticks * 1000 <= ms * 1024 /\ ms * 1024 < (ticks + 1) * 1000 /\ ticks \in Int
  BY <1>2, <1>3, TicksOfShortTime, SMT
<1>5. (ticks > 0) = (ms > 0)
  BY <1>1, <1>4
<1> QED
  BY <1>4, <1>5 DEF EffectsTimed, ms, ticks

(* The product of a number of seconds with 1000 and the rate, over 1000.    *)
LEMMA CountdownTicks ==
  ASSUME NEW s \in Number
  PROVE  AutoTurnOffTicks(Word(s)) = ((1024000 * s) % Wide) \div 1000
<1> DEFINE m == (s * 1000) % Wide
<1>1. Times(Word(s), 1000) = Word(m) /\ m \in Number
  BY TimesCutsTo32Bits
<1>2. AutoTurnOffTicks(Word(s)) = ((m * 1024) % Wide) \div 1000
  BY <1>1, TicksOfMilliseconds DEF AutoTurnOffTicks
<1>3. (m * 1024) % Wide = (1024000 * s) % Wide
  <2>1. s \in Nat
    BY DEF Number
  <2>2. \A a \in Nat : ((a % Wide) * 1024) % Wide = (1024 * a) % Wide
    BY SMT DEF Wide
  <2>3. s * 1000 \in Nat /\ 1024 * (s * 1000) = 1024000 * s
    BY <2>1, SMT
  <2> QED
    BY <2>2, <2>3, SMT
<1> QED
  BY <1>2, <1>3, SMT

(* Every 32 bit number of seconds up to 4194 is counted exactly, every      *)
(* longer one ends early, and exactly the multiples of 2^19 are refused as  *)
(* 0 ticks: the two products wrap and the quotient hides nothing            *)
(* (ActuatorMovementTimerEventHandler, StartTimer).                         *)
THEOREM CountdownOfAnyLength ==
  ASSUME NEW s \in Number
  PROVE  LET ticks == AutoTurnOffTicks(Word(s)) IN
           /\ ticks <= 1024 * s
           /\ (ticks = 1024 * s) = (s <= 4194)
           /\ (ticks = 0) = (s % 524288 = 0)
<1> DEFINE n == 1024000 * s
           r == n % Wide
           q == n \div Wide
           ticks == AutoTurnOffTicks(Word(s))
<1>1. s \in Nat
  BY DEF Number
<1>2. ticks = r \div 1000
  BY CountdownTicks, SMT
<1>3. r \in Nat /\ q \in Nat /\ r < Wide /\ n = Wide * q + r /\ r <= n
  BY <1>1, SMT DEF Wide
<1> HIDE DEF r, q, ticks
<1>4. ticks <= 1024 * s
  BY <1>1, <1>2, <1>3, SMT
<1>5. s <= 4194 => ticks = 1024 * s
  <2>1. s <= 4194 => n < Wide
    BY <1>1, SMT DEF Wide
  <2>2. s <= 4194 => r = n
    BY <1>1, <2>1, CutHalves, SMT DEF r
  <2> QED
    BY <1>1, <1>2, <2>2, SMT
<1>6. s > 4194 => ticks < 1024 * s
  BY <1>1, <1>2, <1>3, SMT DEF Wide
<1>7. r = 8192 * (125 * s - 524288 * q)
  BY <1>1, <1>3, SMT DEF Wide
<1>8. ticks = 0 => s % 524288 = 0
  <2>1. ticks = 0 => 125 * s = 524288 * q
    BY <1>1, <1>2, <1>3, <1>7, SMT
  <2>2. 125 * s = 524288 * q => s = 524288 * (96469 * q - 23 * s)
    BY <1>1, <1>3, SMT
  <2>3. \A x \in Int : (524288 * x) % 524288 = 0
    BY SMT
  <2>4. 96469 * q - 23 * s \in Int
    BY <1>1, <1>3, SMT
  <2> QED
    BY <2>1, <2>2, <2>3, <2>4, SMT
<1>9. s % 524288 = 0 => ticks = 0
  <2>1. s % 524288 = 0 => n % Wide = 0
    <3>1. s % 524288 = 0 => s = 524288 * (s \div 524288) /\ s \div 524288 \in Nat
      BY <1>1, SMT
    <3>2. \A x \in Nat : (1024000 * (524288 * x)) % Wide = 0
      BY SMT DEF Wide
    <3> QED
      BY <3>1, <3>2, SMT
  <2> QED
    BY <1>2, <2>1, SMT DEF r
<1> QED
  BY <1>1, <1>2, <1>3, <1>4, <1>5, <1>6, <1>8, <1>9, SMT DEF ticks

(* For any countdown that fits 32 bits, by its halves. *)
LEMMA CountdownByHalves ==
  ASSUME NEW high \in Half, NEW low \in Half
  PROVE  LET seconds == 65536 * high + low
             ticks == AutoTurnOffTicks(<<high, low>>)
         IN  /\ ticks <= 1024 * seconds
             /\ (ticks = 1024 * seconds) = (seconds <= 4194)
             /\ (ticks = 0) = (low = 0 /\ high % 8 = 0)
<1> DEFINE s == 65536 * high + low
<1>1. s \in Number
  BY SMT DEF Number, Wide, Half
<1>2. Word(s) = <<high, low>>
  <2>1. s \div 65536 = high /\ s % 65536 = low /\ s \in Int
    BY SMT DEF Half
  <2> QED
    BY <2>1, WordHalves
<1>3. (s % 524288 = 0) = (low = 0 /\ high % 8 = 0)
  <2>1. high \in Nat /\ low \in Nat /\ low < 65536
    BY DEF Half
  <2>2. s % 524288 = 65536 * (high % 8) + low
    BY <2>1, SMT
  <2> QED
    BY <2>1, <2>2, SMT
<1> HIDE DEF s
<1>4. LET ticks == AutoTurnOffTicks(Word(s)) IN
           /\ ticks <= 1024 * s
           /\ (ticks = 1024 * s) = (s <= 4194)
           /\ (ticks = 0) = (s % 524288 = 0)
  BY <1>1, CountdownOfAnyLength, SMT
<1> QED
  BY <1>2, <1>3, <1>4, SMT DEF s

(* The countdowns of the run. *)
LEMMA CountdownsLast ==
  ASSUME first \in Byte, second \in Byte
  PROVE  CountdownLasts
<1> SUFFICES ASSUME NEW high \in {0, 1, 8}
             PROVE  LET low == 256 * second + first
                        seconds == 2^16 * high + low
                        ticks == AutoTurnOffTicks(<<high, low>>)
                    IN  /\ ticks <= 1024 * seconds
                        /\ (ticks = 1024 * seconds) = (seconds <= 4194)
                        /\ (ticks = 0) = (low = 0 /\ high % 8 = 0)
  BY DEF CountdownLasts
<1>1. high \in Half /\ 256 * second + first \in Half
  BY DEF Byte, Half
<1>2. 2^16 = 65536
  BY SMT
<1> DEFINE low == 256 * second + first
<1> HIDE DEF low
<1>3. low \in Half
  BY <1>1 DEF low
<1>4. LET seconds == 65536 * high + low
          ticks == AutoTurnOffTicks(<<high, low>>)
      IN  /\ ticks <= 1024 * seconds
          /\ (ticks = 1024 * seconds) = (seconds <= 4194)
          /\ (ticks = 0) = (low = 0 /\ high % 8 = 0)
  BY <1>1, <1>3, CountdownByHalves
<1> QED
  BY <1>2, <1>4, SMT DEF low

-----------------------------------------------------------------------------
(* The functions are applied to bytes. *)
InByte == first \in Byte /\ second \in Byte

(* No pair of the run is anything else. *)
LEMMA BytesOnly == Spec => []InByte
<1>1. Init => InByte
  BY DEF Init, InByte, Byte
<1>2. InByte /\ [Next]_<<first, second>> => InByte'
  BY DEF Next, InByte, Byte
<1> QED
  BY <1>1, <1>2, PTL DEF Spec

(* The device reads back the byte that was coded, whatever the byte         *)
(* (byteToPulses).                                                          *)
THEOREM CodingReadsBack == Spec => []DeviceReadsByte
<1>1. InByte => DeviceReadsByte
  BY BitsReceived, ReadsBack DEF DeviceReadsByte, value, InByte
<1> QED
  BY <1>1, BytesOnly, PTL

(* A component that is present stays present at every level but 0, and goes *)
(* dark at level 0 (gammaCorrection).                                       *)
THEOREM NeverLooksOff == Spec => []NeverDark
<1>1. InByte => NeverDark
  BY OnlyZeroIsDark DEF NeverDark, value, level, InByte
<1> QED
  BY <1>1, BytesOnly, PTL

(* The correction is quadratic in the level to within one and a half steps  *)
(* (gammaCorrection).                                                       *)
THEOREM LevelIsSquared == Spec => []QuadraticInLevel
<1>1. InByte => QuadraticInLevel
  BY NearlyQuadratic DEF QuadraticInLevel, value, level, InByte
<1> QED
  BY <1>1, BytesOnly, PTL

(* A brighter setting never shows darker, and the full level shows the      *)
(* colour itself (gammaCorrection).                                         *)
THEOREM BrighterShowsBrighter == Spec => []Monotone
<1>1. InByte => Monotone
  BY BrighterIsBrighter DEF Monotone, value, level, InByte
<1> QED
  BY <1>1, BytesOnly, PTL

(* Every colour is the mixture of white and of its place on the circle to   *)
(* within two steps (convertHStoRGB).                                       *)
THEOREM ColourMixes == Spec => []MixesHueAndWhite
<1>1. InByte => MixesHueAndWhite
  BY HueMixes DEF hue, saturation, InByte
<1> QED
  BY <1>1, BytesOnly, PTL

(* Temperatures are in order on both sides of neutral white                 *)
(* (setColorTemperature).                                                   *)
THEOREM TemperaturesInOrder == Spec => []TemperatureOrder
<1>1. InByte => TemperatureOrder
  BY TemperatureInOrder DEF hue, saturation, InByte
<1> QED
  BY <1>1, BytesOnly, PTL

(* Exactly the four effects of the cluster start the timer, for their time  *)
(* (OnTriggerOffWithEffect).                                                *)
THEOREM EffectsLast == Spec => []EffectsTimed
<1>1. InByte => EffectsTimed
  BY EffectsInTime DEF effectId, variant, InByte
<1> QED
  BY <1>1, BytesOnly, PTL

(* A countdown lasts as long as it was set for up to 4194 seconds and no    *)
(* longer than that beyond (ActuatorMovementTimerEventHandler, StartTimer). *)
THEOREM CountdownsEndInTime == Spec => []CountdownLasts
<1>1. InByte => CountdownLasts
  BY CountdownsLast DEF InByte
<1> QED
  BY <1>1, BytesOnly, PTL

=============================================================================
