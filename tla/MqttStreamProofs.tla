-------------------------- MODULE MqttStreamProofs --------------------------
(***************************************************************************)
(* Theorems of MqttFraming, for every length that four digits can write,   *)
(* and of MqttStream: the reading of what was written, keep-alive, types,  *)
(* and that both directions implement PacketPipe, for every Base.          *)
(***************************************************************************)
(* Frames is a recursive function.  One step of it is Reads: a function    *)
(* that makes each of these steps exists and is unique, by induction on    *)
(* what is left of the stream, so that FramesStep may unfold Frames.       *)
(***************************************************************************)
EXTENDS MqttSession, MqttLinkProofs, SetInduction, SequenceTheorems, TLAPS

(* The remaining length *)

\* A length that the protocol allows has between one and four digits.
LEMMA DigitsExist ==
  ASSUME NEW n \in Nat, n < TooLong
  PROVE  /\ Digits(n) \in 1 .. 4
         /\ n < Place[Digits(n) + 1]
         /\ Digits(n) = 1 \/ n >= Place[Digits(n)]
<1> DEFINE Fits(d) == n < Place[d + 1] /\ (d = 1 \/ n >= Place[d])
<1>1. \E d \in 1 .. 4 : Fits(d)
  <2>1. CASE n < Place[2]
    BY <2>1
  <2>2. CASE n >= Place[2] /\ n < Place[3]
    BY <2>2
  <2>3. CASE n >= Place[3] /\ n < Place[4]
    BY <2>3
  <2>4. CASE n >= Place[4]
    <3>1. n < Place[5]
      BY DEF Place, TooLong
    <3> QED BY <2>4, <3>1
  <2> QED
    <3>1. Place[2] \in Int /\ Place[3] \in Int /\ Place[4] \in Int
      BY BaseAssumption DEF Place
    <3> QED BY <2>1, <2>2, <2>3, <2>4, <3>1
<1>2. Digits(n) = CHOOSE d \in 1 .. 4 : Fits(d)
  BY DEF Digits
<1> QED
  <2> HIDE DEF Fits
  <2>1. Digits(n) \in 1 .. 4 /\ Fits(Digits(n))
    BY <1>1, <1>2
  <2> QED BY <2>1 DEF Fits

\* The digits are bytes, marked but for the last.
LEMMA VarLengthBytes ==
  ASSUME NEW n \in Nat, n < TooLong
  PROVE  /\ VarLength(n) \in Seq(Byte) /\ Len(VarLength(n)) = Digits(n)
         /\ \A k \in 1 .. Digits(n) : VarLength(n)[k] < Base <=> k = Digits(n)
<1> DEFINE D == Digits(n)
<1>1. D \in 1 .. 4
  BY DigitsExist
<1>2. \A k \in 1 .. D : (n \div Place[k]) % Base \in 0 .. Base - 1
  <2> TAKE k \in 1 .. D
  <2>1. Place[k] \in Nat \ {0}
    <3>1. k \in 1 .. 4
      BY <1>1
    <3>2. Base * Base \in Nat \ {0}
      BY BaseAssumption
    <3>3. Base * Base * Base \in Nat \ {0}
      BY <3>2, BaseAssumption
    <3> QED BY <3>1, <3>2, <3>3, BaseAssumption DEF Place
  <2>2. n \div Place[k] \in Int
    BY <2>1
  <2> QED BY <2>2, BaseAssumption
<1>3. \A k \in 1 .. D :
        (((n \div Place[k]) % Base) + (IF k < D THEN Base ELSE 0)) \in Byte
  <2> HIDE DEF D
  <2> TAKE k \in 1 .. D
  <2>1. PICK x : x = (n \div Place[k]) % Base
    OBVIOUS
  <2>2. x \in 0 .. Base - 1
    BY <1>2, <2>1
  <2>3. x \in Byte /\ x + Base \in Byte /\ x + 0 \in Byte
    BY <2>2, BaseAssumption DEF Byte
  <2> QED BY <2>1, <2>3
<1>4. VarLength(n) = [k \in 1 .. D |-> ((n \div Place[k]) % Base) + (IF k < D THEN Base ELSE 0)]
  BY DEF VarLength
<1> HIDE DEF D
<1>5. VarLength(n) \in [1 .. D -> Byte]
  BY <1>3, <1>4
<1>6. VarLength(n) \in Seq(Byte) /\ Len(VarLength(n)) = D
  BY <1>1, <1>5
<1>7. \A k \in 1 .. D : VarLength(n)[k] < Base <=> k = D
  BY <1>1, <1>2, <1>4, BaseAssumption
<1> QED BY <1>6, <1>7 DEF D

\* The loop of parse_mqtt stops behind the digits that the sender wrote.
LEMMA LoopStops ==
  ASSUME NEW n \in Nat, n < TooLong, NEW io \in Seq(Byte), Len(io) > Digits(n),
         \A k \in 1 .. Digits(n) : io[k + 1] = VarLength(n)[k]
  PROVE  LengthBytes(io) = Digits(n)
<1> DEFINE S == {k \in 1 .. Len(io) - 1 : io[k + 1] < Base} \cup {5, Len(io) - 1}
<1>1. Digits(n) \in 1 .. 4
  BY DigitsExist
<1>2. Digits(n) \in S
  <2>1. VarLength(n)[Digits(n)] < Base
    BY <1>1, VarLengthBytes
  <2>2. Digits(n) \in 1 .. Len(io) - 1
    BY <1>1, LenProperties
  <2> QED BY <1>1, <2>1, <2>2
<1>3. \A k \in S : k \in Int /\ Digits(n) <= k
  <2> SUFFICES ASSUME NEW k \in S PROVE k \in Int /\ Digits(n) <= k
    OBVIOUS
  <2>1. Len(io) \in Nat
    BY LenProperties
  <2>2. CASE k \in {5, Len(io) - 1}
    BY <1>1, <2>1, <2>2
  <2>3. CASE k \in 1 .. Len(io) - 1 /\ io[k + 1] < Base
    <3>1. k \in Int
      BY <2>1, <2>3
    <3>2. CASE k < Digits(n)
      <4>1. k \in 1 .. Digits(n) /\ k # Digits(n)
        BY <1>1, <2>3, <3>1, <3>2
      <4>2. io[k + 1] = VarLength(n)[k] /\ ~(VarLength(n)[k] < Base)
        BY <4>1, VarLengthBytes
      <4> QED BY <4>2, <2>3
    <3> QED BY <1>1, <3>1, <3>2
  <2> QED BY <2>2, <2>3
<1>4. LengthBytes(io) = CHOOSE x \in S : \A y \in S : x <= y
  BY DEF LengthBytes, Min
<1> HIDE DEF S
<1>5. LengthBytes(io) \in S /\ \A y \in S : LengthBytes(io) <= y
  <2>1. \E x \in S : \A y \in S : x <= y
    BY <1>2, <1>3
  <2> QED BY <2>1, <1>4
<1> QED BY <1>1, <1>2, <1>3, <1>5

-----------------------------------------------------------------------------
(* Quotients, for any base *)

LEMMA Division ==
  ASSUME NEW n \in Nat, NEW m \in Nat \ {0}
  PROVE  /\ n \div m \in Nat /\ n % m \in 0 .. m - 1
         /\ n = m * (n \div m) + (n % m)
OBVIOUS

\* Quotient and remainder are the only two numbers that Division allows.
LEMMA QuotientIs ==
  ASSUME NEW m \in Nat \ {0}, NEW s \in Nat, NEW w \in 0 .. m - 1
  PROVE  (m * s + w) \div m = s /\ (m * s + w) % m = w
<1> DEFINE n == m * s + w
<1>1. n \in Nat
  OBVIOUS
<1>2. PICK q \in Nat, r \in 0 .. m - 1 : q = n \div m /\ r = n % m /\ n = m * q + r
  BY <1>1, Division
<1> HIDE DEF n
<1>3. m * q + r = m * s + w
  BY <1>2 DEF n
<1>4. q = s
  <2>1. CASE q >= s + 1
    <3>1. PICK d \in Nat : q = s + 1 + d
      BY <2>1
    <3>2. m * q = m * s + m + m * d
      BY <3>1
    <3>3. m * d \in Nat /\ m * s \in Nat
      OBVIOUS
    <3> QED BY <1>3, <3>2, <3>3
  <2>2. CASE s >= q + 1
    <3>1. PICK d \in Nat : s = q + 1 + d
      BY <2>2
    <3>2. m * s = m * q + m + m * d
      BY <3>1
    <3>3. m * d \in Nat /\ m * q \in Nat
      OBVIOUS
    <3> QED BY <1>3, <3>2, <3>3
  <2> QED BY <2>1, <2>2
<1> QED BY <1>2, <1>3, <1>4 DEF n

LEMMA QuotientOfQuotient ==
  ASSUME NEW n \in Nat, NEW a \in Nat \ {0}, NEW b \in Nat \ {0}
  PROVE  n \div (a * b) = (n \div a) \div b
<1>1. PICK q \in Nat, r \in 0 .. a - 1 : q = n \div a /\ n = a * q + r
  BY Division
<1>2. PICK s \in Nat, t \in 0 .. b - 1 : s = q \div b /\ q = b * s + t
  BY Division
<1>3. a * b \in Nat \ {0}
  OBVIOUS
<1>4. n = (a * b) * s + (a * t + r)
  <2>1. a * q = a * (b * s) + a * t
    BY <1>2
  <2>2. a * (b * s) = (a * b) * s
    OBVIOUS
  <2>3. a * (b * s) \in Nat /\ a * t \in Nat /\ (a * b) * s \in Nat
    OBVIOUS
  <2> QED BY <1>1, <2>1, <2>2, <2>3
<1>5. a * t + r \in 0 .. (a * b) - 1
  <2>1. PICK d \in Nat : b = t + 1 + d
    <3>1. b - t - 1 \in Nat /\ b = t + 1 + (b - t - 1)
      OBVIOUS
    <3> QED BY <3>1
  <2>2. a * b = a * t + a + a * d
    BY <2>1
  <2>3. a * d \in Nat /\ a * t \in Nat
    OBVIOUS
  <2> QED BY <2>2, <2>3
<1>6. PICK m \in Nat \ {0}, w \in 0 .. (a * b) - 1 : m = a * b /\ w = a * t + r
  BY <1>3, <1>5
<1>7. n \div m = s
  <2>1. n = m * s + w
    BY <1>4, <1>6
  <2>2. w \in 0 .. m - 1
    BY <1>6
  <2> HIDE <1>4, <1>6
  <2> QED BY <2>1, <2>2, QuotientIs
<1> QED BY <1>1, <1>2, <1>6, <1>7

LEMMA QuotientIsSmall ==
  ASSUME NEW n \in Nat, NEW m \in Nat \ {0}, NEW b \in Nat, n < m * b
  PROVE  n \div m < b
<1>1. PICK q \in Nat, r \in 0 .. m - 1 : q = n \div m /\ n = m * q + r
  BY Division
<1>2. CASE q >= b
  <2>1. PICK d \in Nat : q = b + d
    BY <1>2
  <2>2. m * q = m * b + m * d
    BY <2>1
  <2>3. m * d \in Nat /\ m * b \in Nat
    OBVIOUS
  <2> QED BY <1>1, <2>2, <2>3
<1> QED BY <1>1, <1>2

LEMMA RemainderOfSmall ==
  ASSUME NEW m \in Nat \ {0}, NEW w \in 0 .. m - 1
  PROVE  w % m = w /\ (m + w) % m = w
<1>1. (m * 0 + w) % m = w /\ (m * 1 + w) % m = w
  BY QuotientIs
<1>2. m * 0 + w = w /\ m * 1 + w = m + w
  OBVIOUS
<1> QED BY <1>1, <1>2

\* The powers of the base that the digits count.
LEMMA PlacesAre ==
  /\ Base \in Nat \ {0} /\ Base * Base \in Nat \ {0} /\ Base * Base * Base \in Nat \ {0}
  /\ Place[1] = 1 /\ Place[2] = Base /\ Place[3] = Base * Base /\ Place[4] = Base * Base * Base
  /\ Place[5] = Base * Base * Base * Base
<1>1. Base \in Nat \ {0}
  BY BaseAssumption
<1>2. Base * Base \in Nat \ {0}
  BY <1>1
<1>3. Base * Base * Base \in Nat \ {0}
  BY <1>1, <1>2
<1> QED BY <1>1, <1>2, <1>3 DEF Place

\* A number is the sum of its digits, each with its worth.
LEMMA SumOfDigits ==
  ASSUME NEW n \in Nat
  PROVE  /\ n < Base => (n % Base) = n
         /\ n < Base * Base => (n % Base) + ((n \div Base) % Base) * Base = n
         /\ n < Base * Base * Base =>
              (n % Base) + ((n \div Base) % Base) * Base
                + ((n \div (Base * Base)) % Base) * (Base * Base) = n
         /\ n < Base * Base * Base * Base =>
              (n % Base) + ((n \div Base) % Base) * Base
                + ((n \div (Base * Base)) % Base) * (Base * Base)
                + ((n \div (Base * Base * Base)) % Base) * (Base * Base * Base) = n
<1>1. PICK B \in Nat \ {0} : B = Base /\ B * B \in Nat \ {0} /\ B * B * B \in Nat \ {0}
  BY PlacesAre
<1>2. PICK q1 \in Nat, r0 \in 0 .. B - 1 : q1 = n \div B /\ r0 = n % B /\ n = B * q1 + r0
  BY Division
<1>3. PICK q2 \in Nat, r1 \in 0 .. B - 1 : q2 = q1 \div B /\ r1 = q1 % B /\ q1 = B * q2 + r1
  BY Division
<1>4. PICK q3 \in Nat, r2 \in 0 .. B - 1 : q3 = q2 \div B /\ r2 = q2 % B /\ q2 = B * q3 + r2
  BY Division
<1>5. PICK r3 \in 0 .. B - 1 : r3 = q3 % B
  BY Division
<1>6. n \div (B * B) = q2
  BY <1>2, <1>3, QuotientOfQuotient
<1>7. n \div (B * B * B) = q3
  <2>1. \A a \in Nat \ {0} : n \div (a * B) = (n \div a) \div B
    BY QuotientOfQuotient
  <2>2. n \div ((B * B) * B) = q2 \div B
    BY <1>1, <1>6, <2>1, Zenon
  <2> QED BY <1>4, <2>2
<1>8. n < B => r0 = n
  BY <1>2, RemainderOfSmall
<1>9. n < B * B => r1 = q1
  <2>1. n < B * B => q1 < B
    BY <1>2, QuotientIsSmall
  <2>2. q1 < B => q1 % B = q1
    BY RemainderOfSmall
  <2> QED BY <1>3, <2>1, <2>2
<1>10. n < B * B * B => r2 = q2
  <2>1. n < B * B * B => q2 < B
    BY <1>1, <1>6, QuotientIsSmall
  <2> QED BY <2>1, <1>4, RemainderOfSmall
<1>11. n < B * B * B * B => r3 = q3
  <2>1. n < B * B * B * B => q3 < B
    BY <1>1, <1>7, QuotientIsSmall
  <2> QED BY <2>1, <1>5, RemainderOfSmall
<1>12. n < B * B => r0 + r1 * B = n
  <2>1. n = r0 + q1 * B
    BY <1>2
  <2> QED BY <1>9, <2>1
<1>13. n < B * B * B => r0 + r1 * B + r2 * (B * B) = n
  BY <1>2, <1>3, <1>10
<1>14. n < B * B * B * B => r0 + r1 * B + r2 * (B * B) + r3 * (B * B * B) = n
  <2>1. n = r0 + r1 * B + r2 * (B * B) + q3 * (B * B * B)
    <3>1. n = r0 + q1 * B
      BY <1>2
    <3>2. n = r0 + (B * q2 + r1) * B
      BY <1>3, <3>1, Zenon
    <3>3. n = r0 + (B * (B * q3 + r2) + r1) * B
      BY <1>4, <3>2, Zenon
    <3> QED BY <3>3
  <2> QED BY <1>11, <2>1
<1> QED BY <1>1, <1>2, <1>3, <1>4, <1>5, <1>6, <1>7, <1>8, <1>12, <1>13, <1>14, Zenon

\* parse_mqtt reads the length that mg_mqtt_prepend_header wrote.
LEMMA LengthRoundTrip ==
  ASSUME NEW n \in Nat, n < TooLong, NEW io \in Seq(Byte), Len(io) > Digits(n),
         \A k \in 1 .. Digits(n) : io[k + 1] = VarLength(n)[k]
  PROVE  RemainingLength(io) = n
<1>1. LengthBytes(io) = Digits(n)
  BY LoopStops
<1>2. Digits(n) \in 1 .. 4 /\ n < Place[Digits(n) + 1]
  BY DigitsExist
<1>3. \A k \in 1 .. Digits(n) :
        io[k + 1] = ((n \div Place[k]) % Base) + (IF k < Digits(n) THEN Base ELSE 0)
  BY <1>2 DEF VarLength
<1>4. ASSUME NEW k \in 1 .. 4, k <= Digits(n), NEW p \in Nat \ {0}, p = Place[k]
      PROVE  Digit(io, k) = ((n \div p) % Base) * p
  <2>1. PICK a \in 0 .. Base - 1 : a = (n \div p) % Base
    BY Division, PlacesAre
  <2>2. k \in 1 .. Digits(n)
    BY <1>2, <1>4
  <2>3. io[k + 1] = a + (IF k < Digits(n) THEN Base ELSE 0)
    BY <1>3, <1>4, <2>1, <2>2
  <2>4. io[k + 1] = a \/ io[k + 1] = Base + a
    BY <2>1, <2>3, PlacesAre
  <2>5. io[k + 1] % Base = a
    BY <2>4, PlacesAre, RemainderOfSmall
  <2> QED BY <1>1, <1>4, <2>1, <2>2, <2>5 DEF Digit
<1>5. \A k \in 1 .. 5 : k > Digits(n) => Digit(io, k) = 0
  BY <1>1, <1>2 DEF Digit
<1>6. /\ Digit(io, 1) = n % Base
      /\ Digits(n) >= 2 => Digit(io, 2) = ((n \div Base) % Base) * Base
      /\ Digits(n) >= 3 => Digit(io, 3) = ((n \div (Base * Base)) % Base) * (Base * Base)
      /\ Digits(n) >= 4 =>
           Digit(io, 4) = ((n \div (Base * Base * Base)) % Base) * (Base * Base * Base)
  <2>1. Digit(io, 1) = ((n \div 1) % Base) * 1
    BY <1>2, <1>4, PlacesAre
  <2>2. n \div 1 = n /\ n % Base \in Int
    BY PlacesAre, Division
  <2>3. Digit(io, 1) = n % Base
    BY <2>1, <2>2
  <2> QED BY <1>2, <1>4, <2>3, PlacesAre
<1>7. n % Base \in Int /\ (n \div Base) % Base \in Int /\ (n \div (Base * Base)) % Base \in Int
  BY PlacesAre, Division
<1>8. CASE Digits(n) = 1
  <2>1. n < Base
    BY <1>2, <1>8, PlacesAre
  <2> QED BY <1>5, <1>6, <1>8, <2>1, SumOfDigits DEF RemainingLength
<1>9. CASE Digits(n) = 2
  <2>1. n < Base * Base
    BY <1>2, <1>9, PlacesAre
  <2>2. Digit(io, 3) = 0 /\ Digit(io, 4) = 0 /\ Digit(io, 5) = 0
    BY <1>5, <1>9
  <2>3. Digit(io, 1) + Digit(io, 2) = n
    BY <1>6, <1>9, <2>1, SumOfDigits
  <2> QED BY <2>2, <2>3 DEF RemainingLength
<1>10. CASE Digits(n) = 3
  <2>1. n < Base * Base * Base
    BY <1>2, <1>10, PlacesAre
  <2>2. Digit(io, 4) = 0 /\ Digit(io, 5) = 0
    BY <1>5, <1>10
  <2>3. Digit(io, 1) + Digit(io, 2) + Digit(io, 3) = n
    BY <1>6, <1>10, <2>1, SumOfDigits
  <2> QED BY <2>2, <2>3 DEF RemainingLength
<1>11. CASE Digits(n) = 4
  <2>1. n < Base * Base * Base * Base
    BY <1>2, <1>11, PlacesAre
  <2>2. Digit(io, 5) = 0
    BY <1>5, <1>11
  <2>3. Digit(io, 1) + Digit(io, 2) + Digit(io, 3) + Digit(io, 4) = n
    BY <1>6, <1>11, <2>1, SumOfDigits
  <2> QED BY <2>2, <2>3 DEF RemainingLength
<1> QED BY <1>2, <1>8, <1>9, <1>10, <1>11

-----------------------------------------------------------------------------
(* Packets *)

\* What mg_mqtt_prepend_header makes of a body that is alone in the buffer.
LEMMA PacketShape ==
  ASSUME NEW cmd \in 0 .. 15, NEW body \in Seq(Byte), Len(body) < TooLong
  PROVE  LET packet == PrependHeader(body, cmd, Len(body))
             D == Digits(Len(body))
         IN  /\ packet \in Seq(Byte) /\ Len(packet) = 1 + D + Len(body)
             /\ packet[1] = cmd * 16
             /\ \A k \in 1 .. D : packet[k + 1] = VarLength(Len(body))[k]
             /\ \A k \in 1 .. Len(body) : packet[1 + D + k] = body[k]
<1> DEFINE V == VarLength(Len(body))
           D == Digits(Len(body))
           H == <<cmd * 16>> \o V
           packet == PrependHeader(body, cmd, Len(body))
<1>1. Len(body) \in Nat
  BY LenProperties
<1>2. V \in Seq(Byte) /\ Len(V) = D /\ D \in 1 .. 4
  BY <1>1, VarLengthBytes, DigitsExist
<1>3. <<cmd * 16>> \in Seq(Byte) /\ Len(<<cmd * 16>>) = 1 /\ <<cmd * 16>>[1] = cmd * 16
  <2>1. cmd * 16 \in Byte
    BY DEF Byte
  <2> QED BY <2>1
<1>4. /\ H \in Seq(Byte) /\ Len(H) = 1 + D /\ H[1] = cmd * 16
      /\ \A k \in 1 .. D : H[k + 1] = V[k]
  <2> HIDE DEF V, D
  <2> DEFINE h == <<cmd * 16>>
  <2>1. h \in Seq(Byte) /\ Len(h) = 1 /\ h[1] = cmd * 16
    BY <1>3
  <2> HIDE DEF h
  <2>2. /\ h \o V \in Seq(Byte) /\ Len(h \o V) = Len(h) + Len(V)
        /\ \A i \in 1 .. Len(h) + Len(V) : (h \o V)[i] = IF i <= Len(h) THEN h[i] ELSE V[i - Len(h)]
    BY ConcatProperties, <2>1, <1>2
  <2>3. /\ h \o V \in Seq(Byte) /\ Len(h \o V) = 1 + D /\ (h \o V)[1] = cmd * 16
        /\ \A k \in 1 .. D : (h \o V)[k + 1] = V[k]
    BY <2>1, <2>2, <1>2
  <2> QED BY <2>3 DEF h
<1>5. packet = H \o body
  <2>1. SubSeq(body, 1, Len(body) - Len(body)) = <<>>
    <3>1. Len(body) - Len(body) = 0
      BY <1>1
    <3> QED BY <3>1, SubSeqEmpty
  <2>2. SubSeq(body, Len(body) - Len(body) + 1, Len(body)) = body
    <3>1. Len(body) - Len(body) + 1 = 1
      BY <1>1
    <3> QED BY <3>1, SubSeqFull
  <2>3. packet = <<>> \o H \o body
    BY <2>1, <2>2 DEF PrependHeader, MbufInsert
  <2>4. <<>> \o H = H
    BY <1>4, ConcatEmptySeq
  <2> QED BY <2>3, <2>4
<1> HIDE DEF V, D, H, packet
<1>6. /\ packet \in Seq(Byte) /\ Len(packet) = Len(H) + Len(body)
      /\ \A i \in 1 .. Len(H) + Len(body) :
           packet[i] = IF i <= Len(H) THEN H[i] ELSE body[i - Len(H)]
  BY <1>4, <1>5, ConcatProperties
<1>7. /\ Len(packet) = 1 + D + Len(body)
      /\ packet[1] = cmd * 16
  BY <1>1, <1>2, <1>4, <1>6
<1>8. \A k \in 1 .. D : packet[k + 1] = V[k]
  BY <1>1, <1>2, <1>4, <1>6
<1>9. \A k \in 1 .. Len(body) : packet[1 + D + k] = body[k]
  BY <1>1, <1>2, <1>4, <1>6
<1> QED BY <1>6, <1>7, <1>8, <1>9 DEF packet, D, V

\* mg_mqtt_prepend_header and parse_mqtt agree: whatever packet the one builds,
\* and whatever bytes follow it in the buffer, the other finds its end, takes its
\* command and its body out, and leaves exactly the bytes that follow.
THEOREM PacketRoundTrip ==
  ASSUME NEW cmd \in 0 .. 15, NEW body \in Seq(Byte), Len(body) < TooLong,
         cmd = CONNACK => Len(body) >= 2,
         NEW rest \in Seq(Byte)
  PROVE  LET packet == PrependHeader(body, cmd, Len(body))
             io == packet \o rest
         IN  /\ ParseMqtt(io) = Len(packet)
             /\ Message(io) = [cmd |-> cmd, body |-> body]
             /\ MbufRemove(io, ParseMqtt(io)) = rest
<1> DEFINE packet == PrependHeader(body, cmd, Len(body))
           io == packet \o rest
           D == Digits(Len(body))
<1>1. Len(body) \in Nat /\ Len(rest) \in Nat
  BY LenProperties
<1>2. /\ packet \in Seq(Byte) /\ Len(packet) = 1 + D + Len(body)
      /\ packet[1] = cmd * 16
      /\ \A k \in 1 .. D : packet[k + 1] = VarLength(Len(body))[k]
      /\ \A k \in 1 .. Len(body) : packet[1 + D + k] = body[k]
  BY PacketShape
<1>3. D \in 1 .. 4
  BY <1>1, DigitsExist
<1>4. VarLength(Len(body))[D] < Base
  BY <1>1, <1>3, VarLengthBytes
<1> HIDE DEF packet, D
<1>5. /\ io \in Seq(Byte) /\ Len(io) = Len(packet) + Len(rest)
      /\ \A i \in 1 .. Len(packet) + Len(rest) :
           io[i] = IF i <= Len(packet) THEN packet[i] ELSE rest[i - Len(packet)]
  <2>1. packet \in Seq(Byte)
    BY <1>2
  <2> QED BY <2>1, ConcatProperties
<1>6. SubSeq(io, Len(packet) + 1, Len(io)) = rest
  <2>1. \A i \in Len(packet) + 1 .. Len(io) : io[i] \in Byte
    BY <1>1, <1>2, <1>3, <1>5, ElementOfSeq
  <2>2. Len(packet) + 1 \in Int /\ Len(io) \in Int
    BY <1>1, <1>2, <1>3, <1>5
  <2> DEFINE tail == SubSeq(io, Len(packet) + 1, Len(io))
  <2>3. /\ tail \in Seq(Byte)
        /\ Len(tail) = IF Len(packet) + 1 <= Len(io) THEN Len(io) - (Len(packet) + 1) + 1 ELSE 0
        /\ \A i \in 1 .. Len(io) - (Len(packet) + 1) + 1 : tail[i] = io[(Len(packet) + 1) + i - 1]
    BY <2>1, <2>2, SubSeqProperties
  <2> HIDE DEF io, tail
  <2>4. Len(tail) = Len(rest)
    BY <1>1, <1>2, <1>3, <1>5, <2>3
  <2>5. \A i \in 1 .. Len(tail) : tail[i] = rest[i]
    <3> TAKE i \in 1 .. Len(tail)
    <3>1. tail[i] = io[Len(packet) + i]
      BY <1>1, <1>2, <1>3, <1>5, <2>3, <2>4
    <3>2. /\ Len(packet) + i \in 1 .. Len(packet) + Len(rest) /\ ~(Len(packet) + i <= Len(packet))
          /\ (Len(packet) + i) - Len(packet) = i
      BY <1>1, <1>2, <1>3, <2>4
    <3> QED BY <1>5, <3>1, <3>2
  <2>6. tail = rest
    BY <2>3, <2>4, <2>5, SeqEqual
  <2> QED BY <2>6 DEF tail
<1> HIDE DEF io
<1>7. Len(io) >= 1 + D + Len(body) /\ Len(io) \in Nat
  BY <1>1, <1>2, <1>3, <1>5
<1>8. io[1] = cmd * 16 /\ \A k \in 1 .. D : io[k + 1] = VarLength(Len(body))[k]
  BY <1>1, <1>2, <1>3, <1>5
<1>9. LengthBytes(io) = D /\ RemainingLength(io) = Len(body)
  <2>1. io \in Seq(Byte) /\ Len(io) > D
    BY <1>1, <1>5, <1>7, <1>3
  <2>2. LengthBytes(io) = Digits(Len(body))
    BY <1>1, <1>8, <2>1, LoopStops DEF D
  <2>3. RemainingLength(io) = Len(body)
    BY <1>1, <1>8, <2>1, LengthRoundTrip DEF D
  <2> QED BY <2>2, <2>3 DEF D
<1>10. io[D + 1] < Base
  BY <1>3, <1>4, <1>8
<1>11. Cmd(io) = cmd
  BY <1>8 DEF Cmd
<1>12. ParseMqtt(io) = 1 + D + Len(body)
  <2>1. ~(Len(io) < 2) /\ ~(io[D + 1] >= Base) /\ ~(Len(body) > Len(io) - 1 - D)
    <3>1. ~(Len(io) < 2) /\ ~(Len(body) > Len(io) - 1 - D)
      BY <1>1, <1>3, <1>7
    <3>2. io[D + 1] \in Int
      <4>1. D + 1 \in 1 .. Len(io)
        BY <1>1, <1>3, <1>7
      <4>2. io[D + 1] \in Byte
        <5>1. D + 1 <= Len(packet) /\ D + 1 \in 1 .. Len(packet) + Len(rest)
          BY <1>1, <1>2, <1>3
        <5>2. io[D + 1] = packet[D + 1] /\ packet \in Seq(Byte)
          BY <1>2, <1>5, <5>1
        <5>3. D + 1 \in 1 .. Len(packet)
          BY <1>1, <1>2, <1>3
        <5> QED BY <5>2, <5>3, ElementOfSeq
      <4>3. Byte \subseteq Int
        BY DEF Byte
      <4> QED BY <4>2, <4>3
    <3> QED BY <3>1, <3>2, <1>10, PlacesAre
  <2>2. ~(Cmd(io) = CONNACK /\ Len(body) < 2)
    BY <1>1, <1>11
  <2> QED BY <1>9, <2>1, <2>2 DEF ParseMqtt
<1>13. Message(io) = [cmd |-> cmd, body |-> body]
  <2>1. SubSeq(io, D + 2, 1 + D + Len(body)) = body
    <3> DEFINE part == SubSeq(io, D + 2, 1 + D + Len(body))
    <3>1. D + 2 \in Int /\ 1 + D + Len(body) \in Int
      BY <1>1, <1>3
    <3>2. \A i \in D + 2 .. 1 + D + Len(body) : io[i] \in Byte
      BY <1>1, <1>3, <1>7, <1>5, ElementOfSeq
    <3>3. /\ part \in Seq(Byte)
          /\ Len(part) = IF D + 2 <= 1 + D + Len(body) THEN (1 + D + Len(body)) - (D + 2) + 1 ELSE 0
          /\ \A i \in 1 .. (1 + D + Len(body)) - (D + 2) + 1 : part[i] = io[(D + 2) + i - 1]
      BY <3>1, <3>2, SubSeqProperties
    <3> HIDE DEF part
    <3>4. Len(part) = Len(body)
      BY <1>1, <1>3, <3>3
    <3>5. \A i \in 1 .. Len(part) : part[i] = body[i]
      <4> TAKE i \in 1 .. Len(part)
      <4>1. part[i] = io[1 + D + i]
        BY <1>1, <1>3, <3>3, <3>4
      <4>2. io[1 + D + i] = packet[1 + D + i]
        BY <1>1, <1>2, <1>3, <1>5, <3>4
      <4> QED BY <4>1, <4>2, <1>2, <3>4
    <3>6. part = body
      BY <3>3, <3>4, <3>5, SeqEqual
    <3> QED BY <3>6 DEF part
  <2> QED BY <2>1, <1>9, <1>11, <1>12 DEF Message
<1>14. MbufRemove(io, ParseMqtt(io)) = rest
  BY <1>2, <1>6, <1>7, <1>12 DEF MbufRemove
<1>15. ParseMqtt(io) = Len(packet)
  BY <1>2, <1>12
<1> QED BY <1>13, <1>14, <1>15 DEF io, packet

-----------------------------------------------------------------------------
(* Keep-alive *)

KeepsAliveInv ==
  /\ idle \in Int /\ quiet \in Nat /\ pass \in 0 .. PassMax
  /\ established /\ ~stepped => quiet <= idle /\ quiet <= KeepAlive + pass

\* The daemon's connection is never quiet for so long that the broker ends it,
\* for every keep-alive interval of at least two passes: what is queued resets
\* the true time and the time the clock shows alike, a forward step only makes
\* the clock show more, and the look of a pass cannot be more than a pass away.
THEOREM AlwaysKeepsAlive == SpecStream => []KeepsAlive
<1> USE MqttStreamAssumption
<1>1. InitStream => KeepsAliveInv
  BY DEF InitStream, KeepsAliveInv
<1>2. KeepsAliveInv /\ [NextStream]_streamvars => KeepsAliveInv'
  <2> SUFFICES ASSUME KeepsAliveInv, [NextStream]_streamvars
               PROVE  KeepsAliveInv'
    OBVIOUS
  <2>1. CASE Handshake
    BY <2>1 DEF KeepsAliveInv, Handshake, Queue
  <2>2. CASE MqttPoll
    BY <2>2 DEF KeepsAliveInv, MqttPoll, Queue, alive
  <2>3. CASE MqttReceive
    <3>1. UNCHANGED clock /\ (established' = established \/ established' = FALSE)
      <4> DEFINE len == ParseMqtt(recv_mbuf)
      <4>1. CASE len > 0 /\ UNCHANGED <<established, outgoing, to_daemon, in_recv, published, clock>>
        BY <4>1
      <4>2. CASE UNCHANGED <<established, outgoing, to_daemon, recv_mbuf, event, published, clock>>
        BY <4>2
      <4>3. CASE Gone
        BY <4>3 DEF Gone
      <4> QED BY <2>3, <4>1, <4>2, <4>3 DEF MqttReceive
    <3> QED BY <3>1 DEF KeepsAliveInv, clock, alive
  <2>4. CASE CloseStream
    BY <2>4 DEF KeepsAliveInv, CloseStream, Gone, clock, alive
  <2>5. CASE \E b \in Bodies : Publish(b)
    BY <2>5 DEF KeepsAliveInv, Publish, Queue
  <2>6. CASE \E n \in 1 .. Len(send_mbuf) : WriteToSocket(n)
    BY <2>6 DEF KeepsAliveInv, WriteToSocket, clock, alive
  <2>7. CASE \E n \in 1 .. Len(to_daemon) : TcpRead(n)
    BY <2>7 DEF KeepsAliveInv, TcpRead, clock, alive
  <2>8. CASE BrokerTakes
    BY <2>8 DEF KeepsAliveInv, BrokerTakes, clock, alive
  <2>9. CASE Tick
    BY <2>9 DEF KeepsAliveInv, Tick
  <2>10. CASE SetClock
    <3>1. CASE idle' = idle + Jump /\ UNCHANGED stepped
      <4>1. UNCHANGED <<established, pass, quiet>>
        BY <2>10 DEF SetClock
      <4>2. idle' \in Int /\ idle' >= idle
        BY <3>1 DEF KeepsAliveInv
      <4> QED BY <3>1, <4>1, <4>2 DEF KeepsAliveInv
    <3>2. CASE idle' = idle - Jump /\ stepped' = TRUE
      <4>1. UNCHANGED <<established, pass, quiet>>
        BY <2>10 DEF SetClock
      <4> QED BY <3>2, <4>1 DEF KeepsAliveInv
    <3> QED BY <2>10, <3>1, <3>2 DEF SetClock
  <2>11. CASE UNCHANGED streamvars
    BY <2>11 DEF KeepsAliveInv, streamvars, clock, alive
  <2> QED BY <2>1, <2>2, <2>3, <2>4, <2>5, <2>6, <2>7, <2>8, <2>9, <2>10, <2>11 DEF NextStream
<1>3. KeepsAliveInv => KeepsAlive
  BY DEF KeepsAliveInv, KeepsAlive
<1> QED BY <1>1, <1>2, <1>3, PTL DEF SpecStream

-----------------------------------------------------------------------------
(* What the standard reads *)

LEMMA BaseIsNat == Base \in Nat /\ Base > 0 /\ Base <= 128
BY BaseAssumption

LEMMA BytesAre == \A b \in Byte : b \in Nat /\ b % Base \in Nat /\ (~(b >= Base) => b < Base)
BY BaseIsNat DEF Byte

LEMMA TimesBase == \A x \in Nat : Base * x \in Nat
BY BaseIsNat, SMT

\* The digits from i to e are a number, least significant first.
LEMMA NumberIs ==
  ASSUME NEW Z \in Seq(Byte), NEW i \in Nat \ {0}, NEW e \in i .. i + 3, e <= Len(Z)
  PROVE  /\ Number(Z, i, e) \in Nat
         /\ Number(Z, i, e) =
              IF e = i THEN Z[i] % Base
              ELSE IF e = i + 1 THEN (Z[i] % Base) + Base * (Z[i + 1] % Base)
              ELSE IF e = i + 2 THEN (Z[i] % Base) + Base * ((Z[i + 1] % Base) + Base * (Z[i + 2] % Base))
              ELSE (Z[i] % Base) + Base * ((Z[i + 1] % Base) + Base * ((Z[i + 2] % Base) + Base * (Z[i + 3] % Base)))
<1> DEFINE d(j) == Z[j] % Base
<1>1. \A j \in i .. e : d(j) \in Nat
  <2> TAKE j \in i .. e
  <2>1. Z[j] \in Byte
    BY ElementOfSeq
  <2>2. \A b \in Byte : b % Base \in Nat
    BY BaseIsNat DEF Byte
  <2> QED BY <2>1, <2>2
<1> HIDE DEF d
<1>2. ASSUME NEW w, w = [j \in i .. e |-> d(j) + (IF j = e THEN 0 ELSE Base * w[j + 1])],
             NEW h, h = [j \in i .. e |-> d(j) + (IF j = e THEN 0 ELSE Base * h[j + 1])]
      PROVE  w[i] = h[i]
  <2>1. \A j \in i .. e : w[j] = d(j) + (IF j = e THEN 0 ELSE Base * w[j + 1])
    BY <1>2
  <2>2. \A j \in i .. e : h[j] = d(j) + (IF j = e THEN 0 ELSE Base * h[j + 1])
    BY <1>2
  <2>3. e = i \/ e = i + 1 \/ e = i + 2 \/ e = i + 3
    OBVIOUS
  <2>4. w[e] = h[e]
    BY <2>1, <2>2
  <2>5. ASSUME NEW j \in i .. e, j # e, w[j + 1] = h[j + 1] PROVE w[j] = h[j]
    <3>1. w[j] = d(j) + Base * w[j + 1]
      BY <2>1, <2>5
    <3>2. h[j] = d(j) + Base * h[j + 1]
      BY <2>2, <2>5
    <3> QED BY <2>5, <3>1, <3>2, Zenon
  <2>6. i \in i .. e
    OBVIOUS
  <2>7. e # i => i + 1 \in i .. e
    OBVIOUS
  <2>8. e # i /\ e # i + 1 => i + 2 \in i .. e /\ (i + 1) + 1 = i + 2
    OBVIOUS
  <2>9. (i + 2) + 1 = i + 3
    OBVIOUS
  <2>10. CASE e = i
    BY <2>4, <2>10
  <2>11. CASE e = i + 1
    BY <2>4, <2>5, <2>6, <2>11
  <2>12. CASE e = i + 2
    <3>1. w[i + 1] = h[i + 1]
      BY <2>4, <2>5, <2>7, <2>8, <2>12
    <3> QED BY <2>5, <2>6, <2>12, <3>1
  <2>13. CASE e = i + 3
    <3>1. w[i + 2] = h[i + 2]
      BY <2>4, <2>5, <2>8, <2>9, <2>13
    <3>2. w[i + 1] = h[i + 1]
      BY <2>5, <2>7, <2>8, <2>13, <3>1
    <3> QED BY <2>5, <2>6, <2>13, <3>2
  <2> QED BY <2>3, <2>10, <2>11, <2>12, <2>13
<1> DEFINE V(j) == IF e = j THEN d(j)
                   ELSE IF e = j + 1 THEN d(j) + Base * d(j + 1)
                   ELSE IF e = j + 2 THEN d(j) + Base * (d(j + 1) + Base * d(j + 2))
                   ELSE d(j) + Base * (d(j + 1) + Base * (d(j + 2) + Base * d(j + 3)))
<1>3. PICK w : w = [j \in i .. e |-> V(j)]
  OBVIOUS
<1>4. w = [j \in i .. e |-> d(j) + (IF j = e THEN 0 ELSE Base * w[j + 1])]
  <2>1. ASSUME NEW j \in i .. e PROVE w[j] = d(j) + (IF j = e THEN 0 ELSE Base * w[j + 1])
    <3>1. CASE j = e
      BY <1>1, <1>3, <3>1
    <3>2. CASE j # e
      <4>1. j + 1 \in i .. e /\ w[j] = V(j) /\ w[j + 1] = V(j + 1)
        BY <1>3, <3>2
      <4>2. e = j + 1 \/ e = j + 2 \/ e = j + 3
        BY <3>2
      <4>3. V(j) = d(j) + Base * V(j + 1)
        BY <4>2
      <4> QED BY <3>2, <4>1, <4>3
    <3> QED BY <3>1, <3>2
  <2> QED BY <1>3, <2>1
<1>5. Number(Z, i, e) = w[i]
  <2> DEFINE h == CHOOSE h : h = [j \in i .. e |-> d(j) + (IF j = e THEN 0 ELSE Base * h[j + 1])]
  <2>1. h = [j \in i .. e |-> d(j) + (IF j = e THEN 0 ELSE Base * h[j + 1])]
    BY <1>4, Zenon
  <2>2. Number(Z, i, e) = h[i]
    BY Zenon DEF Number, d
  <2> HIDE DEF h
  <2> QED BY <1>2, <1>4, <2>1, <2>2
<1>6. w[i] = V(i)
  BY <1>3
<1>7. V(i) \in Nat
  <2>1. \A x, y \in Nat : x + Base * y \in Nat
    <3> TAKE x, y \in Nat
    <3>1. PICK z \in Nat : z = Base * y
      BY TimesBase
    <3> QED BY <3>1
  <2>2. CASE e = i
    BY <1>1, <2>2
  <2>3. CASE e = i + 1
    <3>1. d(i) \in Nat /\ d(i + 1) \in Nat
      BY <1>1, <2>3
    <3>2. d(i) + Base * d(i + 1) \in Nat
      BY <2>1, <3>1
    <3> QED BY <2>3, <3>2
  <2>4. CASE e = i + 2
    <3>1. d(i) \in Nat /\ d(i + 1) \in Nat /\ d(i + 2) \in Nat
      BY <1>1, <2>4
    <3>2. d(i + 1) + Base * d(i + 2) \in Nat
      BY <2>1, <3>1
    <3>3. d(i) + Base * (d(i + 1) + Base * d(i + 2)) \in Nat
      BY <2>1, <3>1, <3>2
    <3> QED BY <2>4, <3>3
  <2>5. CASE e = i + 3
    <3>1. d(i) \in Nat /\ d(i + 1) \in Nat /\ d(i + 2) \in Nat /\ d(i + 3) \in Nat
      BY <1>1, <2>5
    <3>2. d(i + 2) + Base * d(i + 3) \in Nat
      BY <2>1, <3>1
    <3>3. d(i + 1) + Base * (d(i + 2) + Base * d(i + 3)) \in Nat
      BY <2>1, <3>1, <3>2
    <3>4. d(i) + Base * (d(i + 1) + Base * (d(i + 2) + Base * d(i + 3))) \in Nat
      BY <2>1, <3>1, <3>3
    <3> QED BY <2>5, <3>4
  <2> QED BY <2>2, <2>3, <2>4, <2>5
<1> QED BY <1>5, <1>6, <1>7 DEF d

\* Where the length ends that begins at i.
LEMMA EndIs ==
  ASSUME NEW Z \in Seq(Byte), NEW i \in Nat \ {0}
  PROVE  \/ /\ EndOfLength(Z, i) = 0
            /\ \A j \in i .. i + 3 : j <= Len(Z) => ~(Z[j] < Base)
         \/ /\ EndOfLength(Z, i) \in i .. i + 3 /\ EndOfLength(Z, i) <= Len(Z)
            /\ Z[EndOfLength(Z, i)] < Base
            /\ \A j \in i .. EndOfLength(Z, i) - 1 : ~(Z[j] < Base)
<1> DEFINE S == {j \in i .. i + 3 : j <= Len(Z) /\ Z[j] < Base}
           m == CHOOSE x \in S : \A y \in S : x <= y
<1>1. EndOfLength(Z, i) = IF S = {} THEN 0 ELSE m
  BY DEF EndOfLength, Min
<1>2. CASE S = {}
  BY <1>1, <1>2
<1>3. CASE S # {}
  <2>1. \E x \in S : \A y \in S : x <= y
    <3>1. S \subseteq {i, i + 1, i + 2, i + 3}
      OBVIOUS
    <3> HIDE DEF S
    <3>2. CASE i \in S
      BY <3>1, <3>2
    <3>3. CASE i \notin S /\ i + 1 \in S
      BY <3>1, <3>3
    <3>4. CASE i \notin S /\ i + 1 \notin S /\ i + 2 \in S
      BY <3>1, <3>4
    <3>5. CASE S \subseteq {i + 3}
      <4>0. PICK x : x \in S
        BY <1>3
      <4>1. i + 3 \in S /\ i + 3 <= i + 3
        BY <3>5, <4>0
      <4>2. \A y \in S : i + 3 <= y
        BY <3>5, <4>1
      <4> QED BY <4>1, <4>2
    <3> QED BY <1>3, <3>1, <3>2, <3>3, <3>4, <3>5
  <2>2. m \in S /\ \A y \in S : m <= y
    <3> HIDE DEF S
    <3> QED BY <2>1
  <2>3. EndOfLength(Z, i) = m
    BY <1>1, <1>3
  <2>4. Len(Z) \in Nat
    BY LenProperties
  <2> HIDE DEF m
  <2>5. \A j \in i .. m - 1 : ~(Z[j] < Base)
    <3> SUFFICES ASSUME NEW j \in i .. m - 1, Z[j] < Base PROVE FALSE
      OBVIOUS
    <3>1. j \in i .. i + 3 /\ j <= Len(Z) /\ j < m
      BY <2>2, <2>4
    <3>2. j \in S
      BY <3>1
    <3> QED BY <2>2, <3>1, <3>2
  <2> QED BY <2>2, <2>3, <2>5
<1> QED BY <1>2, <1>3

\* They depend on the bytes of the length alone.
LEMMA LengthMoves ==
  ASSUME NEW Z \in Seq(Byte), NEW Y \in Seq(Byte), NEW k \in Nat, NEW i \in Nat \ {0},
         Len(Z) <= Len(Y) + k, \A j \in 1 .. Len(Z) : j > k => Z[j] = Y[j - k],
         EndOfLength(Z, i + k) # 0
  PROVE  /\ EndOfLength(Y, i) # 0 /\ EndOfLength(Z, i + k) = EndOfLength(Y, i) + k
         /\ Number(Z, i + k, EndOfLength(Z, i + k)) = Number(Y, i, EndOfLength(Y, i))
<1>1. Len(Z) \in Nat /\ Len(Y) \in Nat
  BY LenProperties
<1>2. PICK e : e = EndOfLength(Z, i + k)
  OBVIOUS
<1>3. /\ e \in i + k .. i + k + 3 /\ e <= Len(Z) /\ Z[e] < Base
      /\ \A j \in i + k .. e - 1 : ~(Z[j] < Base)
  BY <1>2, EndIs
<1>4. \A j \in i .. e - k : Y[j] = Z[j + k]
  <2> TAKE j \in i .. e - k
  <2>1. j + k \in 1 .. Len(Z) /\ j + k > k /\ (j + k) - k = j
    BY <1>1, <1>3
  <2> QED BY <2>1
<1>5. e - k \in i .. i + 3 /\ e - k <= Len(Y) /\ e - k + k = e
  BY <1>1, <1>3
<1>6. Y[e - k] < Base
  BY <1>3, <1>4, <1>5
<1>7. \A j \in i .. e - k - 1 : ~(Y[j] < Base)
  <2> TAKE j \in i .. e - k - 1
  <2>1. j \in i .. e - k /\ j + k \in i + k .. e - 1
    BY <1>5, <1>3
  <2> QED BY <1>3, <1>4, <2>1
<1>8. EndOfLength(Y, i) = e - k
  <2>1. PICK c : c = EndOfLength(Y, i)
    OBVIOUS
  <2>2. c # 0
    BY <1>5, <1>6, <2>1, EndIs
  <2>3. c \in i .. i + 3 /\ Y[c] < Base /\ \A j \in i .. c - 1 : ~(Y[j] < Base)
    BY <2>1, <2>2, EndIs
  <2>4. ~(c < e - k)
    BY <1>5, <1>7, <2>3
  <2>5. ~(e - k < c)
    BY <1>5, <1>6, <2>3
  <2> QED BY <1>5, <2>1, <2>3, <2>4, <2>5
<1>9. Number(Z, i + k, e) = Number(Y, i, e - k)
  <2>1. PICK a : a = i + k
    OBVIOUS
  <2>2. /\ a \in Nat \ {0} /\ e \in a .. a + 3 /\ e <= Len(Z)
        /\ e - k = i <=> e = a
        /\ e - k = i + 1 <=> e = a + 1
        /\ e - k = i + 2 <=> e = a + 2
    BY <1>3, <2>1
  <2>3. /\ Y[i] = Z[a]
        /\ e # a => Y[i + 1] = Z[a + 1]
        /\ e # a /\ e # a + 1 => Y[i + 2] = Z[a + 2]
        /\ e # a /\ e # a + 1 /\ e # a + 2 => Y[i + 3] = Z[a + 3]
    <3>1. i \in i .. e - k /\ i + k = a
      BY <1>5, <2>1
    <3>2. e # a => i + 1 \in i .. e - k /\ (i + 1) + k = a + 1
      BY <1>5, <2>1, <2>2
    <3>3. e # a /\ e # a + 1 => i + 2 \in i .. e - k /\ (i + 2) + k = a + 2
      BY <1>5, <2>1, <2>2
    <3>4. e # a /\ e # a + 1 /\ e # a + 2 => i + 3 \in i .. e - k /\ (i + 3) + k = a + 3
      BY <1>5, <2>1, <2>2
    <3> QED BY <1>4, <3>1, <3>2, <3>3, <3>4
  <2>4. Number(Z, a, e) =
          IF e = a THEN Z[a] % Base
          ELSE IF e = a + 1 THEN (Z[a] % Base) + Base * (Z[a + 1] % Base)
          ELSE IF e = a + 2 THEN (Z[a] % Base) + Base * ((Z[a + 1] % Base) + Base * (Z[a + 2] % Base))
          ELSE (Z[a] % Base) + Base * ((Z[a + 1] % Base) + Base * ((Z[a + 2] % Base) + Base * (Z[a + 3] % Base)))
    BY <2>2, NumberIs
  <2>5. Number(Y, i, e - k) =
          IF e - k = i THEN Y[i] % Base
          ELSE IF e - k = i + 1 THEN (Y[i] % Base) + Base * (Y[i + 1] % Base)
          ELSE IF e - k = i + 2 THEN (Y[i] % Base) + Base * ((Y[i + 1] % Base) + Base * (Y[i + 2] % Base))
          ELSE (Y[i] % Base) + Base * ((Y[i + 1] % Base) + Base * ((Y[i + 2] % Base) + Base * (Y[i + 3] % Base)))
    BY <1>5, NumberIs
  <2> QED BY <2>1, <2>2, <2>3, <2>4, <2>5, Zenon
<1> QED BY <1>2, <1>3, <1>5, <1>8, <1>9

-----------------------------------------------------------------------------
(* The packets of a stream *)

\* One step of Frames: the packet at i, and what f says of the rest.
Reads(Z, f, i) ==
  LET e == EndOfLength(Z, i + 1)
      last == e + Number(Z, i + 1, e)
  IN  IF e = 0 \/ last > Len(Z) THEN <<>>
      ELSE <<[cmd |-> Z[i] \div 16, body |-> SubSeq(Z, e + 1, last)]>> \o f[last + 1]

IsReading(Z, f) == f = [i \in 1 .. Len(Z) + 1 |-> Reads(Z, f, i)]

LEMMA ReadsAhead ==
  ASSUME NEW Z \in Seq(Byte), NEW i \in 1 .. Len(Z) + 1, NEW f, NEW g,
         \A j \in i + 1 .. Len(Z) + 1 : f[j] = g[j]
  PROVE  Reads(Z, f, i) = Reads(Z, g, i)
<1>1. PICK e : e = EndOfLength(Z, i + 1)
  OBVIOUS
<1>2. CASE e = 0
  BY <1>1, <1>2 DEF Reads
<1>3. CASE e # 0
  <2>1. PICK last : last = e + Number(Z, i + 1, e)
    OBVIOUS
  <2>2. Len(Z) \in Nat /\ i \in Nat /\ i + 1 \in Nat \ {0}
    BY LenProperties
  <2>3. e \in i + 1 .. (i + 1) + 3 /\ e <= Len(Z)
    BY <1>1, <1>3, <2>2, EndIs
  <2>4. Number(Z, i + 1, e) \in Nat
    BY <2>2, <2>3, NumberIs
  <2>5. last \in Nat /\ last >= i + 1
    BY <2>1, <2>2, <2>3, <2>4
  <2>6. ~(last > Len(Z)) => f[last + 1] = g[last + 1]
    BY <2>2, <2>5
  <2> QED BY <1>1, <1>3, <2>1, <2>6 DEF Reads
<1> QED BY <1>2, <1>3

LEMMA ReadingExists == \A Z \in Seq(Byte) : \E f : IsReading(Z, f)
<1> SUFFICES ASSUME NEW Z \in Seq(Byte) PROVE \E f : IsReading(Z, f)
  OBVIOUS
<1> DEFINE L == Len(Z) + 1
           G(n, g) == \A i \in 1 .. L : i > L - n => g[i] = Reads(Z, g, i)
           T == {n \in Nat : n <= L => \E g : g = [i \in 1 .. L |-> g[i]] /\ G(n, g)}
<1>1. L \in Nat
  BY LenProperties
<1> HIDE DEF L
<1>2. 0 \in T
  <2>1. PICK g : g = [i \in 1 .. L |-> 0]
    OBVIOUS
  <2>2. g = [i \in 1 .. L |-> g[i]]
    BY <2>1
  <2>3. G(0, g)
    BY <1>1
  <2> QED BY <2>2, <2>3
<1>3. ASSUME NEW n \in Nat, n \in T PROVE n + 1 \in T
  <2> SUFFICES ASSUME n + 1 <= L PROVE \E g : g = [i \in 1 .. L |-> g[i]] /\ G(n + 1, g)
    OBVIOUS
  <2>1. PICK g : g = [i \in 1 .. L |-> g[i]] /\ G(n, g)
    BY <1>1, <1>3
  <2>2. PICK h : h = [i \in 1 .. L |-> IF i = L - n THEN Reads(Z, g, i) ELSE g[i]]
    OBVIOUS
  <2>3. L - n \in 1 .. L
    BY <1>1
  <2>4. h = [i \in 1 .. L |-> h[i]]
    BY <2>2
  <2>5. \A j \in 1 .. L : j > L - n => h[j] = g[j]
    BY <2>2, <2>3
  <2>6. ASSUME NEW i \in 1 .. L, i > L - (n + 1) PROVE h[i] = Reads(Z, h, i)
    <3>1. i >= L - n
      BY <1>1, <2>6
    <3>2. \A j \in i + 1 .. L : h[j] = g[j]
      BY <1>1, <2>5, <3>1
    <3>3. Reads(Z, h, i) = Reads(Z, g, i)
      BY <3>2, ReadsAhead DEF L
    <3>4. h[i] = Reads(Z, g, i)
      <4>1. CASE i = L - n
        BY <2>2, <4>1
      <4>2. CASE i # L - n
        <5>1. i > L - n
          BY <1>1, <3>1, <4>2
        <5> QED BY <2>1, <2>5, <5>1
      <4> QED BY <4>1, <4>2
    <3> QED BY <3>3, <3>4
  <2> QED BY <2>4, <2>6
<1>4. L \in T
  <2> HIDE DEF T
  <2>1. \A n \in Nat : n \in T
    BY <1>2, <1>3, SetInduction
  <2> QED BY <1>1, <2>1
<1>5. PICK g : g = [i \in 1 .. L |-> g[i]] /\ G(L, g)
  BY <1>1, <1>4
<1>6. \A i \in 1 .. L : g[i] = Reads(Z, g, i)
  BY <1>1, <1>5
<1>7. g = [i \in 1 .. L |-> Reads(Z, g, i)]
  BY <1>5, <1>6
<1> QED BY <1>7 DEF IsReading, L

LEMMA ReadingIsUnique ==
  ASSUME NEW Z \in Seq(Byte), NEW f, IsReading(Z, f), NEW g, IsReading(Z, g)
  PROVE  \A i \in 1 .. Len(Z) + 1 : f[i] = g[i]
<1> DEFINE L == Len(Z) + 1
           T == {n \in Nat : \A i \in 1 .. L : i > L - n => f[i] = g[i]}
<1>1. L \in Nat
  BY LenProperties
<1>2. \A i \in 1 .. L : f[i] = Reads(Z, f, i) /\ g[i] = Reads(Z, g, i)
  BY DEF IsReading
<1> HIDE DEF L
<1>3. 0 \in T
  BY <1>1
<1>4. ASSUME NEW n \in Nat, n \in T PROVE n + 1 \in T
  <2> SUFFICES ASSUME NEW i \in 1 .. L, i > L - (n + 1) PROVE f[i] = g[i]
    OBVIOUS
  <2>1. \A j \in i + 1 .. L : j > L - n /\ j \in 1 .. L
    BY <1>1
  <2>2. \A j \in i + 1 .. L : f[j] = g[j]
    BY <1>4, <2>1
  <2>3. Reads(Z, f, i) = Reads(Z, g, i)
    BY <2>2, ReadsAhead DEF L
  <2> QED BY <1>2, <2>3
<1>5. L \in T
  <2> HIDE DEF T
  <2>1. \A n \in Nat : n \in T
    BY <1>3, <1>4, SetInduction
  <2> QED BY <1>1, <2>1
<1>6. \A i \in 1 .. L : i > L - L
  BY <1>1
<1> QED BY <1>5, <1>6 DEF L

LEMMA FramesReads == \A Z \in Seq(Byte) : \E f : IsReading(Z, f) /\ Frames(Z) = f[1]
<1> SUFFICES ASSUME NEW Z \in Seq(Byte) PROVE \E f : IsReading(Z, f) /\ Frames(Z) = f[1]
  OBVIOUS
<1> DEFINE f == CHOOSE f : f = [i \in 1 .. Len(Z) + 1 |-> Reads(Z, f, i)]
<1>1. \E g : g = [i \in 1 .. Len(Z) + 1 |-> Reads(Z, g, i)]
  BY ReadingExists, Zenon DEF IsReading
<1>2. f = [i \in 1 .. Len(Z) + 1 |-> Reads(Z, f, i)]
  BY <1>1, Zenon
<1>3. Frames(Z) = f[1]
  BY Zenon DEF Frames, Reads
<1> HIDE DEF f
<1> QED BY <1>2, <1>3 DEF IsReading

\* The packet at the front of a stream.
EndOfFirst(Z) == EndOfLength(Z, 2) + Number(Z, 2, EndOfLength(Z, 2))
Complete(Z) == EndOfLength(Z, 2) # 0 /\ EndOfFirst(Z) <= Len(Z)
FirstFrame(Z) ==
  [cmd |-> Z[1] \div 16, body |-> SubSeq(Z, EndOfLength(Z, 2) + 1, EndOfFirst(Z))]
Behind(Z) == SubSeq(Z, EndOfFirst(Z) + 1, Len(Z))

LEMMA CompleteType ==
  ASSUME NEW Z \in Seq(Byte), Complete(Z)
  PROVE  /\ EndOfLength(Z, 2) \in 2 .. 5 /\ EndOfLength(Z, 2) <= EndOfFirst(Z)
         /\ EndOfFirst(Z) \in 2 .. Len(Z)
         /\ FirstFrame(Z) \in Packet
         /\ Behind(Z) \in Seq(Byte) /\ Len(Behind(Z)) = Len(Z) - EndOfFirst(Z)
         /\ \A i \in 1 .. Len(Behind(Z)) : Behind(Z)[i] = Z[i + EndOfFirst(Z)]
<1>1. PICK e : e = EndOfLength(Z, 2)
  OBVIOUS
<1>2. PICK last : last = EndOfFirst(Z)
  OBVIOUS
<1>3. Len(Z) \in Nat
  BY LenProperties
<1>4. e \in 2 .. 5 /\ e <= Len(Z)
  BY <1>1, EndIs DEF Complete
<1>5. Number(Z, 2, e) \in Nat
  BY <1>4, NumberIs
<1>6. last \in Nat /\ e <= last /\ last <= Len(Z)
  BY <1>1, <1>2, <1>4, <1>5 DEF EndOfFirst, Complete
<1>7. SubSeq(Z, e + 1, last) \in Seq(Byte)
  <2>1. \A i \in e + 1 .. last : Z[i] \in Byte
    BY <1>3, <1>4, <1>6, ElementOfSeq
  <2>2. e + 1 \in Int /\ last \in Int
    BY <1>4, <1>6
  <2> QED BY <2>1, <2>2, SubSeqProperties
<1>8. Z[1] \div 16 \in 0 .. 15
  <2>1. Z[1] \in Byte
    BY <1>3, <1>4, ElementOfSeq
  <2>2. \A b \in 0 .. 255 : b \div 16 \in 0 .. 15
    OBVIOUS
  <2> QED BY <2>1, <2>2, Zenon DEF Byte
<1>9. /\ SubSeq(Z, last + 1, Len(Z)) \in Seq(Byte)
      /\ Len(SubSeq(Z, last + 1, Len(Z))) = Len(Z) - last
      /\ \A i \in 1 .. Len(Z) - last : SubSeq(Z, last + 1, Len(Z))[i] = Z[i + last]
  <2>1. \A i \in last + 1 .. Len(Z) : Z[i] \in Byte
    BY <1>3, <1>6, ElementOfSeq
  <2>2. last + 1 \in Int /\ Len(Z) \in Int
    BY <1>3, <1>6
  <2> DEFINE t == SubSeq(Z, last + 1, Len(Z))
  <2>3. /\ t \in Seq(Byte) /\ Len(t) = IF last + 1 <= Len(Z) THEN Len(Z) - (last + 1) + 1 ELSE 0
        /\ \A i \in 1 .. Len(Z) - (last + 1) + 1 : t[i] = Z[last + 1 + i - 1]
    BY <2>1, <2>2, SubSeqProperties
  <2> HIDE DEF t
  <2>4. Len(t) = Len(Z) - last /\ \A i \in 1 .. Len(Z) - last : t[i] = Z[i + last]
    <3>1. Len(t) = Len(Z) - last
      BY <1>3, <1>6, <2>3
    <3>2. ASSUME NEW i \in 1 .. Len(Z) - last PROVE t[i] = Z[i + last]
      <4>1. i \in 1 .. Len(Z) - (last + 1) + 1 /\ last + 1 + i - 1 = i + last
        BY <1>3, <1>6
      <4> QED BY <2>3, <4>1
    <3> QED BY <3>1, <3>2
  <2> QED BY <2>3, <2>4 DEF t
<1>10. FirstFrame(Z) \in Packet
  BY <1>1, <1>2, <1>7, <1>8 DEF FirstFrame, Packet
<1>11. Behind(Z) = SubSeq(Z, last + 1, Len(Z))
  BY <1>2 DEF Behind
<1>12. EndOfLength(Z, 2) \in 2 .. 5 /\ EndOfLength(Z, 2) <= EndOfFirst(Z)
  BY <1>1, <1>2, <1>4, <1>6
<1>13. EndOfFirst(Z) \in 2 .. Len(Z)
  BY <1>2, <1>3, <1>4, <1>6
<1>14. Behind(Z) \in Seq(Byte) /\ Len(Behind(Z)) = Len(Z) - EndOfFirst(Z)
  BY <1>2, <1>9, <1>11
<1>15. \A i \in 1 .. Len(Behind(Z)) : Behind(Z)[i] = Z[i + EndOfFirst(Z)]
  BY <1>2, <1>9, <1>11, <1>14
<1> QED BY <1>10, <1>12, <1>13, <1>14, <1>15

\* A stream holds the packet at its front, and what the bytes behind it hold.
LEMMA FramesStep ==
  ASSUME NEW Z \in Seq(Byte)
  PROVE  Frames(Z) = IF Complete(Z) THEN <<FirstFrame(Z)>> \o Frames(Behind(Z)) ELSE <<>>
<1>1. PICK f : IsReading(Z, f) /\ Frames(Z) = f[1]
  BY FramesReads
<1>2. Len(Z) \in Nat
  BY LenProperties
<1>3. \A i \in 1 .. Len(Z) + 1 : f[i] = Reads(Z, f, i)
  BY <1>1 DEF IsReading
<1>4. Frames(Z) = Reads(Z, f, 1)
  BY <1>1, <1>2, <1>3
<1>5. CASE ~Complete(Z)
  <2>1. EndOfLength(Z, 1 + 1) = 0 \/ EndOfLength(Z, 1 + 1) + Number(Z, 1 + 1, EndOfLength(Z, 1 + 1)) > Len(Z)
    <3>1. CASE EndOfLength(Z, 2) = 0
      BY <3>1
    <3>2. CASE EndOfLength(Z, 2) # 0
      <4>1. EndOfLength(Z, 2) \in 2 .. 2 + 3 /\ EndOfLength(Z, 2) <= Len(Z)
        BY <3>2, EndIs
      <4>2. Number(Z, 2, EndOfLength(Z, 2)) \in Nat
        BY <4>1, NumberIs
      <4> QED BY <1>2, <1>5, <4>1, <4>2 DEF Complete, EndOfFirst
    <3> QED BY <3>1, <3>2
  <2> QED BY <1>4, <1>5, <2>1 DEF Reads
<1>6. CASE Complete(Z)
  <2>1. PICK k : k = EndOfFirst(Z)
    OBVIOUS
  <2>2. PICK Y : Y = Behind(Z)
    OBVIOUS
  <2>3. /\ k \in 2 .. Len(Z) /\ Y \in Seq(Byte) /\ Len(Y) = Len(Z) - k
        /\ \A i \in 1 .. Len(Y) : Y[i] = Z[i + k]
    BY <1>6, <2>1, <2>2, CompleteType
  <2>4. \A j \in 1 .. Len(Z) : j > k => Z[j] = Y[j - k]
    <3> SUFFICES ASSUME NEW j \in 1 .. Len(Z), j > k PROVE Z[j] = Y[j - k]
      OBVIOUS
    <3>1. j - k \in 1 .. Len(Y) /\ (j - k) + k = j
      BY <1>2, <2>3
    <3> QED BY <2>3, <3>1
  <2>5. PICK g : g = [i \in 1 .. Len(Y) + 1 |-> f[i + k]]
    OBVIOUS
  <2>6. ASSUME NEW i \in 1 .. Len(Y) + 1 PROVE g[i] = Reads(Y, g, i)
    <3>1. i + k \in 1 .. Len(Z) + 1 /\ g[i] = f[i + k]
      BY <1>2, <2>3, <2>5
    <3>2. g[i] = Reads(Z, f, i + k)
      BY <1>3, <3>1
    <3>3. PICK e : e = EndOfLength(Z, (i + 1) + k)
      OBVIOUS
    <3>4. PICK c : c = EndOfLength(Y, i + 1)
      OBVIOUS
    <3>5. (i + k) + 1 = (i + 1) + k /\ i + 1 \in Nat \ {0} /\ (i + 1) + k \in Nat \ {0} /\ k \in Nat
      BY <1>2, <2>3
    <3>6. CASE e = 0
      <4>1. c = 0
        <5> SUFFICES ASSUME c # 0 PROVE FALSE
          OBVIOUS
        <5>1. c \in i + 1 .. (i + 1) + 3 /\ c <= Len(Y) /\ Y[c] < Base
          BY <2>3, <3>4, <3>5, EndIs
        <5>2. c + k \in (i + 1) + k .. ((i + 1) + k) + 3 /\ c + k <= Len(Z) /\ c \in 1 .. Len(Y)
          BY <1>2, <2>3, <5>1
        <5>3. Z[c + k] < Base
          BY <2>3, <5>1, <5>2
        <5> QED BY <3>3, <3>5, <3>6, <5>2, <5>3, EndIs
      <4> QED BY <3>2, <3>3, <3>4, <3>5, <3>6, <4>1 DEF Reads
    <3>7. CASE e # 0
      <4>1. c # 0 /\ e = c + k /\ Number(Z, (i + 1) + k, e) = Number(Y, i + 1, c)
        <5>1. Len(Z) <= Len(Y) + k
          BY <1>2, <2>3
        <5> QED BY ZenonT(30), <2>3, <2>4, <3>3, <3>4, <3>5, <3>7, <5>1, LengthMoves
      <4>2. PICK n : n = Number(Y, i + 1, c)
        OBVIOUS
      <4>3. c \in i + 1 .. (i + 1) + 3 /\ c <= Len(Y) /\ n \in Nat
        <5>1. c \in i + 1 .. (i + 1) + 3 /\ c <= Len(Y)
          BY <2>3, <3>4, <3>5, <4>1, EndIs
        <5> QED BY <2>3, <3>5, <4>2, <5>1, NumberIs
      <4>4. e + n = (c + n) + k /\ (e + n > Len(Z) <=> c + n > Len(Y))
        BY <1>2, <2>3, <4>1, <4>3
      <4>5. Reads(Z, f, i + k) =
              IF e + n > Len(Z) THEN <<>>
              ELSE <<[cmd |-> Z[i + k] \div 16, body |-> SubSeq(Z, e + 1, e + n)]>> \o f[(e + n) + 1]
        BY <3>3, <3>5, <3>7, <4>1, <4>2, Zenon DEF Reads
      <4>6. Reads(Y, g, i) =
              IF c + n > Len(Y) THEN <<>>
              ELSE <<[cmd |-> Y[i] \div 16, body |-> SubSeq(Y, c + 1, c + n)]>> \o g[(c + n) + 1]
        BY <3>4, <4>1, <4>2, Zenon DEF Reads
      <4>7. CASE c + n > Len(Y)
        BY <3>2, <4>4, <4>5, <4>6, <4>7
      <4>8. CASE ~(c + n > Len(Y))
        <5>1. i \in 1 .. Len(Y) /\ (c + n) + 1 \in 1 .. Len(Y) + 1 /\ ((c + n) + 1) + k = (e + n) + 1
          BY <1>2, <2>3, <4>3, <4>4, <4>8
        <5>2. Y[i] = Z[i + k] /\ g[(c + n) + 1] = f[(e + n) + 1]
          BY <2>3, <2>5, <5>1
        <5>3. SubSeq(Y, c + 1, c + n) = SubSeq(Z, e + 1, e + n)
          <6> DEFINE y == SubSeq(Y, c + 1, c + n)
                     z == SubSeq(Z, e + 1, e + n)
          <6>0. Len(Y) \in Nat
            BY LenProperties, <2>3
          <6>1. c + 1 \in Int /\ c + n \in Int /\ e + 1 \in Int /\ e + n \in Int
            BY <2>3, <4>1, <4>3
          <6>2. \A j \in c + 1 .. c + n : Y[j] \in Byte
            BY <2>3, <4>3, <4>8, <6>0, ElementOfSeq
          <6>3. \A j \in e + 1 .. e + n : Z[j] \in Byte
            BY <1>2, <2>3, <4>1, <4>3, <4>4, <4>8, <6>0, ElementOfSeq
          <6>4. /\ y \in Seq(Byte) /\ Len(y) = IF c + 1 <= c + n THEN (c + n) - (c + 1) + 1 ELSE 0
                /\ \A j \in 1 .. (c + n) - (c + 1) + 1 : y[j] = Y[c + 1 + j - 1]
            BY <6>1, <6>2, SubSeqProperties
          <6>5. /\ z \in Seq(Byte) /\ Len(z) = IF e + 1 <= e + n THEN (e + n) - (e + 1) + 1 ELSE 0
                /\ \A j \in 1 .. (e + n) - (e + 1) + 1 : z[j] = Z[e + 1 + j - 1]
            BY <6>1, <6>3, SubSeqProperties
          <6> HIDE DEF y, z
          <6>6. Len(y) = n /\ Len(z) = n
            BY <2>3, <4>1, <4>3, <6>4, <6>5
          <6>7. \A j \in 1 .. Len(y) : y[j] = z[j]
            <7> TAKE j \in 1 .. Len(y)
            <7>1. /\ j \in 1 .. (c + n) - (c + 1) + 1 /\ j \in 1 .. (e + n) - (e + 1) + 1
                  /\ c + 1 + j - 1 \in 1 .. Len(Y) /\ (c + 1 + j - 1) + k = e + 1 + j - 1
              BY <2>3, <4>1, <4>3, <4>8, <6>0, <6>6
            <7> QED BY <2>3, <6>4, <6>5, <7>1
          <6>8. y = z
            BY <6>4, <6>5, <6>6, <6>7, SeqEqual
          <6> QED BY <6>8 DEF y, z
        <5> QED BY <3>2, <4>4, <4>5, <4>6, <4>8, <5>2, <5>3
      <4> QED BY <4>7, <4>8
    <3> QED BY <3>6, <3>7
  <2>7. IsReading(Y, g)
    BY <2>5, <2>6 DEF IsReading
  <2>8. Frames(Y) = f[k + 1]
    <3>1. PICK h : IsReading(Y, h) /\ Frames(Y) = h[1]
      BY <2>3, FramesReads
    <3>2. 1 \in 1 .. Len(Y) + 1
      BY <1>2, <2>3
    <3>3. h[1] = g[1]
      BY <2>3, <2>7, <3>1, <3>2, ReadingIsUnique
    <3>4. g[1] = f[1 + k]
      BY <2>5, <3>2
    <3>5. 1 + k = k + 1
      BY <2>3
    <3> QED BY <3>1, <3>3, <3>4, <3>5
  <2>9. Reads(Z, f, 1) = <<FirstFrame(Z)>> \o f[k + 1]
    <3>1. 1 + 1 = 2
      OBVIOUS
    <3>2. ~(EndOfFirst(Z) > Len(Z))
      BY <1>2, <1>6, <2>1, <2>3
    <3> QED BY <1>6, <2>1, <3>1, <3>2, Zenon DEF Reads, FirstFrame, EndOfFirst, Complete
  <2> QED BY <1>4, <1>6, <2>2, <2>8, <2>9
<1> QED BY <1>5, <1>6

LEMMA FramesOfNothing == Frames(<<>>) = <<>>
<1>1. PICK Z \in Seq(Byte) : Z = <<>>
  BY EmptySeq
<1>2. ~Complete(Z)
  <2>1. Len(Z) = 0
    BY <1>1
  <2>2. ASSUME Complete(Z) PROVE FALSE
    <3>1. EndOfFirst(Z) \in 2 .. 0
      BY <2>1, <2>2, CompleteType
    <3> QED BY <3>1
  <2> QED BY <2>2
<1> QED BY <1>1, <1>2, FramesStep

LEMMA FramesType == \A Z \in Seq(Byte) : Frames(Z) \in Seq(Packet)
<1> DEFINE T == {n \in Nat : \A Z \in Seq(Byte) : Len(Z) <= n => Frames(Z) \in Seq(Packet)}
<1>1. ASSUME NEW n \in Nat, NEW Z \in Seq(Byte), Len(Z) <= n,
             \A Y \in Seq(Byte) : Len(Y) < n => Frames(Y) \in Seq(Packet)
      PROVE  Frames(Z) \in Seq(Packet)
  <2>1. CASE ~Complete(Z)
    <3>1. Frames(Z) = <<>>
      BY <2>1, FramesStep
    <3> QED BY <3>1, EmptySeq
  <2>2. CASE Complete(Z)
    <3>1. PICK Y \in Seq(Byte) : Y = Behind(Z) /\ Len(Y) < n
      <4>1. /\ Behind(Z) \in Seq(Byte) /\ Len(Behind(Z)) = Len(Z) - EndOfFirst(Z)
            /\ EndOfFirst(Z) \in 2 .. Len(Z)
        BY <2>2, CompleteType
      <4>2. Len(Z) \in Nat
        BY LenProperties
      <4> QED BY <1>1, <4>1, <4>2
    <3>2. PICK p \in Packet : p = FirstFrame(Z)
      BY <2>2, CompleteType
    <3>3. Frames(Z) = <<p>> \o Frames(Y)
      BY <2>2, <3>1, <3>2, FramesStep
    <3>4. <<p>> \in Seq(Packet) /\ Frames(Y) \in Seq(Packet)
      BY <1>1, <3>1, <3>2
    <3> QED BY <3>3, <3>4, ConcatProperties
  <2> QED BY <2>1, <2>2
<1>2. 0 \in T
  <2>1. ASSUME NEW Z \in Seq(Byte), Len(Z) <= 0 PROVE Frames(Z) \in Seq(Packet)
    <3>1. \A Y \in Seq(Byte) : ~(Len(Y) < 0)
      BY LenProperties
    <3> QED BY <1>1, <2>1, <3>1
  <2> QED BY <2>1
<1>3. ASSUME NEW n \in Nat, n \in T PROVE n + 1 \in T
  <2>1. \A Y \in Seq(Byte) : Len(Y) < n + 1 => Frames(Y) \in Seq(Packet)
    <3> TAKE Y \in Seq(Byte)
    <3>1. Len(Y) \in Nat
      BY LenProperties
    <3> QED BY <1>3, <3>1
  <2>2. ASSUME NEW Z \in Seq(Byte), Len(Z) <= n + 1 PROVE Frames(Z) \in Seq(Packet)
    <3>1. n + 1 \in Nat
      OBVIOUS
    <3> HIDE DEF T
    <3> QED BY <1>1, <2>1, <2>2, <3>1
  <2> QED BY <2>2
<1>4. \A n \in Nat : n \in T
  <2> HIDE DEF T
  <2> QED BY <1>2, <1>3, SetInduction
<1> QED
  <2> SUFFICES ASSUME NEW Z \in Seq(Byte) PROVE Frames(Z) \in Seq(Packet)
    OBVIOUS
  <2>1. Len(Z) \in Nat /\ Len(Z) <= Len(Z)
    BY LenProperties
  <2> QED BY <1>4, <2>1

\* What follows a packet that is all there changes nothing about it.
LEMMA FirstStays ==
  ASSUME NEW X \in Seq(Byte), NEW Y \in Seq(Byte), Complete(X)
  PROVE  /\ Complete(X \o Y) /\ FirstFrame(X \o Y) = FirstFrame(X)
         /\ Behind(X \o Y) = Behind(X) \o Y
<1>1. PICK Z : Z = X \o Y
  OBVIOUS
<1>2. /\ Z \in Seq(Byte) /\ Len(Z) = Len(X) + Len(Y) /\ Len(X) \in Nat /\ Len(Y) \in Nat
      /\ \A i \in 1 .. Len(X) + Len(Y) : Z[i] = IF i <= Len(X) THEN X[i] ELSE Y[i - Len(X)]
  BY <1>1, ConcatProperties, LenProperties
<1>3. PICK e : e = EndOfLength(X, 2)
  OBVIOUS
<1>4. PICK last : last = EndOfFirst(X)
  OBVIOUS
<1>5. e \in 2 .. 5 /\ e <= last /\ last \in 2 .. Len(X)
  BY <1>3, <1>4, CompleteType
<1>6. EndOfLength(Z, 2) = e /\ EndOfFirst(Z) = last
  <2>1. Len(X) <= Len(Z) + 0 /\ \A j \in 1 .. Len(X) : j > 0 => X[j] = Z[j - 0]
    BY <1>2
  <2>2. EndOfLength(X, 2 + 0) # 0
    BY DEF Complete
  <2>3. /\ EndOfLength(X, 2 + 0) = EndOfLength(Z, 2) + 0
        /\ EndOfLength(Z, 2) # 0
        /\ Number(X, 2 + 0, EndOfLength(X, 2 + 0)) = Number(Z, 2, EndOfLength(Z, 2))
    BY <1>2, <2>1, <2>2, LengthMoves
  <2>4. EndOfLength(Z, 2) \in Int
    BY <1>2, <2>3, EndIs
  <2> QED BY <1>3, <1>4, <2>3, <2>4 DEF EndOfFirst
<1>7. Complete(Z)
  BY <1>2, <1>5, <1>6 DEF Complete
<1>8. Z[1] = X[1]
  BY <1>2, <1>5
<1>9. SubSeq(Z, e + 1, last) = SubSeq(X, e + 1, last)
  <2> DEFINE x == SubSeq(X, e + 1, last)
             z == SubSeq(Z, e + 1, last)
  <2>1. e + 1 \in Int /\ last \in Int
    BY <1>5
  <2>2. \A j \in e + 1 .. last : X[j] \in Byte /\ Z[j] = X[j]
    BY <1>2, <1>5, ElementOfSeq
  <2>3. /\ x \in Seq(Byte) /\ Len(x) = IF e + 1 <= last THEN last - (e + 1) + 1 ELSE 0
        /\ \A j \in 1 .. last - (e + 1) + 1 : x[j] = X[e + 1 + j - 1]
    BY <2>1, <2>2, SubSeqProperties
  <2>4. /\ z \in Seq(Byte) /\ Len(z) = IF e + 1 <= last THEN last - (e + 1) + 1 ELSE 0
        /\ \A j \in 1 .. last - (e + 1) + 1 : z[j] = Z[e + 1 + j - 1]
    BY <2>1, <2>2, SubSeqProperties
  <2> HIDE DEF x, z
  <2>5. \A j \in 1 .. Len(x) : x[j] = z[j]
    <3> TAKE j \in 1 .. Len(x)
    <3>1. j \in 1 .. last - (e + 1) + 1 /\ e + 1 + j - 1 \in e + 1 .. last
      BY SMTT(30), <1>5, <2>3
    <3> QED BY <2>2, <2>3, <2>4, <3>1
  <2>6. x = z
    BY <2>3, <2>4, <2>5, SeqEqual
  <2> QED BY <2>6 DEF x, z
<1>10. FirstFrame(Z) = FirstFrame(X)
  BY <1>3, <1>4, <1>6, <1>8, <1>9 DEF FirstFrame
<1>11. Behind(Z) = Behind(X) \o Y
  <2>1. /\ Behind(X) \in Seq(Byte) /\ Len(Behind(X)) = Len(X) - last
        /\ \A i \in 1 .. Len(Behind(X)) : Behind(X)[i] = X[i + last]
    BY <1>4, CompleteType
  <2>2. /\ Behind(Z) \in Seq(Byte) /\ Len(Behind(Z)) = Len(Z) - last
        /\ \A i \in 1 .. Len(Behind(Z)) : Behind(Z)[i] = Z[i + last]
    BY <1>2, <1>6, <1>7, CompleteType
  <2>3. PICK b : b = Behind(X)
    OBVIOUS
  <2>4. /\ b \o Y \in Seq(Byte) /\ Len(b \o Y) = Len(b) + Len(Y)
        /\ \A i \in 1 .. Len(b) + Len(Y) : (b \o Y)[i] = IF i <= Len(b) THEN b[i] ELSE Y[i - Len(b)]
    BY <1>2, <2>1, <2>3, ConcatProperties
  <2>5. Len(b \o Y) = Len(Behind(Z))
    BY <1>2, <1>5, <2>1, <2>2, <2>3, <2>4
  <2>6. ASSUME NEW i \in 1 .. Len(b \o Y) PROVE (b \o Y)[i] = Behind(Z)[i]
    <3>1. Behind(Z)[i] = Z[i + last] /\ i + last \in 1 .. Len(X) + Len(Y)
      BY <1>2, <1>5, <2>2, <2>5, <2>6
    <3>2. CASE i <= Len(b)
      <4>1. i \in 1 .. Len(Behind(X)) /\ i + last <= Len(X) /\ i \in 1 .. Len(b) + Len(Y)
        BY <1>2, <1>5, <2>1, <2>3, <2>6, <3>2
      <4> QED BY <1>2, <2>1, <2>3, <2>4, <3>1, <3>2, <4>1
    <3>3. CASE ~(i <= Len(b))
      <4>1. /\ i \in 1 .. Len(b) + Len(Y) /\ ~(i + last <= Len(X))
            /\ (i + last) - Len(X) = i - Len(b)
        <5>1. Len(b) = Len(X) - last /\ last \in Nat
          BY <1>5, <2>1, <2>3
        <5>2. i \in 1 .. Len(b) + Len(Y)
          BY <2>4, <2>6
        <5> QED BY <1>2, <3>3, <5>1, <5>2
      <4> QED BY <1>2, <2>4, <3>1, <3>3, <4>1
    <3> QED BY <3>2, <3>3
  <2>7. b \o Y = Behind(Z)
    BY <2>2, <2>4, <2>5, <2>6, SeqEqual
  <2> QED BY <2>3, <2>7
<1> QED BY <1>1, <1>7, <1>10, <1>11

LEMMA FramesOfBoth ==
  ASSUME NEW X \in Seq(Byte), NEW Y \in Seq(Byte), Complete(X)
  PROVE  Frames(X \o Y) = <<FirstFrame(X)>> \o Frames(Behind(X) \o Y)
<1>1. PICK Z : Z = X \o Y
  OBVIOUS
<1>2. Z \in Seq(Byte)
  BY <1>1, ConcatProperties
<1>3. Complete(Z) /\ FirstFrame(Z) = FirstFrame(X) /\ Behind(Z) = Behind(X) \o Y
  BY <1>1, FirstStays
<1>4. Frames(Z) = <<FirstFrame(Z)>> \o Frames(Behind(Z))
  BY <1>2, <1>3, FramesStep
<1> QED BY <1>1, <1>3, <1>4

-----------------------------------------------------------------------------
(* Streams of whole packets *)

LEMMA PacketsAssociate == \A x, y, z \in Seq(Packet) : (x \o y) \o z = x \o (y \o z)
BY ConcatAssociative

\* What follows the bytes of S is read as if they were not there.
Whole(S) ==
  S \in Seq(Byte) /\ \A rest \in Seq(Byte) : Frames(S \o rest) = Frames(S) \o Frames(rest)

LEMMA NothingIsWhole == Whole(<<>>)
<1>1. <<>> \in Seq(Byte)
  OBVIOUS
<1>2. ASSUME NEW rest \in Seq(Byte) PROVE Frames(<<>> \o rest) = Frames(<<>>) \o Frames(rest)
  <2>1. <<>> \o rest = rest
    BY ConcatEmptySeq
  <2>2. <<>> \o Frames(rest) = Frames(rest)
    BY FramesType, ConcatEmptySeq
  <2> QED BY <2>1, <2>2, FramesOfNothing
<1> QED BY <1>1, <1>2 DEF Whole

LEMMA WholeOn ==
  ASSUME NEW S, NEW Y, Whole(S), Whole(Y)
  PROVE  Whole(S \o Y) /\ Frames(S \o Y) = Frames(S) \o Frames(Y)
<1>1. S \in Seq(Byte) /\ Y \in Seq(Byte) /\ S \o Y \in Seq(Byte)
  BY ConcatProperties DEF Whole
<1>2. Frames(S \o Y) = Frames(S) \o Frames(Y)
  BY <1>1 DEF Whole
<1>3. ASSUME NEW rest \in Seq(Byte)
      PROVE  Frames((S \o Y) \o rest) = Frames(S \o Y) \o Frames(rest)
  <2>1. (S \o Y) \o rest = S \o (Y \o rest) /\ Y \o rest \in Seq(Byte)
    BY <1>1, ConcatAssociative, ConcatProperties
  <2>2. Frames(S \o (Y \o rest)) = Frames(S) \o Frames(Y \o rest)
    BY <2>1 DEF Whole
  <2>3. Frames(Y \o rest) = Frames(Y) \o Frames(rest)
    BY DEF Whole
  <2>4. Frames(S) \o (Frames(Y) \o Frames(rest)) = (Frames(S) \o Frames(Y)) \o Frames(rest)
    <3>1. PICK a \in Seq(Packet), b \in Seq(Packet), c \in Seq(Packet) :
            a = Frames(S) /\ b = Frames(Y) /\ c = Frames(rest)
      BY <1>1, FramesType
    <3>2. (a \o b) \o c = a \o (b \o c)
      BY PacketsAssociate
    <3> QED BY <3>1, <3>2
  <2> QED BY <1>2, <2>1, <2>2, <2>3, <2>4
<1> QED BY <1>1, <1>2, <1>3 DEF Whole

LEMMA WholeBehind == ASSUME NEW S, Whole(S), Complete(S) PROVE Whole(Behind(S))
<1>1. S \in Seq(Byte)
  BY DEF Whole
<1>2. PICK Y \in Seq(Byte) : Y = Behind(S)
  BY <1>1, CompleteType
<1>3. PICK p \in Packet : p = FirstFrame(S)
  BY <1>1, CompleteType
<1>4. Frames(S) = <<p>> \o Frames(Y)
  BY <1>1, <1>2, <1>3, FramesStep
<1>5. ASSUME NEW rest \in Seq(Byte) PROVE Frames(Y \o rest) = Frames(Y) \o Frames(rest)
  <2>1. S \o rest \in Seq(Byte) /\ Y \o rest \in Seq(Byte)
    BY <1>1, ConcatProperties
  <2>2. Frames(S \o rest) = <<p>> \o Frames(Y \o rest)
    BY <1>1, <1>2, <1>3, FramesOfBoth
  <2>3. Frames(S \o rest) = (<<p>> \o Frames(Y)) \o Frames(rest)
    BY <1>4 DEF Whole
  <2>4. PICK q \in Seq(Packet) : q = <<p>>
    <3>1. <<p>> \in Seq(Packet)
      BY <1>3
    <3> QED BY <3>1
  <2>5. PICK a \in Seq(Packet), b \in Seq(Packet), c \in Seq(Packet) :
          a = Frames(Y \o rest) /\ b = Frames(Y) /\ c = Frames(rest)
    BY <2>1, FramesType
  <2>6. q \o a = q \o (b \o c) /\ b \o c \in Seq(Packet)
    <3>1. q \o a = (q \o b) \o c
      BY <2>2, <2>3, <2>4, <2>5
    <3>2. (q \o b) \o c = q \o (b \o c)
      BY PacketsAssociate
    <3> QED BY <3>1, <3>2, ConcatProperties
  <2>7. a = b \o c
    BY <2>6, ConcatSimplifications
  <2> QED BY <2>5, <2>7
<1> QED BY <1>2, <1>5 DEF Whole

\* A stream that is one packet and nothing else.
LEMMA OneIsWhole ==
  ASSUME NEW S \in Seq(Byte), Complete(S), Behind(S) = <<>>
  PROVE  Whole(S) /\ Frames(S) = <<FirstFrame(S)>>
<1>1. PICK p \in Packet : p = FirstFrame(S)
  BY CompleteType
<1>2. <<p>> \in Seq(Packet) /\ <<p>> \o <<>> = <<p>>
  BY ConcatEmptySeq
<1>3. Frames(S) = <<p>>
  BY <1>1, <1>2, FramesStep, FramesOfNothing
<1>4. ASSUME NEW rest \in Seq(Byte) PROVE Frames(S \o rest) = Frames(S) \o Frames(rest)
  <2>1. Behind(S) \o rest = rest
    BY ConcatEmptySeq
  <2> QED BY <1>1, <1>3, <2>1, FramesOfBoth
<1> QED BY <1>1, <1>3, <1>4 DEF Whole

-----------------------------------------------------------------------------
(* What parse_mqtt finds *)

\* The loop of parse_mqtt reads up to the first byte that is not marked.
LEMMA LengthBytesIs ==
  ASSUME NEW io \in Seq(Byte), Len(io) >= 2
  PROVE  /\ LengthBytes(io) \in 1 .. 5 /\ LengthBytes(io) <= Len(io) - 1
         /\ \A j \in 1 .. LengthBytes(io) - 1 : ~(io[j + 1] < Base)
<1> DEFINE S == {k \in 1 .. Len(io) - 1 : io[k + 1] < Base} \cup {5, Len(io) - 1}
           m == CHOOSE x \in S : \A y \in S : x <= y
<1>1. LengthBytes(io) = m
  BY DEF LengthBytes, Min
<1>2. PICK n : n = Len(io) - 1
  OBVIOUS
<1>3. n \in Nat /\ n >= 1
  BY <1>2, LenProperties
<1>4. 5 \in S /\ n \in S /\ \A k \in S : k \in Nat \ {0}
  BY <1>2, <1>3
<1>5. \A k \in 1 .. n : io[k + 1] < Base => k \in S
  BY <1>2
<1> HIDE DEF S
<1>6. \E x \in S : \A y \in S : x <= y
  <2>1. CASE 1 \in S
    BY <1>4, <2>1
  <2>2. CASE 1 \notin S /\ 2 \in S
    BY <1>4, <2>2
  <2>3. CASE 1 \notin S /\ 2 \notin S /\ 3 \in S
    BY <1>4, <2>3
  <2>4. CASE 1 \notin S /\ 2 \notin S /\ 3 \notin S /\ 4 \in S
    BY SMTT(30), <1>4, <2>4
  <2>5. CASE 1 \notin S /\ 2 \notin S /\ 3 \notin S /\ 4 \notin S
    <3>1. \A y \in S : 5 <= y
      BY <1>4, <2>5
    <3> QED BY <1>4, <3>1
  <2> QED BY <2>1, <2>2, <2>3, <2>4, <2>5
<1>7. m \in S /\ \A y \in S : m <= y
  BY <1>6
<1> HIDE DEF m
<1>8. m \in 1 .. 5 /\ m <= n
  BY <1>3, <1>4, <1>7
<1>9. \A j \in 1 .. m - 1 : ~(io[j + 1] < Base)
  <2> SUFFICES ASSUME NEW j \in 1 .. m - 1, io[j + 1] < Base PROVE FALSE
    OBVIOUS
  <2>1. j \in 1 .. n /\ j < m
    BY <1>3, <1>8
  <2>2. j \in S
    BY <1>5, <2>1
  <2> QED BY <1>7, <1>8, <2>1, <2>2
<1> QED BY <1>1, <1>2, <1>8, <1>9

\* What it says of the bytes of a packet lies inside the buffer.
LEMMA ParseType ==
  ASSUME NEW io \in Seq(Byte), ParseMqtt(io) > 0
  PROVE  /\ ParseMqtt(io) \in 2 .. Len(io) /\ Len(io) >= 2
         /\ io[LengthBytes(io) + 1] < Base
         /\ RemainingLength(io) \in Nat
         /\ ParseMqtt(io) = 1 + LengthBytes(io) + RemainingLength(io)
<1>1. Len(io) \in Nat
  BY LenProperties
<1>2. PICK k : k = LengthBytes(io)
  OBVIOUS
<1>3. Len(io) >= 2
  BY <1>1 DEF ParseMqtt
<1>4. k \in 1 .. 5 /\ k <= Len(io) - 1
  BY <1>2, <1>3, LengthBytesIs
<1>5. \A j \in 1 .. 5 : Digit(io, j) \in Nat
  <2> TAKE j \in 1 .. 5
  <2>1. Place[j] \in Nat
    <3>1. Base * Base \in Nat
      BY BaseIsNat, TimesBase
    <3>2. Base * Base * Base \in Nat
      BY <3>1, BaseIsNat, SMT
    <3>3. Base * Base * Base * Base \in Nat
      BY <3>2, BaseIsNat, SMT
    <3> QED BY <3>1, <3>2, <3>3, BaseIsNat DEF Place
  <2>2. ASSUME j <= k PROVE io[j + 1] % Base \in Nat
    <3>1. io[j + 1] \in Byte
      BY <1>1, <1>4, <2>2, ElementOfSeq
    <3> QED BY <3>1, BytesAre, Zenon
  <2>3. \A x, y \in Nat : x * y \in Nat
    BY SMT
  <2> QED BY <1>2, <2>1, <2>2, <2>3, Zenon DEF Digit
<1>6. RemainingLength(io) \in Nat
  BY <1>5 DEF RemainingLength
<1>7. /\ ~(io[k + 1] >= Base) /\ ~(RemainingLength(io) > Len(io) - 1 - k)
      /\ ParseMqtt(io) = 1 + k + RemainingLength(io)
  BY <1>2, <1>3 DEF ParseMqtt
<1>8. io[k + 1] < Base
  <2>1. io[k + 1] \in Byte
    BY <1>1, <1>4, ElementOfSeq
  <2> QED BY <1>7, <2>1, BytesAre, Zenon
<1> QED BY <1>1, <1>2, <1>3, <1>4, <1>6, <1>7, <1>8

LEMMA MessageType ==
  ASSUME NEW io \in Seq(Byte), ParseMqtt(io) > 0
  PROVE  Message(io) \in Packet
<1>1. PICK k : k = LengthBytes(io)
  OBVIOUS
<1>2. PICK n : n = ParseMqtt(io)
  OBVIOUS
<1>3. Len(io) \in Nat /\ n \in 2 .. Len(io) /\ k \in 1 .. 5
  BY <1>1, <1>2, LenProperties, ParseType, LengthBytesIs
<1>4. SubSeq(io, k + 2, n) \in Seq(Byte)
  <2>1. \A i \in k + 2 .. n : io[i] \in Byte
    BY <1>3, ElementOfSeq
  <2>2. k + 2 \in Int /\ n \in Int
    BY <1>3
  <2> QED BY <2>1, <2>2, SubSeqProperties
<1>5. io[1] \div 16 \in 0 .. 15
  <2>1. io[1] \in Byte
    BY <1>3, ElementOfSeq
  <2>2. \A b \in 0 .. 255 : b \div 16 \in 0 .. 15
    OBVIOUS
  <2> QED BY <2>1, <2>2, Zenon DEF Byte
<1> QED BY <1>1, <1>2, <1>4, <1>5 DEF Message, Cmd, Packet

\* parse_mqtt finds what the standard finds, where the length has four digits at most.
LEMMA ParseIsFirst ==
  ASSUME NEW io \in Seq(Byte), ParseMqtt(io) > 0, LengthBytes(io) <= 4
  PROVE  /\ Complete(io) /\ FirstFrame(io) = Message(io) /\ EndOfFirst(io) = ParseMqtt(io)
         /\ Behind(io) = MbufRemove(io, ParseMqtt(io))
<1>1. PICK k : k = LengthBytes(io)
  OBVIOUS
<1>2. /\ Len(io) \in Nat /\ Len(io) >= 2 /\ io[k + 1] < Base
      /\ k \in 1 .. 4 /\ k <= Len(io) - 1
      /\ \A j \in 1 .. k - 1 : ~(io[j + 1] < Base)
  BY <1>1, LenProperties, ParseType, LengthBytesIs
<1>3. EndOfLength(io, 2) = k + 1
  <2>1. PICK c : c = EndOfLength(io, 2)
    OBVIOUS
  <2>2. c # 0
    <3>1. k + 1 \in 2 .. 2 + 3 /\ k + 1 <= Len(io)
      BY <1>2
    <3> QED BY <1>2, <2>1, <3>1, EndIs
  <2>3. c \in 2 .. 2 + 3 /\ io[c] < Base /\ \A j \in 2 .. c - 1 : ~(io[j] < Base)
    BY <2>1, <2>2, EndIs
  <2>4. ~(k + 1 < c)
    BY <1>2, <2>3
  <2>5. ~(c < k + 1)
    <3> SUFFICES ASSUME c < k + 1 PROVE FALSE
      OBVIOUS
    <3>1. c - 1 \in 1 .. k - 1 /\ (c - 1) + 1 = c
      BY <1>2, <2>3
    <3> QED BY <1>2, <2>3, <3>1
  <2> QED BY <1>2, <2>1, <2>3, <2>4, <2>5
<1>4. Number(io, 2, k + 1) = RemainingLength(io)
  <2>1. PICK B \in Nat \ {0} :
          /\ B = Base /\ Place[1] = 1 /\ Place[2] = B /\ Place[3] = B * B /\ Place[4] = B * B * B
          /\ B * B \in Nat /\ B * B * B \in Nat
    BY PlacesAre
  <2>2. \A j \in 1 .. 5 : Digit(io, j) = IF j <= k THEN (io[j + 1] % B) * Place[j] ELSE 0
    BY <1>1, <2>1 DEF Digit
  <2>3. \A j \in 1 .. k : io[j + 1] % B \in Nat
    <3> TAKE j \in 1 .. k
    <3>1. io[j + 1] \in Byte
      BY <1>2, ElementOfSeq
    <3>2. \A b \in 0 .. 255 : b % B \in Nat
      BY <2>1, Division
    <3> QED BY <3>1, <3>2, Zenon DEF Byte
  <2>4. Number(io, 2, k + 1) =
          IF k + 1 = 2 THEN io[2] % B
          ELSE IF k + 1 = 2 + 1 THEN (io[2] % B) + B * (io[2 + 1] % B)
          ELSE IF k + 1 = 2 + 2 THEN (io[2] % B) + B * ((io[2 + 1] % B) + B * (io[2 + 2] % B))
          ELSE (io[2] % B) + B * ((io[2 + 1] % B) + B * ((io[2 + 2] % B) + B * (io[2 + 3] % B)))
    <3>1. k + 1 \in 2 .. 2 + 3 /\ k + 1 <= Len(io)
      BY <1>2
    <3> QED BY <2>1, <3>1, NumberIs
  <2>5. CASE k = 1
    <3>1. PICK a \in Nat : a = io[2] % B
      BY <2>3, <2>5
    <3>2. Number(io, 2, k + 1) = a
      BY <2>4, <2>5, <3>1
    <3>3. /\ Digit(io, 1) = a * 1 /\ Digit(io, 2) = 0 /\ Digit(io, 3) = 0 /\ Digit(io, 4) = 0
          /\ Digit(io, 5) = 0
      BY <2>1, <2>2, <2>5, <3>1
    <3> QED BY <3>2, <3>3 DEF RemainingLength
  <2>6. CASE k = 2
    <3>1. PICK a \in Nat, b \in Nat : a = io[2] % B /\ b = io[3] % B
      BY <2>3, <2>6
    <3>2. Number(io, 2, k + 1) = a + B * b
      BY <2>4, <2>6, <3>1
    <3>3. /\ Digit(io, 1) = a * 1 /\ Digit(io, 2) = b * B /\ Digit(io, 3) = 0 /\ Digit(io, 4) = 0
          /\ Digit(io, 5) = 0
      BY <2>1, <2>2, <2>6, <3>1
    <3> QED BY <3>2, <3>3 DEF RemainingLength
  <2>7. CASE k = 3
    <3>1. PICK a \in Nat, b \in Nat, c \in Nat :
            a = io[2] % B /\ b = io[3] % B /\ c = io[4] % B
      BY <2>3, <2>7
    <3>2. Number(io, 2, k + 1) = a + B * (b + B * c)
      BY <2>4, <2>7, <3>1
    <3>3. /\ Digit(io, 1) = a * 1 /\ Digit(io, 2) = b * B /\ Digit(io, 3) = c * (B * B)
          /\ Digit(io, 4) = 0 /\ Digit(io, 5) = 0
      BY <2>1, <2>2, <2>7, <3>1
    <3> QED BY <3>2, <3>3 DEF RemainingLength
  <2>8. CASE k = 4
    <3>1. PICK a \in Nat, b \in Nat, c \in Nat, d \in Nat :
            a = io[2] % B /\ b = io[3] % B /\ c = io[4] % B /\ d = io[5] % B
      <4>1. \A j \in 1 .. 4 : io[j + 1] % B \in Nat
        BY <2>3, <2>8
      <4>2. /\ io[1 + 1] % B \in Nat /\ io[2 + 1] % B \in Nat /\ io[3 + 1] % B \in Nat
            /\ io[4 + 1] % B \in Nat
        BY <4>1, Zenon, SMT
      <4> QED BY <4>2
    <3>2. Number(io, 2, k + 1) = a + B * (b + B * (c + B * d))
      BY <2>4, <2>8, <3>1
    <3>3. /\ Digit(io, 1) = a * 1 /\ Digit(io, 2) = b * B /\ Digit(io, 3) = c * (B * B)
          /\ Digit(io, 4) = d * (B * B * B) /\ Digit(io, 5) = 0
      <4>1. Digit(io, 1) = (io[1 + 1] % B) * Place[1] /\ Digit(io, 2) = (io[2 + 1] % B) * Place[2]
        BY <2>2, <2>8
      <4>2. Digit(io, 3) = (io[3 + 1] % B) * Place[3] /\ Digit(io, 4) = (io[4 + 1] % B) * Place[4]
        BY <2>2, <2>8
      <4>3. Digit(io, 5) = 0
        BY <2>2, <2>8
      <4> QED BY <2>1, <3>1, <4>1, <4>2, <4>3
    <3> QED BY <3>2, <3>3 DEF RemainingLength
  <2> QED BY <1>2, <2>5, <2>6, <2>7, <2>8
<1>5. /\ ParseMqtt(io) = 1 + k + RemainingLength(io) /\ RemainingLength(io) \in Nat
      /\ ParseMqtt(io) \in 2 .. Len(io)
  BY <1>1, ParseType
<1>6. EndOfFirst(io) = ParseMqtt(io)
  BY <1>2, <1>3, <1>4, <1>5 DEF EndOfFirst
<1>7. Complete(io)
  BY <1>2, <1>3, <1>5, <1>6 DEF Complete
<1>8. FirstFrame(io) = Message(io)
  <2>1. (k + 1) + 1 = k + 2
    BY <1>2
  <2> QED BY <1>1, <1>3, <1>6, <2>1 DEF FirstFrame, Message, Cmd
<1>9. Behind(io) = MbufRemove(io, ParseMqtt(io))
  BY <1>5, <1>6 DEF Behind, MbufRemove
<1> QED BY <1>6, <1>7, <1>8, <1>9

-----------------------------------------------------------------------------
(* The buffers *)

LEMMA CutConcat ==
  ASSUME NEW X \in Seq(Byte), NEW Y \in Seq(Byte)
  PROVE  /\ SubSeq(X \o Y, 1, Len(X)) = X
         /\ SubSeq(X \o Y, Len(X) + 1, Len(X) + Len(Y)) = Y
<1>1. Len(X) \in Nat /\ Len(Y) \in Nat
  BY LenProperties
<1>2. SubSeq(X \o Y, 1, Len(X)) = X
  <2>1. CASE Len(X) = 0
    <3>1. X = <<>>
      BY <2>1, EmptySeq
    <3>2. SubSeq(X \o Y, 1, 0) = <<>>
      BY SubSeqEmpty
    <3> QED BY <2>1, <3>1, <3>2
  <2>2. CASE Len(X) # 0
    <3>1. 1 \in 1 .. Len(X) /\ Len(X) \in 1 .. Len(X)
      BY <1>1, <2>2
    <3>2. SubSeq(X \o Y, 1, Len(X)) = SubSeq(X, 1, Len(X))
      BY <3>1, SubSeqOfConcat1
    <3> QED BY <3>2, SubSeqFull
  <2> QED BY <2>1, <2>2
<1>3. SubSeq(X \o Y, Len(X) + 1, Len(X) + Len(Y)) = Y
  <2>1. CASE Len(Y) = 0
    <3>1. Y = <<>>
      BY <2>1, EmptySeq
    <3>2. Len(X) + 1 \in Int /\ Len(X) + Len(Y) \in Int /\ Len(X) + Len(Y) < Len(X) + 1
      BY <1>1, <2>1
    <3> QED BY <3>1, <3>2, SubSeqEmpty
  <2>2. CASE Len(Y) # 0
    <3>1. /\ Len(X) + 1 \in Len(X) + 1 .. Len(X) + Len(Y)
          /\ Len(X) + Len(Y) \in Len(X) + 1 .. Len(X) + Len(Y)
          /\ (Len(X) + 1) - Len(X) = 1 /\ (Len(X) + Len(Y)) - Len(X) = Len(Y)
      BY <1>1, <2>2
    <3>2. SubSeq(X \o Y, Len(X) + 1, Len(X) + Len(Y)) = SubSeq(Y, 1, Len(Y))
      BY <3>1, SubSeqOfConcat2
    <3> QED BY <3>2, SubSeqFull
  <2> QED BY <2>1, <2>2
<1> QED BY <1>2, <1>3

\* A buffer is what is taken from it, and what stays.
LEMMA TakeAndRemove ==
  ASSUME NEW buf \in Seq(Byte), NEW n \in 0 .. Len(buf)
  PROVE  /\ SubSeq(buf, 1, n) \in Seq(Byte) /\ MbufRemove(buf, n) \in Seq(Byte)
         /\ SubSeq(buf, 1, n) \o MbufRemove(buf, n) = buf
<1>1. Len(buf) \in Nat
  BY LenProperties
<1>2. \A i \in 1 .. Len(buf) : buf[i] \in Byte
  BY ElementOfSeq
<1>3. SubSeq(buf, 1, n) \in Seq(Byte)
  <2>1. \A i \in 1 .. n : buf[i] \in Byte
    BY <1>1, <1>2
  <2> QED BY <1>1, <2>1, SubSeqProperties
<1>4. SubSeq(buf, n + 1, Len(buf)) \in Seq(Byte)
  <2>1. \A i \in n + 1 .. Len(buf) : buf[i] \in Byte
    BY <1>1, <1>2
  <2>2. n + 1 \in Int /\ Len(buf) \in Int
    BY <1>1
  <2> QED BY <2>1, <2>2, SubSeqProperties
<1>5. SubSeq(buf, 1, n) \o SubSeq(buf, n + 1, Len(buf)) = SubSeq(buf, 1, Len(buf))
  <2>1. 1 \in 1 .. Len(buf) + 1 /\ n \in 1 - 1 .. Len(buf) /\ Len(buf) \in n .. Len(buf)
    BY <1>1
  <2> QED BY <2>1, ConcatAdjacentSubSeq
<1>6. MbufRemove(buf, n) = SubSeq(buf, n + 1, Len(buf))
  BY <1>1 DEF MbufRemove
<1> QED BY <1>3, <1>4, <1>5, <1>6, SubSeqFull

LEMMA Appended ==
  ASSUME NEW buf \in Seq(Byte), NEW bytes \in Seq(Byte)
  PROVE  MbufAppend(buf, bytes) = buf \o bytes /\ buf \o bytes \in Seq(Byte)
<1>1. Len(buf) + 1 \in Int /\ Len(buf) \in Int /\ Len(buf) < Len(buf) + 1
  BY LenProperties
<1>2. SubSeq(buf, 1, Len(buf)) = buf /\ SubSeq(buf, Len(buf) + 1, Len(buf)) = <<>>
  BY <1>1, SubSeqFull, SubSeqEmpty
<1>3. buf \o bytes \in Seq(Byte)
  BY ConcatProperties
<1>4. (buf \o bytes) \o <<>> = buf \o bytes
  BY <1>3, ConcatEmptySeq
<1> QED BY <1>2, <1>3, <1>4 DEF MbufAppend, MbufInsert

\* The bytes of a packet.
Bytes(cmd, body) == PrependHeader(body, cmd, Len(body))

\* Wherever the buffer ends when a command is queued, its bytes are added there.
LEMMA Queued ==
  ASSUME NEW buf \in Seq(Byte), NEW cmd \in 0 .. 15, NEW body \in Seq(Byte), Len(body) < TooLong
  PROVE  /\ PrependHeader(MbufAppend(buf, body), cmd, Len(body)) = buf \o Bytes(cmd, body)
         /\ Bytes(cmd, body) \in Seq(Byte)
<1>1. Len(body) \in Nat /\ Len(buf) \in Nat
  BY LenProperties
<1>2. PICK H : H = <<cmd * 16>> \o VarLength(Len(body))
  OBVIOUS
<1>3. H \in Seq(Byte)
  <2>1. cmd * 16 \in Byte
    BY DEF Byte
  <2>2. <<cmd * 16>> \in Seq(Byte)
    BY <2>1
  <2>3. VarLength(Len(body)) \in Seq(Byte)
    BY <1>1, VarLengthBytes
  <2> QED BY <1>2, <2>2, <2>3, ConcatProperties
<1>4. ASSUME NEW X \in Seq(Byte)
      PROVE  PrependHeader(X \o body, cmd, Len(body)) = (X \o H) \o body
  <2>1. Len(X) \in Nat /\ Len(X \o body) = Len(X) + Len(body)
    BY LenProperties, ConcatProperties
  <2>2. Len(X \o body) - Len(body) = Len(X) /\ Len(X \o body) - Len(body) + 1 = Len(X) + 1
    BY <1>1, <2>1
  <2>3. /\ SubSeq(X \o body, 1, Len(X)) = X
        /\ SubSeq(X \o body, Len(X) + 1, Len(X) + Len(body)) = body
    BY CutConcat
  <2> QED BY <1>2, <2>1, <2>2, <2>3 DEF PrependHeader, MbufInsert
<1>5. Bytes(cmd, body) = H \o body
  <2>1. PICK X \in Seq(Byte) : X = <<>>
    BY EmptySeq
  <2>2. X \o body = body /\ X \o H = H
    BY <1>3, <2>1, ConcatEmptySeq
  <2>3. PrependHeader(X \o body, cmd, Len(body)) = (X \o H) \o body
    BY <1>4
  <2> QED BY <2>2, <2>3 DEF Bytes
<1>6. PrependHeader(buf \o body, cmd, Len(body)) = buf \o (H \o body)
  <2>1. (buf \o H) \o body = buf \o (H \o body)
    BY <1>3, ConcatAssociative
  <2> QED BY <1>4, <2>1
<1>7. MbufAppend(buf, body) = buf \o body
  BY Appended
<1> QED BY <1>3, <1>5, <1>6, <1>7, ConcatProperties

LEMMA SomethingFits == 0 < TooLong
<1>1. PICK b \in Nat : b = Base /\ b > 0
  BY BaseIsNat
<1>2. \A x, y \in Nat : x > 0 /\ y > 0 => x * y \in Nat /\ x * y > 0
  BY SMT
<1>3. b * b \in Nat /\ b * b > 0
  BY <1>1, <1>2
<1>4. b * b * b \in Nat /\ b * b * b > 0
  BY <1>1, <1>2, <1>3
<1>5. b * b * b * b > 0
  BY <1>1, <1>2, <1>4
<1> QED BY <1>1, <1>5 DEF TooLong

\* What mg_mqtt_prepend_header makes of a body is one packet, and ends with it.
LEMMA BytesAreWhole ==
  ASSUME NEW cmd \in 0 .. 15, NEW body \in Seq(Byte), Len(body) < TooLong,
         cmd # CONNACK
  PROVE  /\ Whole(Bytes(cmd, body))
         /\ Frames(Bytes(cmd, body)) = <<[cmd |-> cmd, body |-> body]>>
<1>1. PICK io : io = Bytes(cmd, body)
  OBVIOUS
<1>2. /\ io \in Seq(Byte) /\ Len(io) = 1 + Digits(Len(body)) + Len(body)
      /\ \A k \in 1 .. Digits(Len(body)) : io[k + 1] = VarLength(Len(body))[k]
  BY <1>1, PacketShape DEF Bytes
<1>3. Len(body) \in Nat /\ Digits(Len(body)) \in 1 .. 4
  BY LenProperties, DigitsExist
<1>4. PICK rest \in Seq(Byte) : rest = <<>>
  BY EmptySeq
<1>5. io \o rest = io
  BY <1>2, <1>4, ConcatEmptySeq
<1>6. /\ ParseMqtt(io) = Len(io) /\ Message(io) = [cmd |-> cmd, body |-> body]
      /\ MbufRemove(io, ParseMqtt(io)) = rest
  <2>1. LET packet == PrependHeader(body, cmd, Len(body))
        IN  /\ ParseMqtt(packet \o rest) = Len(packet)
            /\ Message(packet \o rest) = [cmd |-> cmd, body |-> body]
            /\ MbufRemove(packet \o rest, ParseMqtt(packet \o rest)) = rest
    BY PacketRoundTrip
  <2> QED BY <1>1, <1>5, <2>1 DEF Bytes
<1>7. LengthBytes(io) <= 4 /\ ParseMqtt(io) > 0
  <2>1. LengthBytes(io) = Digits(Len(body))
    BY <1>2, <1>3, LoopStops
  <2> QED BY <1>2, <1>3, <1>6, <2>1
<1>8. Complete(io) /\ FirstFrame(io) = [cmd |-> cmd, body |-> body] /\ Behind(io) = <<>>
  BY <1>2, <1>4, <1>6, <1>7, ParseIsFirst
<1> QED BY <1>1, <1>2, <1>8, OneIsWhole

-----------------------------------------------------------------------------
(* Types *)

\* The commands of the daemon.
LEMMA QueueType ==
  ASSUME StreamTypeOK, NEW cmd \in 0 .. 15, NEW body \in Seq(Byte), Len(body) < TooLong,
         Queue(cmd, body)
  PROVE  /\ send_mbuf' = send_mbuf \o Bytes(cmd, body) /\ send_mbuf' \in Seq(Byte)
         /\ idle' = 0 /\ quiet' = 0 /\ stepped' = FALSE
<1>1. send_mbuf \in Seq(Byte)
  BY DEF StreamTypeOK
<1>2. /\ PrependHeader(MbufAppend(send_mbuf, body), cmd, Len(body)) = send_mbuf \o Bytes(cmd, body)
      /\ Bytes(cmd, body) \in Seq(Byte)
  BY <1>1, Queued
<1>3. send_mbuf \o Bytes(cmd, body) \in Seq(Byte)
  BY <1>1, <1>2, ConcatProperties
<1> QED BY <1>2, <1>3 DEF Queue

LEMMA BodiesFit ==
  /\ ConnectBody \in Seq(Byte) /\ Len(ConnectBody) < TooLong
  /\ \A b \in Bodies : b \in Seq(Byte) /\ Len(b) < TooLong
  /\ <<>> \in Seq(Byte) /\ Len(<<>>) < TooLong
  /\ {CONNECT_CMD, PUBLISH_CMD, PINGREQ_CMD, PINGRESP_CMD} \subseteq 0 .. 15 \ {CONNACK}
<1>1. Len(<<>>) = 0 /\ <<>> \in Seq(Byte)
  OBVIOUS
<1> QED BY <1>1, SomethingFits, MqttStreamAssumption
        DEF CONNECT_CMD, PUBLISH_CMD, PINGREQ_CMD, PINGRESP_CMD, CONNACK

\* What the broker reads is the packet at the front, and the rest stays.
LEMMA BrokerTakesFirst ==
  ASSUME StreamTypeOK, BrokerTakes
  PROVE  /\ Complete(to_broker) /\ heard' = FirstFrame(to_broker) /\ to_broker' = Behind(to_broker)
         /\ to_daemon' = to_daemon \o Answers(heard')
<1>1. to_broker \in Seq(Byte)
  BY DEF StreamTypeOK
<1>2. Complete(to_broker)
  <2>1. Frames(to_broker) # <<>>
    BY DEF BrokerTakes
  <2> QED BY <1>1, <2>1, FramesStep
<1>3. PICK p \in Packet : p = FirstFrame(to_broker)
  BY <1>1, <1>2, CompleteType
<1>4. PICK q \in Seq(Packet) : q = Frames(Behind(to_broker))
  BY <1>1, <1>2, CompleteType, FramesType
<1>5. Head(Frames(to_broker)) = p
  <2>1. Frames(to_broker) = <<p>> \o q
    BY <1>1, <1>2, <1>3, <1>4, FramesStep
  <2>2. Head(<<p>> \o q) = p
    OBVIOUS
  <2> QED BY <2>1, <2>2
<1>6. to_broker' = Behind(to_broker)
  BY DEF BrokerTakes, Behind, EndOfFirst
<1>7. heard' = Head(Frames(to_broker)) /\ to_daemon' = to_daemon \o Answers(heard')
  BY DEF BrokerTakes
<1> QED BY <1>2, <1>3, <1>5, <1>6, <1>7

LEMMA AnswersType == \A p : Answers(p) \in Seq(Byte)
<1> TAKE p
<1>1. <<CONNACK * 16, 2, 0, 0>> \in Seq(Byte) /\ <<PINGRESP_CMD * 16, 0>> \in Seq(Byte)
  <2>1. {CONNACK * 16, 2, 0, PINGRESP_CMD * 16} \subseteq Byte
    BY DEF CONNACK, PINGRESP_CMD, Byte
  <2> QED BY <2>1
<1>2. CASE p.cmd = CONNECT_CMD
  BY <1>1, <1>2 DEF Answers, CONNECT_CMD, PINGREQ_CMD
<1>3. CASE p.cmd = PINGREQ_CMD
  BY <1>1, <1>3 DEF Answers, CONNECT_CMD, PINGREQ_CMD
<1>4. CASE p.cmd # CONNECT_CMD /\ p.cmd # PINGREQ_CMD
  BY <1>4 DEF Answers
<1> QED BY <1>2, <1>3, <1>4

LEMMA TypeNext == StreamTypeOK /\ [NextStream]_streamvars => StreamTypeOK'
<1> SUFFICES ASSUME StreamTypeOK, [NextStream]_streamvars PROVE StreamTypeOK'
  OBVIOUS
<1>0. /\ MaxPublished \in Nat /\ MaxSteps \in Nat /\ Jump \in Nat /\ PassMax \in Nat
      /\ send_mbuf \in Seq(Byte) /\ to_broker \in Seq(Byte)
      /\ to_daemon \in Seq(Byte) /\ recv_mbuf \in Seq(Byte)
      /\ heard \in Packet \cup {Nothing} /\ event \in Packet \cup {Nothing}
      /\ published \in 0 .. MaxPublished /\ steps \in 0 .. MaxSteps
      /\ idle \in Int /\ quiet \in Nat /\ pass \in 0 .. PassMax
  BY MqttStreamAssumption DEF StreamTypeOK
<1>13. established \in BOOLEAN /\ in_recv \in BOOLEAN /\ stepped \in BOOLEAN
  BY Zenon DEF StreamTypeOK
<1>14. <<>> \in Seq(Byte) /\ 0 \in Int /\ 0 \in Nat /\ 0 \in 0 .. PassMax /\ TRUE \in BOOLEAN /\ FALSE \in BOOLEAN
  BY <1>0
<1>12. ASSUME send_mbuf' \in Seq(Byte), to_broker' \in Seq(Byte),
             to_daemon' \in Seq(Byte), recv_mbuf' \in Seq(Byte),
             established' \in BOOLEAN, in_recv' \in BOOLEAN, stepped' \in BOOLEAN,
             heard' \in Packet \cup {Nothing}, event' \in Packet \cup {Nothing},
             published' \in 0 .. MaxPublished, steps' \in 0 .. MaxSteps,
             idle' \in Int, quiet' \in Nat, pass' \in 0 .. PassMax
      PROVE  StreamTypeOK'
  BY <1>12 DEF StreamTypeOK
<1>1. CASE Handshake
  <2>1. /\ send_mbuf' \in Seq(Byte) /\ idle' = 0 /\ quiet' = 0 /\ stepped' = FALSE
    BY <1>1, QueueType, BodiesFit DEF Handshake
  <2> QED BY <1>0, <1>13, <1>14, <1>1, <1>12, <2>1, Zenon DEF Handshake, incoming
<1>2. CASE MqttPoll
  <2>1. CASE idle > KeepAlive
    <3>1. Queue(PINGREQ_CMD, <<>>)
      BY <1>2, <2>1 DEF MqttPoll
    <3>2. /\ send_mbuf' \in Seq(Byte) /\ idle' = 0 /\ quiet' = 0 /\ stepped' = FALSE
      BY <3>1, QueueType, BodiesFit
    <3> QED BY <1>0, <1>13, <1>14, <1>2, <1>12, <3>2 DEF MqttPoll, incoming
  <2>2. CASE ~(idle > KeepAlive)
    BY <1>0, <1>13, <1>14, <1>2, <1>12, <2>2 DEF MqttPoll, incoming, alive
  <2> QED BY <2>1, <2>2
<1>3. CASE MqttReceive
  <2>1. CASE Gone
    BY <1>0, <1>13, <1>14, <1>12, <2>1 DEF Gone, clock, alive
  <2>2. CASE /\ ParseMqtt(recv_mbuf) = -1
             /\ in_recv' = FALSE
             /\ UNCHANGED <<established, outgoing, to_daemon, recv_mbuf, event, published, clock>>
    BY <1>0, <1>13, <1>14, <1>12, <2>2 DEF outgoing, clock, alive
  <2>3. CASE /\ ParseMqtt(recv_mbuf) > 0
             /\ event' = Message(recv_mbuf)
             /\ recv_mbuf' = MbufRemove(recv_mbuf, ParseMqtt(recv_mbuf))
             /\ UNCHANGED <<established, outgoing, to_daemon, in_recv, published, clock>>
    <3>1. event' \in Packet
      BY <1>0, <1>13, <1>14, <2>3, MessageType
    <3>2. recv_mbuf' \in Seq(Byte)
      <4>1. ParseMqtt(recv_mbuf) \in 2 .. Len(recv_mbuf)
        BY <1>0, <1>13, <1>14, <2>3, ParseType
      <4>2. ParseMqtt(recv_mbuf) \in 0 .. Len(recv_mbuf)
        BY <1>0, <1>13, <1>14, <4>1, LenProperties
      <4> QED BY <1>0, <1>13, <1>14, <2>3, <4>2, TakeAndRemove
    <3> QED BY <1>0, <1>13, <1>14, <1>12, <2>3, <3>1, <3>2 DEF outgoing, clock, alive
  <2> QED BY <1>3, <2>1, <2>2, <2>3 DEF MqttReceive
<1>4. CASE CloseStream
  BY <1>0, <1>13, <1>14, <1>4, <1>12 DEF CloseStream, Gone, clock, alive
<1>5. ASSUME NEW b \in Bodies, Publish(b) PROVE StreamTypeOK'
  <2>1. /\ send_mbuf' \in Seq(Byte) /\ idle' = 0 /\ quiet' = 0 /\ stepped' = FALSE
    BY <1>5, QueueType, BodiesFit DEF Publish
  <2>2. published' \in 0 .. MaxPublished
    BY <1>0, <1>13, <1>14, <1>5 DEF Publish
  <2> QED BY <1>0, <1>13, <1>14, <1>5, <1>12, <2>1, <2>2 DEF Publish, incoming
<1>6. ASSUME NEW n \in 1 .. Len(send_mbuf), WriteToSocket(n) PROVE StreamTypeOK'
  <2>1. n \in 0 .. Len(send_mbuf)
    BY <1>0, <1>13, <1>14, <1>6, LenProperties
  <2>2. SubSeq(send_mbuf, 1, n) \in Seq(Byte) /\ MbufRemove(send_mbuf, n) \in Seq(Byte)
    BY <1>0, <1>13, <1>14, <2>1, TakeAndRemove
  <2>3. to_broker' \in Seq(Byte) /\ send_mbuf' \in Seq(Byte)
    BY <1>0, <1>13, <1>14, <1>6, <2>2, ConcatProperties DEF WriteToSocket
  <2> QED BY <1>0, <1>13, <1>14, <1>6, <1>12, <2>3 DEF WriteToSocket, incoming, clock, alive
<1>7. ASSUME NEW n \in 1 .. Len(to_daemon), TcpRead(n) PROVE StreamTypeOK'
  <2>1. n \in 0 .. Len(to_daemon)
    BY <1>0, <1>13, <1>14, <1>7, LenProperties
  <2>2. SubSeq(to_daemon, 1, n) \in Seq(Byte) /\ MbufRemove(to_daemon, n) \in Seq(Byte)
    BY <1>0, <1>13, <1>14, <2>1, TakeAndRemove
  <2>3. recv_mbuf' \in Seq(Byte) /\ to_daemon' \in Seq(Byte)
    BY <1>0, <1>13, <1>14, <1>7, <2>2, Appended DEF TcpRead
  <2> QED BY <1>0, <1>13, <1>14, <1>7, <1>12, <2>3 DEF TcpRead, outgoing, clock, alive
<1>8. CASE BrokerTakes
  <2>1. /\ Complete(to_broker) /\ heard' = FirstFrame(to_broker) /\ to_broker' = Behind(to_broker)
        /\ to_daemon' = to_daemon \o Answers(heard')
    BY <1>8, BrokerTakesFirst
  <2>2. heard' \in Packet /\ to_broker' \in Seq(Byte)
    BY <1>0, <2>1, CompleteType
  <2>3. Answers(heard') \in Seq(Byte)
    BY AnswersType
  <2>4. to_daemon' \in Seq(Byte)
    BY <1>0, <2>1, <2>3, ConcatProperties
  <2> QED BY <1>0, <1>13, <1>14, <1>8, <1>12, <2>2, <2>4 DEF BrokerTakes, clock, alive
<1>9. CASE Tick
  <2>1. pass' \in 0 .. PassMax /\ idle' \in Int /\ quiet' \in Nat
    BY <1>0, <1>13, <1>14, <1>9 DEF Tick
  <2> QED BY <1>0, <1>13, <1>14, <1>9, <1>12, <2>1 DEF Tick, outgoing, incoming
<1>10. CASE SetClock
  <2>1. idle' \in Int /\ steps' \in 0 .. MaxSteps
    BY <1>0, <1>13, <1>14, <1>10 DEF SetClock
  <2> QED BY <1>0, <1>13, <1>14, <1>10, <1>12, <2>1 DEF SetClock, outgoing, incoming
<1>11. CASE UNCHANGED streamvars
  BY <1>0, <1>13, <1>14, <1>11, <1>12 DEF streamvars, outgoing, incoming, clock, alive
<1> QED BY <1>1, <1>2, <1>3, <1>4, <1>5, <1>6, <1>7, <1>8, <1>9, <1>10, <1>11 DEF NextStream

\* Whatever is queued, carried and read, the buffers hold bytes, and what is read
\* from them are packets.
THEOREM BytesWellTyped == SpecStream => []StreamTypeOK
<1>1. InitStream => StreamTypeOK
  <2> SUFFICES ASSUME InitStream PROVE StreamTypeOK
    OBVIOUS
  <2>1. /\ send_mbuf = <<>> /\ to_broker = <<>> /\ to_daemon = <<>> /\ recv_mbuf = <<>>
        /\ heard = Nothing /\ event = Nothing /\ published = 0 /\ steps = 0
        /\ idle = 0 /\ quiet = 0 /\ pass = 0
    BY DEF InitStream
  <2>2. {established, in_recv, stepped} \subseteq BOOLEAN
    BY Zenon DEF InitStream
  <2> QED BY <2>1, <2>2, MqttStreamAssumption DEF StreamTypeOK
<1> QED BY <1>1, TypeNext, PTL DEF SpecStream

-----------------------------------------------------------------------------
(* What the broker hears *)

OutWhole == Whole(to_broker \o send_mbuf)

LEMMA OutPut ==
  ASSUME StreamTypeOK, OutWhole, NEW p \in OutPackets,
         Queue(p.cmd, p.body), to_broker' = to_broker, heard' = heard
  PROVE  OutWhole' /\ Out!Put
<1>1. /\ p.cmd \in 0 .. 15 /\ p.cmd # CONNACK /\ p.body \in Seq(Byte) /\ Len(p.body) < TooLong
      /\ p = [cmd |-> p.cmd, body |-> p.body]
  BY BodiesFit DEF OutPackets
<1>2. PICK a \in Seq(Byte), b \in Seq(Byte) : a = to_broker /\ b = send_mbuf
  BY DEF StreamTypeOK
<1>3. PICK q : q = Bytes(p.cmd, p.body)
  OBVIOUS
<1>4. send_mbuf' = b \o q
  BY <1>1, <1>2, <1>3, QueueType
<1>5. Whole(q) /\ Frames(q) = <<p>> /\ q \in Seq(Byte)
  BY <1>1, <1>3, BytesAreWhole DEF Whole
<1>6. Whole(a \o b)
  BY <1>2 DEF OutWhole
<1>7. Whole((a \o b) \o q) /\ Frames((a \o b) \o q) = Frames(a \o b) \o <<p>>
  BY <1>5, <1>6, WholeOn
<1>8. (a \o b) \o q = a \o (b \o q)
  BY <1>5, ConcatAssociative
<1>9. Frames(a \o b) \o <<p>> = Append(Frames(a \o b), p)
  <2>1. p \in Packet
    BY <1>1 DEF Packet
  <2>2. Frames(a \o b) \in Seq(Packet)
    BY <1>6, FramesType DEF Whole
  <2> QED BY <2>1, <2>2, AppendIsConcat
<1>10. Frames(to_broker' \o send_mbuf') = Append(Frames(to_broker \o send_mbuf), p)
  BY <1>2, <1>4, <1>7, <1>8, <1>9
<1>11. Whole(to_broker' \o send_mbuf')
  BY <1>2, <1>4, <1>7, <1>8
<1> QED BY <1>10, <1>11 DEF OutWhole, Out!Put

LEMMA OutTake ==
  ASSUME StreamTypeOK, OutWhole, BrokerTakes
  PROVE  OutWhole' /\ Out!Take
<1>1. PICK a \in Seq(Byte), b \in Seq(Byte) : a = to_broker /\ b = send_mbuf
  BY DEF StreamTypeOK
<1>2. /\ Complete(a) /\ heard' = FirstFrame(a) /\ to_broker' = Behind(a) /\ send_mbuf' = b
  BY <1>1, BrokerTakesFirst DEF BrokerTakes
<1>3. PICK p \in Packet : p = FirstFrame(a)
  BY <1>2, CompleteType
<1>4. Behind(a) \in Seq(Byte)
  BY <1>2, CompleteType
<1>5. PICK q \in Seq(Packet) : q = Frames(Behind(a) \o b)
  BY <1>4, ConcatProperties, FramesType
<1>6. Frames(a \o b) = <<p>> \o q
  BY <1>2, <1>3, <1>5, FramesOfBoth
<1>7. Head(<<p>> \o q) = p /\ Tail(<<p>> \o q) = q /\ <<p>> \o q # <<>>
  OBVIOUS
<1>8. Whole(Behind(a) \o b)
  <2>1. Whole(a \o b)
    BY <1>1 DEF OutWhole
  <2>2. Complete(a \o b) /\ Behind(a \o b) = Behind(a) \o b
    BY <1>2, FirstStays
  <2> QED BY <2>1, <2>2, WholeBehind
<1>9. Whole(to_broker' \o send_mbuf')
  BY <1>2, <1>8
<1>10. /\ Frames(to_broker \o send_mbuf) # <<>>
       /\ heard' = Head(Frames(to_broker \o send_mbuf))
       /\ Frames(to_broker' \o send_mbuf') = Tail(Frames(to_broker \o send_mbuf))
  BY <1>1, <1>2, <1>3, <1>5, <1>6, <1>7
<1> QED BY <1>9, <1>10 DEF OutWhole, Out!Take

LEMMA OutLose == Gone => OutWhole' /\ Out!Lose
<1> SUFFICES ASSUME Gone PROVE OutWhole' /\ Out!Lose
  OBVIOUS
<1>1. to_broker' = <<>> /\ send_mbuf' = <<>> /\ heard' = heard
  BY DEF Gone
<1>2. to_broker' \o send_mbuf' = <<>>
  BY <1>1
<1> QED BY <1>1, <1>2, NothingIsWhole, FramesOfNothing DEF OutWhole, Out!Lose

OutStep ==
  Out!Put \/ Out!Take \/ Out!Lose \/ UNCHANGED <<Frames(to_broker \o send_mbuf), heard>>

LEMMA OutSame ==
  ASSUME OutWhole, to_broker' \o send_mbuf' = to_broker \o send_mbuf, heard' = heard
  PROVE  OutWhole' /\ UNCHANGED <<Frames(to_broker \o send_mbuf), heard>>
<1>1. Frames(to_broker' \o send_mbuf') = Frames(to_broker \o send_mbuf)
  OBVIOUS
<1>2. Whole(to_broker' \o send_mbuf')
  BY DEF OutWhole
<1> QED BY <1>1, <1>2 DEF OutWhole

LEMMA OutNext ==
  ASSUME StreamTypeOK, OutWhole, [NextStream]_streamvars
  PROVE  OutWhole' /\ OutStep
<1>0. ASSUME UNCHANGED <<send_mbuf, to_broker, heard>> PROVE OutWhole' /\ OutStep
  BY <1>0, OutSame DEF OutStep
<1>1. CASE Handshake
  <2>1. PICK p \in OutPackets : p = [cmd |-> CONNECT_CMD, body |-> ConnectBody]
    BY DEF OutPackets
  <2>2. Queue(p.cmd, p.body)
    BY <1>1, <2>1 DEF Handshake
  <2>3. to_broker' = to_broker /\ heard' = heard
    BY <1>1 DEF Handshake
  <2> QED BY <2>2, <2>3, OutPut DEF OutStep
<1>2. CASE MqttPoll
  <2>1. to_broker' = to_broker /\ heard' = heard
    BY <1>2 DEF MqttPoll
  <2>2. CASE Queue(PINGREQ_CMD, <<>>)
    <3>1. PICK p \in OutPackets : p = [cmd |-> PINGREQ_CMD, body |-> <<>>]
      BY DEF OutPackets
    <3>2. Queue(p.cmd, p.body)
      BY <2>2, <3>1
    <3> QED BY <2>1, <3>2, OutPut DEF OutStep
  <2>3. CASE UNCHANGED send_mbuf
    BY <1>0, <2>1, <2>3
  <2> QED BY <1>2, <2>2, <2>3 DEF MqttPoll
<1>3. CASE MqttReceive
  <2>1. CASE Gone
    BY <2>1, OutLose DEF OutStep
  <2>2. CASE UNCHANGED outgoing
    BY <1>0, <2>2 DEF outgoing
  <2> QED BY <1>3, <2>1, <2>2 DEF MqttReceive
<1>4. CASE CloseStream
  BY <1>4, OutLose DEF CloseStream, OutStep
<1>5. ASSUME NEW b \in Bodies, Publish(b) PROVE OutWhole' /\ OutStep
  <2>1. PICK p \in OutPackets : p = [cmd |-> PUBLISH_CMD, body |-> b]
    BY DEF OutPackets
  <2>2. Queue(p.cmd, p.body)
    BY <1>5, <2>1 DEF Publish
  <2>3. to_broker' = to_broker /\ heard' = heard
    BY <1>5 DEF Publish
  <2> QED BY <2>2, <2>3, OutPut DEF OutStep
<1>6. ASSUME NEW n \in 1 .. Len(send_mbuf), WriteToSocket(n) PROVE OutWhole' /\ OutStep
  <2>1. PICK a \in Seq(Byte), b \in Seq(Byte) : a = to_broker /\ b = send_mbuf
    BY DEF StreamTypeOK
  <2>2. n \in 0 .. Len(b)
    BY <2>1, LenProperties
  <2>3. PICK x \in Seq(Byte), y \in Seq(Byte) :
          x = SubSeq(b, 1, n) /\ y = MbufRemove(b, n) /\ x \o y = b
    BY <2>2, TakeAndRemove
  <2>4. to_broker' = a \o x /\ send_mbuf' = y /\ heard' = heard
    BY <1>6, <2>1, <2>3 DEF WriteToSocket
  <2>5. (a \o x) \o y = a \o (x \o y)
    BY ConcatAssociative
  <2>6. to_broker' \o send_mbuf' = to_broker \o send_mbuf
    BY <2>1, <2>3, <2>4, <2>5
  <2> QED BY <2>4, <2>6, OutSame DEF OutStep
<1>7. ASSUME NEW n \in 1 .. Len(to_daemon), TcpRead(n) PROVE OutWhole' /\ OutStep
  BY <1>0, <1>7 DEF TcpRead, outgoing
<1>8. CASE BrokerTakes
  BY <1>8, OutTake DEF OutStep
<1>9. CASE Tick \/ SetClock \/ UNCHANGED streamvars
  BY <1>0, <1>9 DEF Tick, SetClock, streamvars, outgoing
<1> QED BY <1>1, <1>2, <1>3, <1>4, <1>5, <1>6, <1>7, <1>8, <1>9 DEF NextStream

\* Every packet the daemon queues reaches the broker whole, once and in order, for
\* all bodies that four digits can measure, however the socket cuts the bytes.
THEOREM BrokerHearsEverything == SpecStream => BrokerHears
<1>1. InitStream => OutWhole /\ Out!InitPipe
  <2> SUFFICES ASSUME InitStream PROVE OutWhole /\ Out!InitPipe
    OBVIOUS
  <2>1. to_broker \o send_mbuf = <<>> /\ heard = Nothing
    BY DEF InitStream
  <2> QED BY <2>1, NothingIsWhole, FramesOfNothing DEF OutWhole, Out!InitPipe, Out!NoPacket, Nothing
<1>2. StreamTypeOK /\ OutWhole /\ [NextStream]_streamvars
        => OutWhole' /\ [Out!Put \/ Out!Take \/ Out!Lose]_<<Frames(to_broker \o send_mbuf), heard>>
  BY OutNext DEF OutStep
<1> QED BY <1>1, <1>2, BytesWellTyped, PTL DEF SpecStream, BrokerHears, Out!SpecPipe

-----------------------------------------------------------------------------
(* What the daemon hears *)

\* The packets of the broker have a length of one digit: from one boundary to
\* the next are the header, the length, and as many bytes as it says.
Short(S) ==
  \E B \in SUBSET (0 .. Len(S)) :
    /\ 0 \in B /\ Len(S) \in B
    /\ \A b \in B : b = Len(S) \/ (b + 2 <= Len(S) /\ S[b + 2] < Base /\ b + 2 + S[b + 2] \in B)

LEMMA ShortOn ==
  ASSUME NEW X \in Seq(Byte), NEW Y \in Seq(Byte), Short(X), Short(Y)
  PROVE  Short(X \o Y)
<1>1. PICK Z \in Seq(Byte) : Z = X \o Y
  BY ConcatProperties
<1>2. PICK m \in Nat, n \in Nat : m = Len(X) /\ n = Len(Y)
  BY LenProperties
<1>3. /\ Len(Z) = m + n
      /\ \A i \in 1 .. m + n : Z[i] = IF i <= m THEN X[i] ELSE Y[i - m]
  BY <1>1, <1>2, ConcatProperties
<1>4. PICK B \in SUBSET (0 .. m) :
        /\ 0 \in B /\ m \in B
        /\ \A b \in B : b = m \/ (b + 2 <= m /\ X[b + 2] < Base /\ b + 2 + X[b + 2] \in B)
  BY <1>2 DEF Short
<1>5. PICK C \in SUBSET (0 .. n) :
        /\ 0 \in C /\ n \in C
        /\ \A b \in C : b = n \/ (b + 2 <= n /\ Y[b + 2] < Base /\ b + 2 + Y[b + 2] \in C)
  BY <1>2 DEF Short
<1>6. PICK D : D = B \cup {c + m : c \in C}
  OBVIOUS
<1>7. D \in SUBSET (0 .. m + n) /\ 0 \in D /\ m + n \in D
  <2>1. n + m = m + n
    OBVIOUS
  <2>2. \A c \in C : c + m \in 0 .. m + n
    OBVIOUS
  <2>3. 0 .. m \subseteq 0 .. m + n
    OBVIOUS
  <2>4. D \subseteq 0 .. m + n
    BY <1>6, <2>2, <2>3
  <2> QED BY <1>4, <1>5, <1>6, <2>1, <2>4
<1>8. ASSUME NEW b \in D PROVE b = m + n \/ (b + 2 <= m + n /\ Z[b + 2] < Base /\ b + 2 + Z[b + 2] \in D)
  <2>1. CASE b \in B /\ b # m
    <3>1. b \in 0 .. m /\ b + 2 <= m /\ X[b + 2] < Base /\ b + 2 + X[b + 2] \in B
      BY <1>4, <2>1
    <3>2. b + 2 \in 1 .. m + n
      BY <3>1
    <3>3. Z[b + 2] = X[b + 2]
      BY <1>3, <3>1, <3>2
    <3> QED BY <1>6, <3>1, <3>2, <3>3
  <2>2. CASE \E c \in C : b = c + m
    <3>1. PICK c \in C : b = c + m
      BY <2>2
    <3>2. c \in 0 .. n
      OBVIOUS
    <3>3. CASE c = n
      <4>1. b = m + n
        BY <3>1, <3>3
      <4> QED BY <4>1
    <3>4. CASE c # n
      <4>1. c + 2 <= n /\ Y[c + 2] < Base /\ c + 2 + Y[c + 2] \in C
        BY <1>5, <3>4
      <4>2. b + 2 \in 1 .. m + n /\ ~(b + 2 <= m) /\ (b + 2) - m = c + 2
        BY <3>1, <3>2, <4>1
      <4>3. Z[b + 2] = Y[c + 2]
        BY <1>3, <4>2
      <4>4. b + 2 + Z[b + 2] \in D
        <5>1. Y[c + 2] \in Nat
          <6>1. c + 2 \in 1 .. Len(Y)
            BY <1>2, <3>2, <4>1
          <6>2. Y[c + 2] \in Byte
            BY <6>1, ElementOfSeq
          <6> QED BY <6>2, BytesAre, Zenon
        <5>2. b + 2 + Z[b + 2] = (c + 2 + Y[c + 2]) + m
          <6>1. PICK y \in Nat : y = Y[c + 2]
            BY <5>1
          <6>2. b + 2 + y = (c + 2 + y) + m
            BY <3>1, <3>2
          <6> QED BY <4>3, <6>1, <6>2
        <5> QED BY <1>6, <4>1, <5>2
      <4> QED BY <4>1, <4>2, <4>3, <4>4
    <3> QED BY <3>3, <3>4
  <2>3. b = m => \E c \in C : b = c + m
    BY <1>5
  <2> QED BY <1>6, <2>1, <2>2, <2>3
<1> QED BY <1>1, <1>3, <1>7, <1>8 DEF Short

LEMMA ShortFront ==
  ASSUME NEW S \in Seq(Byte), Short(S), S # <<>>
  PROVE  /\ Len(S) >= 2 /\ S[2] < Base /\ 2 + S[2] \in 2 .. Len(S)
         /\ Short(SubSeq(S, 2 + S[2] + 1, Len(S)))
<1>1. PICK m \in Nat : m = Len(S) /\ m # 0
  BY LenProperties, EmptySeq
<1>2. PICK B \in SUBSET (0 .. m) :
        /\ 0 \in B /\ m \in B
        /\ \A b \in B : b = m \/ (b + 2 <= m /\ S[b + 2] < Base /\ b + 2 + S[b + 2] \in B)
  BY <1>1 DEF Short
<1>3. 0 + 2 <= m /\ S[0 + 2] < Base /\ 0 + 2 + S[0 + 2] \in B
  BY <1>1, <1>2
<1>4. m >= 2 /\ S[2] < Base /\ 2 + S[2] \in B
  BY <1>3
<1>5. PICK k : k = 2 + S[2]
  OBVIOUS
<1>6. S[2] \in Nat
  <2>1. S[2] \in Byte
    BY <1>1, <1>4, ElementOfSeq
  <2> QED BY <2>1, BytesAre, Zenon
<1>7. k \in B /\ k \in 2 .. m
  BY <1>4, <1>5, <1>6
<1>8. PICK T : T = SubSeq(S, k + 1, m)
  OBVIOUS
<1>9. T \in Seq(Byte) /\ Len(T) = m - k /\ \A i \in 1 .. m - k : T[i] = S[i + k]
  <2>1. \A i \in k + 1 .. m : S[i] \in Byte
    BY <1>1, <1>7, ElementOfSeq
  <2>2. k + 1 \in Int /\ m \in Int
    BY <1>7
  <2>3. /\ T \in Seq(Byte) /\ Len(T) = IF k + 1 <= m THEN m - (k + 1) + 1 ELSE 0
        /\ \A i \in 1 .. m - (k + 1) + 1 : T[i] = S[k + 1 + i - 1]
    BY <1>8, <2>1, <2>2, SubSeqProperties
  <2>4. Len(T) = m - k
    BY <1>7, <2>3
  <2>5. ASSUME NEW i \in 1 .. m - k PROVE T[i] = S[i + k]
    <3>1. i \in 1 .. m - (k + 1) + 1 /\ k + 1 + i - 1 = i + k
      BY <1>7
    <3> QED BY <2>3, <3>1
  <2> QED BY <2>3, <2>4, <2>5
<1>10. PICK C : C = {b \in 0 .. m - k : b + k \in B}
  OBVIOUS
<1>11. C \in SUBSET (0 .. m - k) /\ 0 \in C /\ m - k \in C
  BY <1>2, <1>7, <1>10
<1>12. ASSUME NEW b \in C
       PROVE  b = m - k \/ (b + 2 <= m - k /\ T[b + 2] < Base /\ b + 2 + T[b + 2] \in C)
  <2>1. b \in 0 .. m - k /\ b + k \in B
    BY <1>10
  <2>2. b + k = m \/ ((b + k) + 2 <= m /\ S[(b + k) + 2] < Base /\ (b + k) + 2 + S[(b + k) + 2] \in B)
    BY <1>2, <2>1
  <2>3. CASE b + k = m
    <3>1. b = m - k
      BY <1>7, <2>1, <2>3
    <3> QED BY <3>1
  <2>4. CASE b + k # m
    <3>1. (b + 2) + k = (b + k) + 2 /\ b + 2 \in 1 .. m - k
      BY <1>7, <2>1, <2>2, <2>4
    <3>2. T[b + 2] = S[(b + k) + 2]
      BY <1>9, <3>1
    <3>3. S[(b + k) + 2] \in Nat
      <4>1. (b + k) + 2 \in 1 .. m
        BY <1>7, <3>1
      <4>2. S[(b + k) + 2] \in Byte
        BY <1>1, <4>1, ElementOfSeq
      <4> QED BY <4>2, BytesAre, Zenon
    <3>4. PICK x \in Nat : x = S[(b + k) + 2]
      BY <3>3
    <3>5. (b + k) + 2 + x \in B /\ (b + k) + 2 + x \in 0 .. m
      BY <2>2, <2>4, <3>4
    <3>6. b + 2 + x \in 0 .. m - k /\ (b + 2 + x) + k = (b + k) + 2 + x
      BY <1>7, <2>1, <3>5
    <3> QED BY <1>10, <2>2, <2>4, <3>1, <3>2, <3>4, <3>5, <3>6
  <2> QED BY <2>3, <2>4
<1>13. Short(T)
  BY <1>9, <1>11, <1>12 DEF Short
<1> QED BY <1>1, <1>4, <1>5, <1>7, <1>8, <1>13

LEMMA OneDigit ==
  ASSUME NEW io \in Seq(Byte), Len(io) >= 2, io[2] < Base
  PROVE  LengthBytes(io) = 1 /\ RemainingLength(io) = io[2]
<1>1. PICK k : k = LengthBytes(io)
  OBVIOUS
<1>2. k \in 1 .. 5 /\ \A j \in 1 .. k - 1 : ~(io[j + 1] < Base)
  BY <1>1, LengthBytesIs
<1>3. k = 1
  <2>1. k # 1 => 1 \in 1 .. k - 1
    BY <1>2
  <2>2. 1 \in 1 .. k - 1 => ~(io[1 + 1] < Base)
    BY <1>2
  <2> QED BY <2>1, <2>2
<1>4. io[2] \in Nat
  <2>1. io[2] \in Byte
    BY ElementOfSeq, LenProperties
  <2> QED BY <2>1, BytesAre, Zenon
<1>5. Digit(io, 1) = io[2]
  <2>1. Digit(io, 1) = (io[2] % Base) * Place[1]
    BY <1>1, <1>3 DEF Digit
  <2>2. Place[1] = 1
    BY DEF Place
  <2>3. PICK x \in Nat : x = io[2]
    BY <1>4
  <2>4. x % Base = x
    BY <2>3, BaseIsNat
  <2> QED BY <2>1, <2>2, <2>3, <2>4
<1>6. Digit(io, 2) = 0 /\ Digit(io, 3) = 0 /\ Digit(io, 4) = 0 /\ Digit(io, 5) = 0
  BY <1>1, <1>3 DEF Digit
<1> QED BY <1>1, <1>3, <1>4, <1>5, <1>6 DEF RemainingLength

\* A packet with a length of one digit is read as it was written.
LEMMA ShortPacket ==
  ASSUME NEW io \in Seq(Byte), NEW cmd \in 0 .. 15, NEW body \in Seq(Byte),
         Len(io) >= 2, io[1] = cmd * 16, io[2] = Len(body), Len(body) < Base,
         Len(io) = 2 + Len(body), \A i \in 1 .. Len(body) : io[i + 2] = body[i],
         cmd # CONNACK \/ Len(body) >= 2
  PROVE  /\ Whole(io) /\ Short(io)
         /\ Frames(io) = <<[cmd |-> cmd, body |-> body]>>
<1>1. PICK n \in Nat : n = Len(body)
  BY LenProperties
<1>2. LengthBytes(io) = 1 /\ RemainingLength(io) = n
  BY <1>1, OneDigit
<1>3. Cmd(io) = cmd
  <2>1. (cmd * 16) \div 16 = cmd
    BY SMT
  <2> QED BY <2>1 DEF Cmd
<1>4. ParseMqtt(io) = 2 + n
  <2>1. io[1 + 1] < Base /\ ~(io[1 + 1] >= Base)
    BY <1>1, PlacesAre
  <2>2. ~(Len(io) < 2) /\ ~(n > Len(io) - 1 - 1) /\ 1 + 1 + n = 2 + n
    BY <1>1
  <2>3. ~(Cmd(io) = CONNACK /\ n < 2)
    BY <1>1, <1>3
  <2> QED BY <1>2, <2>1, <2>2, <2>3 DEF ParseMqtt
<1>5. /\ Complete(io) /\ FirstFrame(io) = Message(io) /\ EndOfFirst(io) = 2 + n
      /\ Behind(io) = MbufRemove(io, 2 + n)
  BY <1>1, <1>2, <1>4, ParseIsFirst
<1>6. Behind(io) = <<>>
  <2>1. Len(Behind(io)) = 0 /\ Behind(io) \in Seq(Byte)
    BY <1>1, <1>5, CompleteType
  <2> QED BY <2>1, EmptySeq
<1>7. Whole(io) /\ Frames(io) = <<FirstFrame(io)>>
  BY <1>5, <1>6, OneIsWhole
<1>8. Message(io) = [cmd |-> cmd, body |-> body]
  <2>1. PICK s : s = SubSeq(io, 3, 2 + n)
    OBVIOUS
  <2>2. s \in Seq(Byte) /\ Len(s) = n /\ \A i \in 1 .. n : s[i] = io[i + 2]
    <3>1. \A i \in 3 .. 2 + n : io[i] \in Byte
      BY <1>1, ElementOfSeq
    <3>2. /\ s \in Seq(Byte) /\ Len(s) = IF 3 <= 2 + n THEN (2 + n) - 3 + 1 ELSE 0
          /\ \A i \in 1 .. (2 + n) - 3 + 1 : s[i] = io[3 + i - 1]
      BY <2>1, <3>1, SubSeqProperties
    <3>3. Len(s) = n /\ (2 + n) - 3 + 1 = n
      BY <3>2
    <3>4. \A i \in 1 .. n : 3 + i - 1 = i + 2
      OBVIOUS
    <3> QED BY <3>2, <3>3, <3>4
  <2>3. s = body
    BY <1>1, <2>2, SeqEqual
  <2>4. LengthBytes(io) + 2 = 3
    BY <1>2
  <2> QED BY <1>3, <1>4, <2>1, <2>3, <2>4 DEF Message
<1>9. Short(io)
  <2>1. PICK B : B = {0, 2 + n}
    OBVIOUS
  <2>2. B \in SUBSET (0 .. Len(io)) /\ 0 \in B /\ Len(io) \in B
    BY <1>1, <2>1
  <2>3. ASSUME NEW b \in B
        PROVE  b = Len(io) \/ (b + 2 <= Len(io) /\ io[b + 2] < Base /\ b + 2 + io[b + 2] \in B)
    <3>1. CASE b = 2 + n
      BY <1>1, <3>1
    <3>2. CASE b = 0
      <4>1. b + 2 = 2 /\ b + 2 <= Len(io) /\ io[b + 2] = n /\ n < Base /\ b + 2 + io[b + 2] = 2 + n
        BY <1>1, <3>2
      <4> QED BY <2>1, <4>1
    <3> QED BY <2>1, <3>1, <3>2
  <2> QED BY <2>2, <2>3 DEF Short
<1> QED BY <1>7, <1>5, <1>8, <1>9

LEMMA NothingIsShort == Short(<<>>)
<1>1. PICK Z \in Seq(Byte) : Z = <<>> /\ Len(Z) = 0
  BY EmptySeq
<1>2. PICK B : B = {0}
  OBVIOUS
<1>3. B \in SUBSET (0 .. Len(Z)) /\ 0 \in B /\ Len(Z) \in B /\ \A b \in B : b = Len(Z)
  BY <1>1, <1>2
<1>4. Short(Z)
  BY <1>3 DEF Short
<1> QED BY <1>1, <1>4

LEMMA AnswersAre ==
  ASSUME NEW p
  PROVE  \/ Answers(p) = <<>>
         \/ /\ Whole(Answers(p)) /\ Short(Answers(p))
            /\ \E q \in InPackets : Frames(Answers(p)) = <<q>>
<1>1. CASE p.cmd = CONNECT_CMD
  <2>1. Answers(p) = <<32, 2, 0, 0>>
    BY <1>1 DEF Answers, CONNACK, CONNECT_CMD, PINGREQ_CMD
  <2>2. PICK io : io = <<32, 2, 0, 0>>
    OBVIOUS
  <2>3. /\ io \in Seq(Byte) /\ Len(io) = 4
        /\ io[1] = 32 /\ io[2] = 2 /\ io[3] = 0 /\ io[4] = 0
    BY <2>2 DEF Byte
  <2>4. PICK body : body = <<0, 0>>
    OBVIOUS
  <2>5. body \in Seq(Byte) /\ Len(body) = 2 /\ body[1] = 0 /\ body[2] = 0
    BY <2>4 DEF Byte
  <2>6. \A i \in 1 .. 2 : io[i + 2] = body[i]
    BY <2>3, <2>5
  <2>7. Whole(io) /\ Short(io) /\ Frames(io) = <<[cmd |-> CONNACK, body |-> body]>>
    <3>1. CONNACK = 2 /\ CONNACK \in 0 .. 15
      BY DEF CONNACK
    <3>2. /\ io[1] = CONNACK * 16 /\ io[2] = Len(body) /\ Len(body) < Base
          /\ Len(io) = 2 + Len(body) /\ Len(io) >= 2 /\ Len(body) >= 2
      BY <2>3, <2>5, <3>1, BaseAssumption
    <3>3. \A i \in 1 .. Len(body) : io[i + 2] = body[i]
      BY <2>5, <2>6
    <3> QED BY <2>3, <2>5, <3>1, <3>2, <3>3, ShortPacket
  <2>8. PICK q \in InPackets : q = [cmd |-> CONNACK, body |-> body]
    BY <2>4 DEF InPackets
  <2> QED BY <2>1, <2>2, <2>7, <2>8
<1>2. CASE p.cmd # CONNECT_CMD /\ p.cmd = PINGREQ_CMD
  <2>1. Answers(p) = <<208, 0>>
    BY <1>2 DEF Answers, PINGRESP_CMD
  <2>2. PICK io : io = <<208, 0>>
    OBVIOUS
  <2>3. io \in Seq(Byte) /\ Len(io) = 2 /\ io[1] = 208 /\ io[2] = 0
    BY <2>2 DEF Byte
  <2>4. PICK body \in Seq(Byte) : body = <<>> /\ Len(body) = 0
    BY EmptySeq
  <2>5. Whole(io) /\ Short(io) /\ Frames(io) = <<[cmd |-> PINGRESP_CMD, body |-> body]>>
    <3>1. PICK cmd \in 0 .. 15 : cmd = PINGRESP_CMD /\ cmd # CONNACK /\ cmd * 16 = 208
      BY DEF CONNACK, PINGRESP_CMD
    <3>2. cmd # CONNACK \/ Len(body) >= 2
      BY <3>1
    <3>3. io[1] = cmd * 16 /\ io[2] = Len(body) /\ Len(body) < Base
      BY <2>3, <2>4, <3>1, BaseAssumption
    <3>4. Len(io) = 2 + Len(body) /\ Len(io) >= 2
      BY <2>3, <2>4
    <3>5. \A i \in 1 .. Len(body) : io[i + 2] = body[i]
      BY <2>4
    <3>6. Whole(io) /\ Short(io) /\ Frames(io) = <<[cmd |-> cmd, body |-> body]>>
      BY ZenonT(30), <2>3, <2>4, <3>2, <3>3, <3>4, <3>5, ShortPacket
    <3> QED BY <3>1, <3>6
  <2>6. PICK q \in InPackets : q = [cmd |-> PINGRESP_CMD, body |-> body]
    BY <2>4 DEF InPackets
  <2> QED BY <2>1, <2>2, <2>5, <2>6
<1>3. CASE p.cmd # CONNECT_CMD /\ p.cmd # PINGREQ_CMD
  BY <1>3 DEF Answers
<1> QED BY <1>1, <1>2, <1>3

InWhole == Whole(recv_mbuf \o to_daemon) /\ Short(recv_mbuf \o to_daemon)

InStep ==
  In!Put \/ In!Take \/ In!Lose \/ UNCHANGED <<Frames(recv_mbuf \o to_daemon), event>>

LEMMA InSame ==
  ASSUME InWhole, recv_mbuf' \o to_daemon' = recv_mbuf \o to_daemon, event' = event
  PROVE  InWhole' /\ UNCHANGED <<Frames(recv_mbuf \o to_daemon), event>>
<1>1. Frames(recv_mbuf' \o to_daemon') = Frames(recv_mbuf \o to_daemon)
  OBVIOUS
<1>2. Whole(recv_mbuf' \o to_daemon') /\ Short(recv_mbuf' \o to_daemon')
  BY DEF InWhole
<1> QED BY <1>1, <1>2 DEF InWhole

LEMMA InPut ==
  ASSUME StreamTypeOK, InWhole, BrokerTakes
  PROVE  InWhole' /\ (In!Put \/ UNCHANGED <<Frames(recv_mbuf \o to_daemon), event>>)
<1>1. PICK a \in Seq(Byte), b \in Seq(Byte) : a = recv_mbuf /\ b = to_daemon
  BY DEF StreamTypeOK
<1>2. PICK p : p = heard'
  OBVIOUS
<1>3. to_daemon' = b \o Answers(p) /\ recv_mbuf' = a /\ event' = event
  BY <1>1, <1>2, BrokerTakesFirst DEF BrokerTakes
<1>4. PICK q : q = Answers(p)
  OBVIOUS
<1>5. CASE q = <<>>
  <2>1. b \o <<>> = b
    BY ConcatEmptySeq
  <2>2. recv_mbuf' \o to_daemon' = recv_mbuf \o to_daemon
    BY <1>1, <1>3, <1>4, <1>5, <2>1
  <2> QED BY <1>3, <2>2, InSame
<1>6. CASE q # <<>>
  <2>1. Whole(q) /\ Short(q) /\ \E r \in InPackets : Frames(q) = <<r>>
    BY <1>4, <1>6, AnswersAre
  <2>2. PICK r \in InPackets : Frames(q) = <<r>>
    BY <2>1
  <2>3. q \in Seq(Byte)
    BY <2>1 DEF Whole
  <2>4. Whole(a \o b) /\ Short(a \o b)
    BY <1>1 DEF InWhole
  <2>5. Whole((a \o b) \o q) /\ Frames((a \o b) \o q) = Frames(a \o b) \o <<r>>
    BY <2>1, <2>2, <2>4, WholeOn
  <2>6. Short((a \o b) \o q)
    <3>1. a \o b \in Seq(Byte)
      BY ConcatProperties
    <3> QED BY <2>1, <2>3, <2>4, <3>1, ShortOn
  <2>7. (a \o b) \o q = a \o (b \o q)
    BY <2>3, ConcatAssociative
  <2>8. Frames(a \o b) \o <<r>> = Append(Frames(a \o b), r)
    <3>1. r \in Packet
      <4>1. <<0, 0>> \in Seq(Byte) /\ <<>> \in Seq(Byte)
        BY DEF Byte
      <4>2. CONNACK \in 0 .. 15 /\ PINGRESP_CMD \in 0 .. 15
        BY DEF CONNACK, PINGRESP_CMD
      <4>3. [cmd |-> CONNACK, body |-> <<0, 0>>] \in Packet /\ [cmd |-> PINGRESP_CMD, body |-> <<>>] \in Packet
        BY <4>1, <4>2 DEF Packet
      <4> QED BY <4>3 DEF InPackets
    <3>2. Frames(a \o b) \in Seq(Packet)
      BY <2>4, FramesType DEF Whole
    <3> QED BY <3>1, <3>2, AppendIsConcat
  <2>9. Frames(recv_mbuf' \o to_daemon') = Append(Frames(recv_mbuf \o to_daemon), r)
    BY <1>1, <1>3, <1>4, <2>5, <2>7, <2>8
  <2>10. Whole(recv_mbuf' \o to_daemon') /\ Short(recv_mbuf' \o to_daemon')
    BY <1>3, <1>4, <2>5, <2>6, <2>7
  <2> QED BY <1>3, <2>2, <2>9, <2>10 DEF InWhole, In!Put
<1> QED BY <1>5, <1>6

LEMMA InTake ==
  ASSUME StreamTypeOK, InWhole, ParseMqtt(recv_mbuf) > 0,
         event' = Message(recv_mbuf), recv_mbuf' = MbufRemove(recv_mbuf, ParseMqtt(recv_mbuf)),
         to_daemon' = to_daemon
  PROVE  InWhole' /\ In!Take
<1>1. PICK a \in Seq(Byte), b \in Seq(Byte) : a = recv_mbuf /\ b = to_daemon
  BY DEF StreamTypeOK
<1>2. PICK Z \in Seq(Byte) : Z = a \o b
  BY ConcatProperties
<1>3. Whole(Z) /\ Short(Z)
  BY <1>1, <1>2 DEF InWhole
<1>4. Len(a) \in Nat /\ Len(b) \in Nat /\ Len(Z) = Len(a) + Len(b) /\ Len(a) >= 2
  BY <1>1, <1>2, ParseType, ConcatProperties, LenProperties
<1>5. Z[2] = a[2]
  BY <1>2, <1>4, ConcatProperties
<1>6. Z # <<>>
  <2>1. Len(<<>>) = 0
    OBVIOUS
  <2> QED BY <1>4, <2>1
<1>7. /\ Z[2] < Base /\ 2 + Z[2] \in 2 .. Len(Z)
      /\ Short(SubSeq(Z, 2 + Z[2] + 1, Len(Z)))
  BY <1>3, <1>6, ShortFront
<1>8. LengthBytes(a) = 1 /\ RemainingLength(a) = a[2]
  BY <1>4, <1>5, <1>7, OneDigit
<1>9. PICK n : n = ParseMqtt(a)
  OBVIOUS
<1>10. n = 2 + a[2]
  <2>1. n = 1 + 1 + a[2]
    BY <1>1, <1>8, <1>9, ParseType
  <2>2. 1 + 1 = 2
    OBVIOUS
  <2> QED BY <2>1, <2>2
<1>11. /\ Complete(a) /\ FirstFrame(a) = Message(a) /\ EndOfFirst(a) = n
       /\ Behind(a) = MbufRemove(a, n)
  BY <1>1, <1>8, <1>9, ParseIsFirst
<1>12. Complete(Z) /\ Behind(Z) = Behind(a) \o b
  BY <1>2, <1>11, FirstStays
<1>13. Behind(a) \in Seq(Byte) /\ FirstFrame(a) \in Packet /\ Len(Behind(a)) = Len(a) - n
  BY <1>11, CompleteType
<1>14. EndOfFirst(Z) = n
  <2>1. Len(Behind(Z)) = Len(Z) - EndOfFirst(Z) /\ EndOfFirst(Z) \in 2 .. Len(Z)
    BY <1>12, CompleteType
  <2>2. Len(Behind(a) \o b) = Len(Behind(a)) + Len(b)
    BY <1>13, ConcatProperties
  <2>3. n \in 2 .. Len(a)
    BY <1>1, <1>9, ParseType
  <2> QED BY <1>4, <1>12, <1>13, <2>1, <2>2, <2>3
<1>15. Whole(Behind(a) \o b)
  BY <1>3, <1>12, WholeBehind
<1>16. Short(Behind(a) \o b)
  BY <1>5, <1>7, <1>10, <1>12, <1>14 DEF Behind
<1>17. PICK p \in Packet : p = FirstFrame(a)
  BY <1>13
<1>18. PICK q \in Seq(Packet) : q = Frames(Behind(a) \o b)
  BY <1>13, ConcatProperties, FramesType
<1>19. Frames(a \o b) = <<p>> \o q
  BY <1>11, <1>17, <1>18, FramesOfBoth
<1>20. Head(<<p>> \o q) = p /\ Tail(<<p>> \o q) = q /\ <<p>> \o q # <<>>
  OBVIOUS
<1>21. recv_mbuf' = Behind(a) /\ to_daemon' = b /\ event' = p
  BY <1>1, <1>9, <1>11, <1>17
<1>22. Whole(recv_mbuf' \o to_daemon') /\ Short(recv_mbuf' \o to_daemon')
  BY <1>15, <1>16, <1>21
<1>23. /\ Frames(recv_mbuf \o to_daemon) # <<>>
       /\ event' = Head(Frames(recv_mbuf \o to_daemon))
       /\ Frames(recv_mbuf' \o to_daemon') = Tail(Frames(recv_mbuf \o to_daemon))
  BY <1>1, <1>18, <1>19, <1>20, <1>21
<1> QED BY <1>22, <1>23 DEF InWhole, In!Take

LEMMA InLose == Gone => InWhole' /\ In!Lose
<1> SUFFICES ASSUME Gone PROVE InWhole' /\ In!Lose
  OBVIOUS
<1>1. recv_mbuf' = <<>> /\ to_daemon' = <<>> /\ event' = event
  BY DEF Gone
<1>2. recv_mbuf' \o to_daemon' = <<>>
  BY <1>1
<1> QED BY <1>1, <1>2, NothingIsWhole, NothingIsShort, FramesOfNothing DEF InWhole, In!Lose

LEMMA InNext ==
  ASSUME StreamTypeOK, InWhole, [NextStream]_streamvars
  PROVE  InWhole' /\ InStep
<1>0. ASSUME UNCHANGED <<recv_mbuf, to_daemon, event>> PROVE InWhole' /\ InStep
  BY <1>0, InSame DEF InStep
<1>1. CASE Handshake \/ MqttPoll
  BY <1>0, <1>1 DEF Handshake, MqttPoll, incoming
<1>2. CASE MqttReceive
  <2>1. CASE Gone
    BY <2>1, InLose DEF InStep
  <2>2. CASE UNCHANGED <<recv_mbuf, to_daemon, event>>
    BY <1>0, <2>2
  <2>3. CASE /\ ParseMqtt(recv_mbuf) > 0 /\ event' = Message(recv_mbuf)
             /\ recv_mbuf' = MbufRemove(recv_mbuf, ParseMqtt(recv_mbuf)) /\ to_daemon' = to_daemon
    BY <2>3, InTake DEF InStep
  <2> QED BY <1>2, <2>1, <2>2, <2>3 DEF MqttReceive
<1>3. CASE CloseStream
  BY <1>3, InLose DEF CloseStream, InStep
<1>4. ASSUME NEW b \in Bodies, Publish(b) PROVE InWhole' /\ InStep
  BY <1>0, <1>4 DEF Publish, incoming
<1>5. ASSUME NEW n \in 1 .. Len(send_mbuf), WriteToSocket(n) PROVE InWhole' /\ InStep
  BY <1>0, <1>5 DEF WriteToSocket, incoming
<1>6. ASSUME NEW n \in 1 .. Len(to_daemon), TcpRead(n) PROVE InWhole' /\ InStep
  <2>1. PICK a \in Seq(Byte), b \in Seq(Byte) : a = recv_mbuf /\ b = to_daemon
    BY DEF StreamTypeOK
  <2>2. n \in 0 .. Len(b)
    BY <2>1, LenProperties
  <2>3. PICK x \in Seq(Byte), y \in Seq(Byte) :
          x = SubSeq(b, 1, n) /\ y = MbufRemove(b, n) /\ x \o y = b
    BY <2>2, TakeAndRemove
  <2>4. recv_mbuf' = a \o x /\ to_daemon' = y /\ event' = event
    BY <1>6, <2>1, <2>3, Appended DEF TcpRead
  <2>5. (a \o x) \o y = a \o (x \o y)
    BY ConcatAssociative
  <2>6. recv_mbuf' \o to_daemon' = recv_mbuf \o to_daemon
    BY <2>1, <2>3, <2>4, <2>5
  <2> QED BY <2>4, <2>6, InSame DEF InStep
<1>7. CASE BrokerTakes
  BY <1>7, InPut DEF InStep
<1>8. CASE Tick \/ SetClock \/ UNCHANGED streamvars
  BY <1>0, <1>8 DEF Tick, SetClock, streamvars, incoming
<1> QED BY <1>1, <1>2, <1>3, <1>4, <1>5, <1>6, <1>7, <1>8 DEF NextStream

\* Every packet of the broker is one event of the handler, whole and in order,
\* whatever part of it a read returns.
THEOREM EventsArriveInOrder == SpecStream => EventsArrive
<1>1. InitStream => InWhole /\ In!InitPipe
  <2> SUFFICES ASSUME InitStream PROVE InWhole /\ In!InitPipe
    OBVIOUS
  <2>1. recv_mbuf \o to_daemon = <<>> /\ event = Nothing
    BY DEF InitStream
  <2> QED BY <2>1, NothingIsWhole, NothingIsShort, FramesOfNothing
          DEF InWhole, In!InitPipe, In!NoPacket, Nothing
<1>2. StreamTypeOK /\ InWhole /\ [NextStream]_streamvars
        => InWhole' /\ [In!Put \/ In!Take \/ In!Lose]_<<Frames(recv_mbuf \o to_daemon), event>>
  BY InNext DEF InStep
<1> QED BY <1>1, <1>2, BytesWellTyped, PTL DEF SpecStream, EventsArrive, In!SpecPipe

-----------------------------------------------------------------------------
(* The session *)

\* Seen together, the packets behave as MqttLink says and the bytes as MqttStream
\* does, so what is proved of either holds of both.
THEOREM SessionSteps == SpecSession => Init /\ [][Next]_vars /\ SpecStream
<1>1. InitSession => Init /\ InitStream
  BY DEF InitSession
<1>2. [NextSession]_<<vars, streamvars, view>> => [Next]_vars
  BY DEF NextSession, OfPackets, OfBytes
<1>3. [NextSession]_<<vars, streamvars, view>> => [NextStream]_streamvars
  BY DEF NextSession, OfPackets, OfBytes
<1> QED BY <1>1, <1>2, <1>3, PTL DEF SpecSession, SpecStream

\* So the daemon is heard, and hears the broker, whole and in order and often
\* enough, in the session too.
THEOREM SessionCarries ==
  SpecSession => BrokerHears /\ EventsArrive /\ [](StreamTypeOK /\ KeepsAlive)
BY SessionSteps, BrokerHearsEverything, EventsArriveInOrder, BytesWellTyped, AlwaysKeepsAlive, PTL

\* And what is proved of the link holds in it.
THEOREM SessionKeepsLinkSafe == SpecSession => []LinkSafe /\ LostOnlyForAReason
BY SessionSteps, LinkStaysSafe, PTL

\* The types of both, packets and bytes.
THEOREM SessionTypeCorrect == SpecSession => []SessionTypeOK
<1>1. LinkSafe => TypeOK
  BY DEF LinkSafe
<1> QED BY <1>1, SessionKeepsLinkSafe, SessionCarries, PTL DEF SessionTypeOK
=============================================================================
