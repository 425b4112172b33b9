------------------------- MODULE BaseHeader_proofs --------------------------
(***************************************************************************)
(* Theorems about BaseHeader: the headers state their own length, answers  *)
(* are read as they were written, and so are those requests, and no other, *)
(* whose integers are regular; for every set of cgi types and lengths of   *)
(* at most four digits.                                                    *)
(* Literals such as 2097152 are powers of 0x80, written out for the        *)
(* provers.                                                                *)
(***************************************************************************)
EXTENDS BaseHeader, SequenceTheorems, TLAPS

(***************************************************************************)
(* Integers.                                                               *)
(***************************************************************************)

(* The number of digits of n to base 0x80. *)
Size(n) == CHOOSE k \in 1..5 : n < 128^k /\ (k = 1 \/ n >= 128^(k - 1))

(* The powers of 0x80 that matter, as the provers do not compute them. *)
LEMMA Powers == /\ 128^0 = 1 /\ 128^1 = 128 /\ 128^2 = 16384 /\ 128^3 = 2097152
                /\ 128^4 = 268435456
  BY SMT

(* How many digits a number has: one to four. *)
LEMMA SizeOf ==
    ASSUME NEW n \in Number
    PROVE  \/ Size(n) = 1 /\ n < 128
           \/ Size(n) = 2 /\ n >= 128 /\ n < 16384
           \/ Size(n) = 3 /\ n >= 16384 /\ n < 2097152
           \/ Size(n) = 4 /\ n >= 2097152 /\ n < 268435456
  <1> DEFINE Fits(k) == n < 128^k /\ (k = 1 \/ n >= 128^(k - 1))
  <1>1. n \in Nat /\ n < 268435456
    BY SMT, Powers DEF Number
  <1>2. /\ Fits(1) <=> n < 128
        /\ Fits(2) <=> n < 16384 /\ n >= 128
        /\ Fits(3) <=> n < 2097152 /\ n >= 16384
        /\ Fits(4) <=> n < 268435456 /\ n >= 2097152
        /\ Fits(5) => n >= 268435456
    BY SMT, <1>1, Powers
  <1>3. \E k \in 1..5 : Fits(k)
    BY SMT, <1>1, <1>2
  <1> HIDE DEF Fits
  <1>4. (CHOOSE k \in 1..5 : Fits(k)) \in 1..5 /\ Fits(CHOOSE k \in 1..5 : Fits(k))
    BY SMT, <1>3
  <1>5. Size(n) \in 1..5 /\ Fits(Size(n))
    BY SMT, <1>4 DEF Size, Fits
  <1>6. Size(n) \in {1, 2, 3, 4, 5}
    BY SMT, <1>5
  <1> QED
    BY SMT, <1>1, <1>2, <1>5, <1>6

(* A byte of a packet. *)
Byte == 0..255

(* A digit to base 0x80 is below 0x80. *)
LEMMA Remainder ==
    ASSUME NEW q \in Nat
    PROVE  q % 128 \in 0..127
  OBVIOUS

(* The mark of a digit is what String2Dword takes off again. *)
LEMMA MarkedDigit ==
    ASSUME NEW d \in 0..127
    PROVE  d % 128 = d /\ (d + 128) % 128 = d
  OBVIOUS

(* Powers of 0x80 can be divided by. *)
LEMMA PowerOf ==
    ASSUME NEW i \in 1..5
    PROVE  128^(i - 1) \in Nat \ {0}
  <1>1. i - 1 \in {0, 1, 2, 3, 4}
    OBVIOUS
  <1> DEFINE k == i - 1
  <1>2. k \in {0, 1, 2, 3, 4}
    BY <1>1
  <1> HIDE DEF k
  <1>3. 128^k \in Nat \ {0}
    <2>1. CASE k = 0
      BY SMT, <2>1, Powers
    <2>2. CASE k = 1
      BY SMT, <2>2, Powers
    <2>3. CASE k = 2
      BY SMT, <2>3, Powers
    <2>4. CASE k = 3
      BY SMT, <2>4, Powers
    <2>5. CASE k = 4
      BY SMT, <2>5, Powers
    <2> QED
      BY <1>2, <2>1, <2>2, <2>3, <2>4, <2>5
  <1> QED
    BY SMT, <1>3 DEF k

(* A quotient of naturals is one. *)
LEMMA Quotient ==
    ASSUME NEW n \in Nat, NEW p \in Nat \ {0}
    PROVE  n \div p \in Nat
  OBVIOUS

(* Digit i of n, the lowest being the first. *)
VarintDigit(n, i) == (n \div 128^(i - 1)) % 128

(* A digit is below 0x80. *)
LEMMA DigitRange ==
    ASSUME NEW n \in Nat, NEW i \in 1..5
    PROVE  VarintDigit(n, i) \in 0..127
  <1> DEFINE p == 128^(i - 1)
             q == n \div p
  <1>1. p \in Nat \ {0}
    BY PowerOf
  <1> HIDE DEF p
  <1>2. q \in Nat
    BY <1>1, Quotient
  <1> HIDE DEF q
  <1>3. q % 128 \in 0..127
    BY <1>2, Remainder
  <1> QED
    BY <1>3 DEF VarintDigit, q, p

(* A proper integer has as many bytes as digits: all marked but the last. *)
LEMMA VarintBytes ==
    ASSUME NEW n \in Number
    PROVE  /\ Varint(n) \in Seq(Byte) /\ Len(Varint(n)) = Size(n) /\ Size(n) \in 1..4
           /\ \A i \in 1..Size(n) :
                 Varint(n)[i] = VarintDigit(n, i) + (IF i < Size(n) THEN 128 ELSE 0)
  <1>1. Size(n) \in 1..4
    BY SMT, SizeOf
  <1>2. n \in Nat
    BY SMT DEF Number
  <1>3. Varint(n) = [i \in 1..Size(n) |-> VarintDigit(n, i) + (IF i < Size(n) THEN 128 ELSE 0)]
    BY DEF Varint, Size, VarintDigit
  <1>4. ASSUME NEW i \in 1..Size(n)
        PROVE  VarintDigit(n, i) + (IF i < Size(n) THEN 128 ELSE 0) \in Byte
    <2>1. i \in 1..5
      BY <1>1
    <2>2. VarintDigit(n, i) \in 0..127
      BY <1>2, <2>1, DigitRange
    <2> QED
      BY <2>2 DEF Byte
  <1> QED
    BY <1>1, <1>3, <1>4

(* String2Dword stops at the last byte of a proper integer, whatever       *)
(* follows.                                                                *)
LEMMA BytesReadVarint ==
    ASSUME NEW n \in Number, NEW b \in Seq(Byte), Len(b) = 5,
           \A i \in 1..Size(n) : b[i] = Varint(n)[i]
    PROVE  /\ BytesRead(b) = Size(n)
           /\ \A i \in 1..Size(n) : b[i] % 128 = VarintDigit(n, i)
  <1> DEFINE ends == {i \in 1..Len(b) : i = 5 \/ i = Len(b) \/ b[i] < 128}
  <1>1. Size(n) \in 1..4
    BY VarintBytes
  <1>2. n \in Nat
    BY SMT DEF Number
  <1>3. ASSUME NEW i \in 1..Size(n)
        PROVE  b[i] % 128 = VarintDigit(n, i) /\ (b[i] < 128 <=> i = Size(n))
    <2> DEFINE d == VarintDigit(n, i)
    <2>1. i \in 1..5 /\ i <= Size(n)
      BY <1>1
    <2>2. d \in 0..127
      BY <1>2, <2>1, DigitRange
    <2>3. b[i] = d + (IF i < Size(n) THEN 128 ELSE 0)
      BY VarintBytes
    <2> HIDE DEF d
    <2>4. d % 128 = d /\ (d + 128) % 128 = d
      BY <2>2, MarkedDigit
    <2>5. b[i] % 128 = d
      <3>1. b[i] = d + 128 \/ b[i] = d
        BY <2>2, <2>3
      <3> QED
        BY <2>4, <3>1
    <2>6. b[i] < 128 <=> i = Size(n)
      BY <1>1, <2>1, <2>2, <2>3
    <2> QED
      BY <2>5, <2>6 DEF d
  <1>4. Size(n) \in ends
    BY <1>1, <1>3
  <1>5. ASSUME NEW j \in ends PROVE Size(n) <= j
    <2>1. j \in 1..5 /\ (j = 5 \/ b[j] < 128)
      OBVIOUS
    <2>2. CASE j < Size(n)
      <3>1. j \in 1..Size(n) /\ j # 5 /\ j # Size(n)
        BY <1>1, <2>1, <2>2
      <3> QED
        BY <1>3, <2>1, <3>1
    <2> QED
      BY <1>1, <2>1, <2>2
  <1>6. BytesRead(b) = CHOOSE i \in ends : \A j \in ends : i <= j
    BY DEF BytesRead
  <1>7. ends \subseteq Int
    OBVIOUS
  <1> HIDE DEF ends
  <1>8. BytesRead(b) \in ends /\ \A j \in ends : BytesRead(b) <= j
    BY <1>4, <1>5, <1>6
  <1>9. BytesRead(b) <= Size(n) /\ Size(n) <= BytesRead(b)
    BY <1>4, <1>5, <1>8
  <1>10. BytesRead(b) \in Int /\ Size(n) \in Int
    BY <1>4, <1>7, <1>8
  <1>11. BytesRead(b) = Size(n)
    BY <1>9, <1>10
  <1> QED
    BY <1>3, <1>11

(* The four digits, with the powers written out. *)
LEMMA DigitsOf ==
    ASSUME NEW n \in Nat
    PROVE  /\ VarintDigit(n, 1) = n % 128
           /\ VarintDigit(n, 2) = (n \div 128) % 128
           /\ VarintDigit(n, 3) = (n \div 16384) % 128
           /\ VarintDigit(n, 4) = (n \div 2097152) % 128
  BY SMT, Powers DEF VarintDigit

(* A number is the sum of its digits. *)
LEMMA FourDigits ==
    ASSUME NEW n \in Nat, n < 268435456
    PROVE  n = (n % 128) + ((n \div 128) % 128) * 128 + ((n \div 16384) % 128) * 16384
               + ((n \div 2097152) % 128) * 2097152
  BY SMT

(* String2Dword reads a proper integer back, from five bytes that begin    *)
(* with it.                                                                *)
LEMMA ReadVarint ==
    ASSUME NEW n \in Number, NEW b \in Seq(Byte), Len(b) = 5,
           \A i \in 1..Size(n) : b[i] = Varint(n)[i]
    PROVE  String2Dword(b) = [value |-> n, len |-> Size(n)]
  <1> DEFINE add(i) == ByteValue(b, i)
  <1>1. String2Dword(b) =
          [value |-> add(1) + add(2) + add(3) + add(4) + add(5), len |-> BytesRead(b)]
    BY Zenon DEF String2Dword
  <1>2. BytesRead(b) = Size(n) /\ \A i \in 1..Size(n) : b[i] % 128 = VarintDigit(n, i)
    BY BytesReadVarint
  <1>3. n \in Nat
    BY SMT DEF Number
  <1>4. \/ Size(n) = 1 /\ n < 128
        \/ Size(n) = 2 /\ n < 16384
        \/ Size(n) = 3 /\ n < 2097152
        \/ Size(n) = 4 /\ n < 268435456
    BY SMT, SizeOf
  <1>5. ASSUME NEW i \in 1..5
        PROVE  add(i) = IF i <= Size(n) THEN VarintDigit(n, i) * 128^(i - 1) ELSE 0
    BY SMT, <1>2, <1>4 DEF ByteValue
  <1> HIDE DEF add
  <1>6. /\ add(1) = IF 1 <= Size(n) THEN n % 128 ELSE 0
        /\ add(2) = IF 2 <= Size(n) THEN ((n \div 128) % 128) * 128 ELSE 0
        /\ add(3) = IF 3 <= Size(n) THEN ((n \div 16384) % 128) * 16384 ELSE 0
        /\ add(4) = IF 4 <= Size(n) THEN ((n \div 2097152) % 128) * 2097152 ELSE 0
    <2>1. /\ VarintDigit(n, 1) = n % 128
          /\ VarintDigit(n, 2) = (n \div 128) % 128
          /\ VarintDigit(n, 3) = (n \div 16384) % 128
          /\ VarintDigit(n, 4) = (n \div 2097152) % 128
      BY SMT, <1>3, DigitsOf
    <2>2. add(1) = IF 1 <= Size(n) THEN VarintDigit(n, 1) * 128^(1 - 1) ELSE 0
      BY <1>5
    <2>3. add(2) = IF 2 <= Size(n) THEN VarintDigit(n, 2) * 128^(2 - 1) ELSE 0
      BY <1>5
    <2>4. add(3) = IF 3 <= Size(n) THEN VarintDigit(n, 3) * 128^(3 - 1) ELSE 0
      BY <1>5
    <2>5. add(4) = IF 4 <= Size(n) THEN VarintDigit(n, 4) * 128^(4 - 1) ELSE 0
      BY <1>5
    <2> QED
      BY SMT, <1>3, <2>1, <2>2, <2>3, <2>4, <2>5, Powers
  <1>7. add(5) = 0
    BY SMT, <1>4, <1>5
  <1>8. add(1) + add(2) + add(3) + add(4) + add(5) = n
    <2>1. CASE Size(n) = 1
      BY SMT, <1>3, <1>4, <1>6, <1>7, <2>1
    <2>2. CASE Size(n) = 2
      BY SMT, <1>3, <1>4, <1>6, <1>7, <2>2
    <2>3. CASE Size(n) = 3
      BY SMTT(30), <1>3, <1>4, <1>6, <1>7, <2>3
    <2>4. CASE Size(n) = 4
      <3>1. n = (n % 128) + ((n \div 128) % 128) * 128 + ((n \div 16384) % 128) * 16384
                  + ((n \div 2097152) % 128) * 2097152
        BY SMT, <1>3, <1>4, <2>4, FourDigits
      <3>2. /\ add(1) = n % 128 /\ add(2) = ((n \div 128) % 128) * 128
            /\ add(3) = ((n \div 16384) % 128) * 16384
            /\ add(4) = ((n \div 2097152) % 128) * 2097152
        BY SMT, <1>6, <2>4
      <3> QED
        BY SMT, <1>3, <1>7, <3>1, <3>2
    <2> QED
      BY SMT, <1>4, <2>1, <2>2, <2>3, <2>4
  <1> QED
    BY <1>1, <1>2, <1>8

(***************************************************************************)
(* Packets, and the answers of the server.                                 *)
(***************************************************************************)

(* What UnPackHeader reads at a place of a packet. *)
ReadAt(pack, at) ==
    String2Dword(SubSeq(pack, at + 1, IF at + 5 < Len(pack) THEN at + 5 ELSE Len(pack)))

(* A proper integer inside a packet is read back if enough bytes follow. *)
LEMMA ReadInside ==
    ASSUME NEW n \in Number, NEW A \in Seq(Byte), NEW R \in Seq(Byte), Len(R) >= 6
    PROVE  ReadAt((A \o Varint(n)) \o R, Len(A)) = [value |-> n, len |-> Size(n)]
  <1> DEFINE V == Varint(n)
             p == (A \o V) \o R
             a == Len(A)
             b == SubSeq(p, a + 1, a + 5)
  <1>1. /\ V \in Seq(Byte) /\ Len(V) = Size(n) /\ Size(n) \in 1..4
        /\ a \in Nat /\ Len(R) \in Nat
    BY VarintBytes
  <1> HIDE DEF V
  <1>2. /\ A \o V \in Seq(Byte) /\ Len(A \o V) = a + Size(n)
        /\ \A i \in 1..Size(n) : (A \o V)[a + i] = V[i]
    BY <1>1, ConcatProperties
  <1>3. /\ p \in Seq(Byte) /\ Len(p) = a + Size(n) + Len(R)
        /\ \A i \in 1..Size(n) : p[a + i] = V[i]
    BY <1>1, <1>2, ConcatProperties
  <1> HIDE DEF p
  <1>4. a + 5 < Len(p) /\ Len(p) \in Nat
    BY <1>1, <1>3
  <1>5. \A i \in (a + 1)..(a + 5) : p[i] \in Byte
    <2>1. ASSUME NEW i \in (a + 1)..(a + 5) PROVE i \in 1..Len(p)
      BY <1>1, <1>4
    <2> QED
      BY <1>3, <2>1, ElementOfSeq
  <1>6. /\ b \in Seq(Byte) /\ Len(b) = 5
        /\ \A i \in 1..5 : b[i] = p[a + i]
    BY <1>1, <1>5, SubSeqProperties
  <1> HIDE DEF b
  <1>7. \A i \in 1..Size(n) : b[i] = V[i]
    <2>1. ASSUME NEW i \in 1..Size(n) PROVE i \in 1..5
      BY <1>1
    <2> QED
      BY <1>3, <1>6, <2>1
  <1>8. String2Dword(b) = [value |-> n, len |-> Size(n)]
    BY <1>6, <1>7, ReadVarint DEF V
  <1>9. ReadAt(p, a) = String2Dword(b)
    BY <1>4 DEF ReadAt, b
  <1> QED
    BY <1>8, <1>9 DEF p, V

(* What comes before the integers, with a and b in the two bytes that      *)
(* follow the mark, and what a reader finds there.                         *)
Front(mark, a, b, cookieLen) ==
    (IF mark = 1 THEN <<191>> ELSE <<>>) \o <<a, b>> \o Fill(8) \o Fill(cookieLen)

IsFront(H, mark, a, b, cookieLen) ==
    /\ H \in Seq(Byte) /\ Len(H) = mark + 10 + cookieLen
    /\ mark = 1 => H[1] = 191
    /\ H[mark + 1] = a
    /\ H[mark + 2] = b

(* What two byte strings in a row consist of. *)
LEMMA Joined ==
    ASSUME NEW A \in Seq(Byte), NEW B \in Seq(Byte)
    PROVE  /\ A \o B \in Seq(Byte) /\ Len(A \o B) = Len(A) + Len(B)
           /\ \A i \in 1..Len(A) : (A \o B)[i] = A[i]
           /\ \A i \in 1..Len(B) : (A \o B)[Len(A) + i] = B[i]
  <1>1. /\ A \o B \in Seq(Byte) /\ Len(A \o B) = Len(A) + Len(B)
        /\ \A i \in 1..(Len(A) + Len(B)) :
              (A \o B)[i] = IF i <= Len(A) THEN A[i] ELSE B[i - Len(A)]
    BY ConcatProperties
  <1>2. Len(A) \in Nat /\ Len(B) \in Nat
    BY LenProperties
  <1>3. ASSUME NEW i \in 1..Len(A) PROVE i \in 1..(Len(A) + Len(B)) /\ i <= Len(A)
    BY <1>2
  <1>4. ASSUME NEW i \in 1..Len(B)
        PROVE  /\ Len(A) + i \in 1..(Len(A) + Len(B)) /\ ~(Len(A) + i <= Len(A))
               /\ (Len(A) + i) - Len(A) = i
    BY <1>2
  <1>5. \A i \in 1..Len(A) : (A \o B)[i] = A[i]
    BY <1>1, <1>3
  <1>6. \A i \in 1..Len(B) : (A \o B)[Len(A) + i] = B[i]
    BY <1>1, <1>4
  <1> QED
    BY <1>1, <1>5, <1>6

(* A block of filler. *)
LEMMA FillBytes ==
    ASSUME NEW n \in Nat
    PROVE  Fill(n) \in Seq(Byte) /\ Len(Fill(n)) = n
  BY DEF Fill, Byte

(* What is before the integers is found where it was put. *)
LEMMA FrontBytes ==
    ASSUME NEW mark \in {0, 1}, NEW a \in Byte, NEW b \in Byte, NEW cookieLen \in {0, 15}
    PROVE  IsFront(Front(mark, a, b, cookieLen), mark, a, b, cookieLen)
  <1> DEFINE M == IF mark = 1 THEN <<191>> ELSE <<>>
             P == <<a, b>>
             F == Fill(8)
             C == Fill(cookieLen)
  <1>2. P \in Seq(Byte) /\ Len(P) = 2 /\ P[1] = a /\ P[2] = b
    OBVIOUS
  <1>3. M \in Seq(Byte) /\ Len(M) = mark /\ (mark = 1 => M[1] = 191)
    <2>1. CASE mark = 1
      <3>1. M = <<191>> /\ 191 \in Byte
        BY <2>1 DEF Byte
      <3> QED
        BY <2>1, <3>1
    <2>2. CASE mark = 0
      <3>1. M = <<>>
        BY <2>2
      <3> QED
        BY <2>2, <3>1
    <2> QED
      BY <2>1, <2>2
  <1>4. F \in Seq(Byte) /\ Len(F) = 8 /\ C \in Seq(Byte) /\ Len(C) = cookieLen
    BY DEF Fill, Byte
  <1> HIDE DEF M, P, F, C
  <1>5. /\ M \o P \in Seq(Byte) /\ Len(M \o P) = mark + 2
        /\ (M \o P)[mark + 1] = a /\ (M \o P)[mark + 2] = b
        /\ mark = 1 => (M \o P)[1] = 191
    <2>1. /\ M \o P \in Seq(Byte) /\ Len(M \o P) = Len(M) + Len(P)
          /\ \A i \in 1..Len(M) : (M \o P)[i] = M[i]
          /\ \A i \in 1..Len(P) : (M \o P)[Len(M) + i] = P[i]
      <3>1. M \in Seq(Byte) /\ P \in Seq(Byte)
        BY <1>2, <1>3
      <3> QED
        BY <3>1, Joined
    <2>2. Len(M) = mark /\ Len(P) = 2 /\ 1 \in 1..2 /\ 2 \in 1..2
      BY <1>2, <1>3
    <2>3. (M \o P)[mark + 1] = P[1] /\ (M \o P)[mark + 2] = P[2]
      BY <2>1, <2>2
    <2>4. mark = 1 => (M \o P)[1] = M[1]
      BY <2>1, <2>2
    <2> QED
      BY <1>2, <1>3, <2>1, <2>2, <2>3, <2>4
  <1> DEFINE N == M \o P
  <1>6. /\ N \in Seq(Byte) /\ Len(N) = mark + 2
        /\ N[mark + 1] = a /\ N[mark + 2] = b
        /\ mark = 1 => N[1] = 191
    BY <1>5
  <1> HIDE DEF N
  <1>7. /\ N \o F \in Seq(Byte) /\ Len(N \o F) = mark + 10
        /\ \A i \in 1..(mark + 2) : (N \o F)[i] = N[i]
    <2>1. /\ N \o F \in Seq(Byte) /\ Len(N \o F) = Len(N) + Len(F)
          /\ \A i \in 1..Len(N) : (N \o F)[i] = N[i]
      <3>1. N \in Seq(Byte) /\ F \in Seq(Byte)
        BY <1>4, <1>6
      <3> QED
        BY <3>1, Joined
    <2> QED
      BY <1>4, <1>6, <2>1
  <1> DEFINE K == N \o F
  <1>8. K \in Seq(Byte) /\ Len(K) = mark + 10 /\ \A i \in 1..(mark + 2) : K[i] = N[i]
    BY <1>7
  <1> HIDE DEF K
  <1>9. /\ K \o C \in Seq(Byte) /\ Len(K \o C) = mark + 10 + cookieLen
        /\ \A i \in 1..(mark + 2) : (K \o C)[i] = N[i]
    <2>1. /\ K \o C \in Seq(Byte) /\ Len(K \o C) = mark + 10 + cookieLen
          /\ \A i \in 1..(mark + 10) : (K \o C)[i] = K[i]
      <3>1. /\ K \o C \in Seq(Byte) /\ Len(K \o C) = Len(K) + Len(C)
            /\ \A i \in 1..Len(K) : (K \o C)[i] = K[i]
        BY <1>4, <1>8, Joined
      <3> QED
        BY <1>4, <1>8, <3>1
    <2>2. \A i \in 1..(mark + 2) : i \in 1..(mark + 10)
      OBVIOUS
    <2> QED
      BY <1>8, <2>1, <2>2
  <1>10. Front(mark, a, b, cookieLen) = K \o C
    BY DEF Front, K, N, M, P, F, C
  <1>11. /\ mark = 1 => (K \o C)[1] = 191
         /\ (K \o C)[mark + 1] = a /\ (K \o C)[mark + 2] = b
    BY SMTT(30), <1>6, <1>9
  <1> QED
    BY <1>9, <1>10, <1>11 DEF IsFront

(* What follows a header of known length. *)
LEMMA Suffix ==
    ASSUME NEW A \in Seq(Byte), NEW B \in Seq(Byte)
    PROVE  SubSeq(A \o B, Len(A) + 1, Len(A \o B)) = B
  <1> DEFINE p == A \o B
             a == Len(A)
             b == Len(B)
             t == SubSeq(p, a + 1, a + b)
  <1>1. /\ p \in Seq(Byte) /\ Len(p) = a + b
        /\ \A i \in 1..b : p[a + i] = B[i]
    BY Joined
  <1>2. a \in Nat /\ b \in Nat
    BY LenProperties
  <1> HIDE DEF p
  <1>3. ASSUME NEW i \in (a + 1)..(a + b) PROVE p[i] \in Byte
    <2>1. i \in 1..Len(p)
      BY <1>1, <1>2
    <2> QED
      BY <1>1, <2>1, ElementOfSeq
  <1> HIDE DEF a, b
  <1>4. /\ t \in Seq(Byte)
        /\ Len(t) = IF a + 1 <= a + b THEN (a + b) - (a + 1) + 1 ELSE 0
        /\ \A i \in 1..((a + b) - (a + 1) + 1) : t[i] = p[(a + 1) + i - 1]
    <2>1. a + 1 \in Int /\ a + b \in Int
      BY <1>2
    <2> QED
      BY <1>3, <2>1, SubSeqProperties
  <1> HIDE DEF t
  <1>5. Len(t) = b /\ (a + b) - (a + 1) + 1 = b
    BY <1>2, <1>4
  <1>6. ASSUME NEW i \in 1..b PROVE t[i] = B[i]
    <2>1. (a + 1) + i - 1 = a + i
      BY <1>2
    <2>2. t[i] = p[(a + 1) + i - 1]
      BY <1>4, <1>5
    <2> QED
      BY <1>1, <2>1, <2>2
  <1>7. t = B
    <2>1. t \in Seq(Byte) /\ Len(t) = Len(B) /\ \A i \in 1..Len(t) : t[i] = B[i]
      BY <1>4, <1>5, <1>6 DEF b
    <2> QED
      BY <2>1, SeqEqual
  <1>8. SubSeq(p, a + 1, Len(p)) = t
    BY <1>1 DEF t
  <1> QED
    BY <1>7, <1>8 DEF p, a

(* An answer, in the order in which it is put together. *)
Packed(H, c, p, z, F, B) == ((H \o ((c \o p) \o z)) \o F) \o B

(* The same packet seen from each of its integers. *)
Regrouped(H, c, p, z, F, B) ==
    /\ Packed(H, c, p, z, F, B) = (((H \o c) \o p) \o z) \o (F \o B)
    /\ Packed(H, c, p, z, F, B) = ((H \o c) \o p) \o (z \o (F \o B))
    /\ Packed(H, c, p, z, F, B) = (H \o c) \o (p \o (z \o (F \o B)))
    /\ Packed(H, c, p, z, F, B) = H \o (c \o (p \o (z \o (F \o B))))

(* Concatenation is associative. *)
Associates(s, t, u) == (s \o t) \o u = s \o (t \o u)

LEMMA Associative ==
    ASSUME NEW s \in Seq(Byte), NEW t \in Seq(Byte), NEW u \in Seq(Byte)
    PROVE  Associates(s, t, u)
  BY ConcatAssociative DEF Associates

(* The packet can be cut before and behind each of its integers. *)
LEMMA PackParts ==
    ASSUME NEW H \in Seq(Byte), NEW c \in Seq(Byte), NEW p \in Seq(Byte), NEW z \in Seq(Byte),
           NEW F \in Seq(Byte), NEW B \in Seq(Byte)
    PROVE  Regrouped(H, c, p, z, F, B)
  <1> DEFINE T == F \o B
             Hc == H \o c
             Hcp == Hc \o p
             Hcpz == Hcp \o z
             cp == c \o p
             zT == z \o T
             pzT == p \o zT
  <1>1. cp \in Seq(Byte) /\ Hc \in Seq(Byte) /\ T \in Seq(Byte)
    BY Joined
  <1>2. Hcp \in Seq(Byte) /\ zT \in Seq(Byte)
    BY <1>1, Joined
  <1>3. Hcpz \in Seq(Byte) /\ pzT \in Seq(Byte)
    BY <1>2, Joined
  <1> HIDE DEF T, Hc, Hcp, Hcpz, cp, zT, pzT
  <1>4. /\ Associates(H, c, p)
        /\ Associates(H, cp, z)
        /\ Associates(Hcpz, F, B)
        /\ Associates(Hcp, z, T)
        /\ Associates(Hc, p, zT)
        /\ Associates(H, c, pzT)
    BY <1>1, <1>2, <1>3, Associative
  <1>5. H \o (cp \o z) = Hcpz
    BY Zenon, <1>4 DEF Associates, Hc, Hcp, Hcpz, cp
  <1>6. Packed(H, c, p, z, F, B) = (Hcpz \o F) \o B
    BY Zenon, <1>5 DEF Packed, cp
  <1>7. /\ (Hcpz \o F) \o B = Hcpz \o T
        /\ Hcpz \o T = Hcp \o zT
        /\ Hcp \o zT = Hc \o pzT
        /\ Hc \o pzT = H \o (c \o pzT)
    BY Zenon, <1>4 DEF Associates, T, Hc, Hcp, Hcpz, zT, pzT
  <1> QED
    BY Zenon, <1>6, <1>7 DEF Regrouped, T, Hc, Hcp, Hcpz, zT, pzT

(* The three kinds of requests. *)
Kinds == {"Base", "ManualAuth", "Bind"}

(* A packet whose integers are proper ones, and what UnPackHeader makes of *)
(* it when its first bytes are right.                                      *)
Packet(mark, a, b, cookieLen, cgi, pb, zip, F) ==
    Packed(Front(mark, a, b, cookieLen), Varint(cgi), Varint(pb), Varint(zip), F, Body)

ReadBack(kind, mark, a, b, cookieLen, cgi, pb, zip, F) ==
    UnPackHeader(kind, Packet(mark, a, b, cookieLen, cgi, pb, zip, F)) =
      [body |-> Body, compressed |-> a % 4 = 1, nCookieLen |-> cookieLen,
       cgi |-> cgi, pb |-> pb, zip |-> zip]

(* The first bytes are right: no unmarked packet looks like a marked one,  *)
(* and the lengths of cookie and header are true.                          *)
FrontFits(mark, a, b, cookieLen, cgi, pb, zip, tail) ==
    /\ a # 191
    /\ b % 16 = cookieLen
    /\ a \div 4 = mark + 10 + cookieLen + (Size(cgi) + Size(pb) + Size(zip)) + tail

(* UnPackHeader reads back a packet with proper integers and right first   *)
(* bytes.                                                                  *)
LEMMA PacketRead ==
    ASSUME NEW kind \in Kinds, NEW mark \in {0, 1}, NEW a \in Byte, NEW b \in Byte,
           NEW cookieLen \in {0, 15}, NEW tail \in 0..15, NEW F \in Seq(Byte), Len(F) = tail,
           NEW cgi \in Number, NEW pb \in Number, NEW zip \in Number,
           FrontFits(mark, a, b, cookieLen, cgi, pb, zip, tail)
    PROVE  ReadBack(kind, mark, a, b, cookieLen, cgi, pb, zip, F)
  <1> DEFINE c == Varint(cgi)
             p == Varint(pb)
             z == Varint(zip)
             ints == (c \o p) \o z
             H == Front(mark, a, b, cookieLen)
             T == F \o Body
             zT == z \o T
             pzT == p \o zT
             Hc == H \o c
             Hcp == Hc \o p
             pack == ((H \o ints) \o F) \o Body
  <1>1. pack = Packet(mark, a, b, cookieLen, cgi, pb, zip, F)
    BY Zenon DEF Packet, Packed
  <1>2. /\ c \in Seq(Byte) /\ Len(c) = Size(cgi) /\ Size(cgi) \in 1..4
        /\ p \in Seq(Byte) /\ Len(p) = Size(pb) /\ Size(pb) \in 1..4
        /\ z \in Seq(Byte) /\ Len(z) = Size(zip) /\ Size(zip) \in 1..4
    BY VarintBytes
  <1> HIDE DEF c, p, z
  <1>3. /\ F \in Seq(Byte) /\ Len(F) = tail /\ Body \in Seq(Byte) /\ Len(Body) = 16
    <2>1. Body \in Seq(Byte) /\ Len(Body) = 16
      BY DEF Body, Byte
    <2> QED
      BY <2>1
  <1>4. ints \in Seq(Byte) /\ Len(ints) = Size(cgi) + Size(pb) + Size(zip)
    <2>1. c \o p \in Seq(Byte) /\ Len(c \o p) = Len(c) + Len(p)
      BY <1>2, Joined
    <2> DEFINE cp == c \o p
    <2>2. cp \in Seq(Byte) /\ Len(cp) = Len(c) + Len(p)
      BY <2>1
    <2> HIDE DEF cp
    <2>3. cp \o z \in Seq(Byte) /\ Len(cp \o z) = Len(cp) + Len(z)
      BY <1>2, <2>2, Joined
    <2> QED
      BY <1>2, <2>2, <2>3 DEF cp
  <1> HIDE DEF ints
  <1>6. /\ H \in Seq(Byte) /\ Len(H) = mark + 10 + cookieLen
        /\ H[1] = 191 <=> mark = 1
        /\ H[mark + 1] = a
        /\ H[mark + 2] = b
    <2>1. IsFront(H, mark, a, b, cookieLen)
      BY Zenon, FrontBytes
    <2> HIDE DEF H
    <2>2. /\ H \in Seq(Byte) /\ Len(H) = mark + 10 + cookieLen
          /\ mark = 1 => H[1] = 191
          /\ H[mark + 1] = a /\ H[mark + 2] = b
      BY Zenon, <2>1 DEF IsFront
    <2>3. H[1] = 191 <=> mark = 1
      <3>1. CASE mark = 1
        BY <2>2, <3>1
      <3>2. CASE mark = 0
        <4>1. H[1] = a /\ a # 191
          BY <2>2, <3>2 DEF FrontFits
        <4> QED
          BY <3>2, <4>1
      <3> QED
        BY <3>1, <3>2
    <2> QED
      BY <2>2, <2>3
  <1> HIDE DEF H
  <1>7. /\ pack = (Hcp \o z) \o T /\ pack = Hcp \o zT
        /\ pack = Hc \o pzT /\ pack = H \o (c \o pzT)
    <2>1. /\ H \in Seq(Byte) /\ c \in Seq(Byte) /\ p \in Seq(Byte) /\ z \in Seq(Byte)
          /\ F \in Seq(Byte) /\ Body \in Seq(Byte)
      BY <1>2, <1>3, <1>6
    <2> QED
      <3>1. pack = Packed(H, c, p, z, F, Body)
        BY DEF ints, Packed
      <3> HIDE DEF pack
      <3>2. Regrouped(H, c, p, z, F, Body)
        BY Zenon, <2>1, PackParts
      <3> QED
        BY Zenon, <3>1, <3>2 DEF Regrouped
  <1> HIDE DEF pack
  <1>8. T \in Seq(Byte) /\ Len(T) = tail + 16
    <2>1. T \in Seq(Byte) /\ Len(T) = Len(F) + Len(Body)
      BY Zenon, <1>3, Joined
    <2> QED
      BY <1>3, <2>1
  <1> HIDE DEF T
  <1>9. /\ zT \in Seq(Byte) /\ Len(zT) = Size(zip) + (tail + 16)
        /\ Hc \in Seq(Byte) /\ Len(Hc) = Len(H) + Size(cgi)
    <2>1. /\ zT \in Seq(Byte) /\ Len(zT) = Len(z) + Len(T)
          /\ Hc \in Seq(Byte) /\ Len(Hc) = Len(H) + Len(c)
      <3>1. /\ z \in Seq(Byte) /\ T \in Seq(Byte)
            /\ H \in Seq(Byte) /\ c \in Seq(Byte)
        BY <1>2, <1>6, <1>8
      <3>2. zT \in Seq(Byte) /\ Len(zT) = Len(z) + Len(T)
        BY Zenon, <3>1, Joined
      <3>3. Hc \in Seq(Byte) /\ Len(Hc) = Len(H) + Len(c)
        BY Zenon, <3>1, Joined
      <3> QED
        BY <3>2, <3>3
    <2> QED
      BY <1>2, <1>8, <2>1
  <1>10. pack = (Hcp \o z) \o T
    BY <1>7
  <1> HIDE DEF zT
  <1>11. pzT \in Seq(Byte) /\ Len(pzT) = Size(pb) + (Size(zip) + (tail + 16))
    <2>1. p \in Seq(Byte) /\ zT \in Seq(Byte)
      BY <1>2, <1>9
    <2>2. pzT \in Seq(Byte) /\ Len(pzT) = Len(p) + Len(zT)
      BY Zenon, <2>1, Joined
    <2> QED
      BY <1>2, <1>9, <2>2
  <1> HIDE DEF pzT, Hc
  <1>12. Hcp \in Seq(Byte) /\ Len(Hcp) = Len(Hc) + Size(pb)
    <2>1. Hc \in Seq(Byte) /\ p \in Seq(Byte)
      BY <1>2, <1>9
    <2>2. Hcp \in Seq(Byte) /\ Len(Hcp) = Len(Hc) + Len(p)
      BY Zenon, <2>1, Joined
    <2> QED
      BY <1>2, <2>2
  <1> HIDE DEF Hcp
  <1>13. ReadAt(pack, Len(H)) = [value |-> cgi, len |-> Size(cgi)]
    <2>1. pack = (H \o Varint(cgi)) \o pzT
      BY <1>7 DEF Hc, c
    <2>2. Len(pzT) >= 6
      BY <1>2, <1>11
    <2> QED
      BY <1>6, <1>11, <2>1, <2>2, ReadInside
  <1>14. ReadAt(pack, Len(Hc)) = [value |-> pb, len |-> Size(pb)]
    <2>1. pack = (Hc \o Varint(pb)) \o zT
      BY <1>7 DEF Hcp, p
    <2>2. Len(zT) >= 6
      BY SMTT(30), <1>2, <1>9
    <2> QED
      BY <1>9, <2>1, <2>2, ReadInside
  <1>15. ReadAt(pack, Len(Hcp)) = [value |-> zip, len |-> Size(zip)]
    <2>1. pack = (Hcp \o Varint(zip)) \o T
      BY <1>10 DEF z
    <2>2. Len(T) >= 6
      BY <1>8
    <2> QED
      BY <1>8, <1>12, <2>1, <2>2, ReadInside
  <1>16. /\ pack[1] = H[1] /\ pack[mark + 1] = H[mark + 1] /\ pack[mark + 2] = H[mark + 2]
    <2> DEFINE R == c \o pzT
    <2>1. R \in Seq(Byte)
      BY <1>2, <1>11, Joined
    <2> HIDE DEF R
    <2>2. \A i \in 1..Len(H) : (H \o R)[i] = H[i]
      BY <1>6, <2>1, Joined
    <2>3. 1 \in 1..Len(H) /\ mark + 1 \in 1..Len(H) /\ mark + 2 \in 1..Len(H)
      BY <1>6
    <2>4. pack = H \o R
      BY <1>7 DEF R
    <2> QED
      BY <2>2, <2>3, <2>4
  <1>17. SubSeq(pack, a \div 4 + 1, Len(pack)) = Body
    <2> DEFINE G == H \o ints
               A == G \o F
    <2>1. G \in Seq(Byte) /\ Len(G) = Len(H) + Len(ints)
      BY <1>4, <1>6, Joined
    <2>2. pack = A \o Body
      BY DEF pack
    <2> HIDE DEF G
    <2>3. A \in Seq(Byte) /\ Len(A) = Len(G) + Len(F)
      BY <1>3, <2>1, Joined
    <2> HIDE DEF A
    <2>4. Len(A) = a \div 4
      <3>1. Len(A) = mark + 10 + cookieLen + (Size(cgi) + Size(pb) + Size(zip)) + tail
        BY <1>3, <1>4, <1>6, <2>1, <2>3
      <3> QED
        BY Zenon, <3>1 DEF FrontFits
    <2>5. SubSeq(A \o Body, Len(A) + 1, Len(A \o Body)) = Body
      BY <1>3, <2>3, Suffix
    <2> QED
      BY <2>2, <2>4, <2>5
  <1> DEFINE mk == IF pack[1] = 191 THEN 1 ELSE 0
             nc == pack[mk + 2] % 16
             cgiAt == mk + 10 + CookieSkip(kind, nc)
             pbAt == cgiAt + ReadAt(pack, cgiAt).len
             zipAt == pbAt + ReadAt(pack, pbAt).len
  <1>19. UnPackHeader(kind, pack) =
           [body |-> SubSeq(pack, pack[mk + 1] \div 4 + 1, Len(pack)),
            compressed |-> pack[mk + 1] % 4 = 1,
            nCookieLen |-> nc,
            cgi |-> ReadAt(pack, cgiAt).value,
            pb |-> ReadAt(pack, pbAt).value,
            zip |-> ReadAt(pack, zipAt).value]
    BY Zenon DEF UnPackHeader, ReadAt
  <1>20. mk = mark
    BY <1>6, <1>16
  <1> HIDE DEF mk
  <1>21. nc = cookieLen
    <2>1. b % 16 = cookieLen
      BY Zenon DEF FrontFits
    <2> QED
      BY Zenon, <1>6, <1>16, <1>20, <2>1
  <1> HIDE DEF nc
  <1>22. CookieSkip(kind, cookieLen) = cookieLen
    BY DEF CookieSkip, Kinds
  <1>23. cgiAt = Len(H)
    BY <1>6, <1>20, <1>21, <1>22
  <1> HIDE DEF cgiAt
  <1>24. pbAt = Len(Hc)
    BY <1>9, <1>13, <1>23
  <1> HIDE DEF pbAt
  <1>25. zipAt = Len(Hcp)
    BY <1>12, <1>14, <1>24
  <1> HIDE DEF zipAt
  <1>26. /\ ReadAt(pack, cgiAt).value = cgi /\ ReadAt(pack, pbAt).value = pb
         /\ ReadAt(pack, zipAt).value = zip
    BY <1>13, <1>14, <1>15, <1>23, <1>24, <1>25
  <1>27. pack[mk + 1] = a
    BY <1>6, <1>16, <1>20
  <1>28. SubSeq(pack, pack[mk + 1] \div 4 + 1, Len(pack)) = Body
    BY <1>17, <1>27
  <1> QED
    BY <1>1, <1>19, <1>21, <1>26, <1>27, <1>28 DEF ReadBack

(* How a server marks a body that is not compressed, and one that is. *)
Flag(pb, zip) == IF pb = zip THEN 2 ELSE 1

(* An answer is read as the server meant it. *)
Understood(kind, mark, cookieLen, cgi, pb, zip) ==
    UnPackHeader(kind, ServerPack(mark, cookieLen, cgi, pb, zip)) =
      [body |-> Body, compressed |-> pb # zip, nCookieLen |-> cookieLen,
       cgi |-> cgi, pb |-> pb, zip |-> zip]

(* The length of three proper integers. *)
LEMMA VarintsLength ==
    ASSUME NEW cgi \in Number, NEW pb \in Number, NEW zip \in Number
    PROVE  /\ Len(Varint(cgi) \o Varint(pb) \o Varint(zip)) = Size(cgi) + Size(pb) + Size(zip)
           /\ Size(cgi) + Size(pb) + Size(zip) \in 3..12
  <1> DEFINE c == Varint(cgi)
             p == Varint(pb)
             z == Varint(zip)
             cp == c \o p
  <1>1. /\ c \in Seq(Byte) /\ Len(c) = Size(cgi) /\ Size(cgi) \in 1..4
        /\ p \in Seq(Byte) /\ Len(p) = Size(pb) /\ Size(pb) \in 1..4
        /\ z \in Seq(Byte) /\ Len(z) = Size(zip) /\ Size(zip) \in 1..4
    BY VarintBytes
  <1> HIDE DEF c, p, z
  <1>2. cp \in Seq(Byte) /\ Len(cp) = Len(c) + Len(p)
    BY <1>1, Joined
  <1> HIDE DEF cp
  <1>3. Len(cp \o z) = Len(cp) + Len(z)
    BY <1>1, <1>2, Joined
  <1>4. Len(cp \o z) = Size(cgi) + Size(pb) + Size(zip)
    BY <1>1, <1>2, <1>3
  <1>5. Size(cgi) + Size(pb) + Size(zip) \in 3..12
    <2> DEFINE i == Size(cgi)
               j == Size(pb)
               k == Size(zip)
    <2>1. i \in 1..4 /\ j \in 1..4 /\ k \in 1..4
      BY <1>1
    <2> HIDE DEF i, j, k
    <2>2. i + j + k \in 3..12
      BY <2>1
    <2> QED
      BY <2>2 DEF i, j, k
  <1> QED
    BY <1>4, <1>5 DEF cp, c, p, z

(* Every answer of the server is a packet with right first bytes: it is    *)
(* read back.                                                              *)
LEMMA AnswerRead ==
    ASSUME NEW kind \in Kinds, NEW mark \in {0, 1}, NEW cookieLen \in {0, 15},
           NEW cgi \in Number, NEW pb \in Number, NEW zip \in Number
    PROVE  Understood(kind, mark, cookieLen, cgi, pb, zip)
  <1> DEFINE l == Size(cgi) + Size(pb) + Size(zip)
             size == mark + 10 + cookieLen + l + 6
             a == Flag(pb, zip) + 4 * size
             b == 16 * 5 + cookieLen
  <1>1. l \in 3..12 /\ Len(Varint(cgi) \o Varint(pb) \o Varint(zip)) = l
    BY VarintsLength
  <1>2. ServerPack(mark, cookieLen, cgi, pb, zip)
          = Packet(mark, a, b, cookieLen, cgi, pb, zip, Fill(6))
    BY ZenonT(40), <1>1 DEF ServerPack, Packet, Packed, Front, Flag
  <1> HIDE DEF l
  <1>3. size \in 0..50 /\ size = mark + 10 + cookieLen + l + 6
    BY <1>1
  <1> HIDE DEF size
  <1>4. /\ a \in Byte /\ a # 191 /\ a \div 4 = size
        /\ a % 4 = 1 <=> pb # zip
    <2>1. CASE pb = zip
      BY <1>3, <2>1 DEF Flag, Byte
    <2>2. CASE pb # zip
      BY <1>3, <2>2 DEF Flag, Byte
    <2> QED
      BY <2>1, <2>2
  <1>5. b \in Byte /\ b % 16 = cookieLen
    BY DEF Byte
  <1> HIDE DEF a, b
  <1>6. a \div 4 = mark + 10 + cookieLen + (Size(cgi) + Size(pb) + Size(zip)) + 6
    BY Zenon, <1>3, <1>4 DEF l
  <1>7. 6 \in 0..15 /\ Fill(6) \in Seq(Byte) /\ Len(Fill(6)) = 6
    <2>1. 6 \in Nat /\ 6 \in 0..15
      OBVIOUS
    <2> QED
      BY Zenon, <2>1, FillBytes
  <1>8. ReadBack(kind, mark, a, b, cookieLen, cgi, pb, zip, Fill(6))
    <2>1. FrontFits(mark, a, b, cookieLen, cgi, pb, zip, 6)
      BY Zenon, <1>4, <1>5, <1>6 DEF FrontFits
    <2> QED
      <3>1. a \in Byte /\ b \in Byte
        BY <1>4, <1>5
      <3> QED
        BY ZenonT(40), <1>7, <2>1, <3>1, PacketRead
  <1>9. (a % 4 = 1) = (pb # zip)
    BY Zenon, <1>4
  <1> QED
    BY Zenon, <1>2, <1>8, <1>9 DEF Understood, ReadBack

(***************************************************************************)
(* Requests.                                                               *)
(***************************************************************************)

(* What Dword2String knows between two divisions. *)
Acc == [data : Nat, hex : [0..4 -> Byte], len : Nat]

(* A division keeps the digits bytes and counts itself at most once. *)
LEMMA StepKeepsAcc ==
    ASSUME NEW acc \in Acc, NEW k \in 1..4
    PROVE  /\ DigitStep(acc, k) \in Acc
           /\ DigitStep(acc, k).len = acc.len \/ DigitStep(acc, k).len = acc.len + 1
  <1> DEFINE pw == 128^k
             q == acc.data \div pw
  <1>1. acc.data \in Nat /\ acc.hex \in [0..4 -> Byte] /\ acc.len \in Nat
    BY DEF Acc
  <1>2. pw \in Nat \ {0}
    <2>1. k + 1 \in 1..5 /\ (k + 1) - 1 = k
      OBVIOUS
    <2>2. 128^((k + 1) - 1) \in Nat \ {0}
      BY <2>1, PowerOf
    <2> QED
      BY <2>1, <2>2
  <1>3. DigitStep(acc, k) =
          IF acc.data > pw
          THEN [data |-> acc.data % pw, hex |-> [acc.hex EXCEPT ![k] = q % 256],
                len |-> acc.len + 1]
          ELSE acc
    BY Zenon DEF DigitStep
  <1> HIDE DEF pw
  <1>4. q \in Nat /\ acc.data % pw \in Nat
    BY <1>1, <1>2
  <1> HIDE DEF q
  <1>5. q % 256 \in Byte
    BY <1>4 DEF Byte
  <1>6. [acc.hex EXCEPT ![k] = q % 256] \in [0..4 -> Byte]
    BY <1>1, <1>5
  <1> QED
    BY <1>1, <1>3, <1>4, <1>6 DEF Acc

(* Dword2String writes one to five bytes, for every number. *)
LEMMA DwordBytes ==
    ASSUME NEW n \in Nat
    PROVE  Dword2String(n) \in Seq(Byte) /\ Len(Dword2String(n)) \in 1..5
  <1> DEFINE a0 == [data |-> n, hex |-> [i \in 0..4 |-> 0], len |-> 0]
             a1 == DigitStep(a0, 4)
             a2 == DigitStep(a1, 3)
             a3 == DigitStep(a2, 2)
             a4 == DigitStep(a3, 1)
             hex == [a4.hex EXCEPT ![0] = a4.data % 256]
             L == a4.len + 1
  <1>1. Dword2String(n) = [i \in 1..L |-> (hex[i - 1] + (IF i < L THEN 128 ELSE 0)) % 256]
    BY Zenon DEF Dword2String
  <1>2. a0 \in Acc /\ a0.len = 0
    BY DEF Acc, Byte
  <1> HIDE DEF a0
  <1>3. a1 \in Acc /\ a1.len \in 0..1
    BY <1>2, StepKeepsAcc
  <1> HIDE DEF a1
  <1>4. a2 \in Acc /\ a2.len \in 0..2
    BY <1>3, StepKeepsAcc
  <1> HIDE DEF a2
  <1>5. a3 \in Acc /\ a3.len \in 0..3
    BY <1>4, StepKeepsAcc
  <1> HIDE DEF a3
  <1>6. a4 \in Acc /\ a4.len \in 0..4
    BY <1>5, StepKeepsAcc
  <1> HIDE DEF a4
  <1>7. L \in 1..5
    BY <1>6
  <1>8. a4.data \in Nat /\ a4.hex \in [0..4 -> Byte]
    BY <1>6 DEF Acc
  <1>9. a4.data % 256 \in Byte
    BY <1>8 DEF Byte
  <1>10. hex \in [0..4 -> Byte]
    BY <1>8, <1>9
  <1> HIDE DEF hex, L
  <1>11. ASSUME NEW i \in 1..L
         PROVE  (hex[i - 1] + (IF i < L THEN 128 ELSE 0)) % 256 \in Byte
    <2>1. i - 1 \in 0..4
      BY <1>7
    <2>2. hex[i - 1] \in Byte
      BY <1>10, <2>1
    <2>3. hex[i - 1] + (IF i < L THEN 128 ELSE 0) \in Nat
      BY <1>7, <2>2 DEF Byte
    <2> QED
      BY <2>3 DEF Byte
  <1> QED
    BY <1>1, <1>7, <1>11

(* The sizes in the three headers. *)
LEMMA LayoutOf ==
    ASSUME NEW kind \in Kinds
    PROVE  /\ Layout[kind].mark \in {0, 1} /\ Layout[kind].cookie \in {0, 15}
           /\ Layout[kind].tail \in 0..15 /\ Layout[kind].crypt \in 0..7
  BY DEF Layout, Kinds

(* What follows the integers of a request begins with a zero, or with      *)
(* LOGIN_RSA_VER and a one.                                                *)
TrailerBegins(F) == F[1] = 0 \/ (F[1] = 158 /\ F[2] = 1)

LEMMA TrailerBytes ==
    ASSUME NEW kind \in Kinds
    PROVE  /\ Trailer(kind) \in Seq(Byte) /\ Len(Trailer(kind)) = Layout[kind].tail
           /\ Layout[kind].tail \in 3..15 /\ TrailerBegins(Trailer(kind))
  <1> DEFINE tail == Layout[kind].tail
             e(i) == IF kind = "Base" \/ i > 3 THEN 0 ELSE <<158, 1, 2>>[i]
             F == [i \in 1..tail |-> e(i)]
  <1>1. Trailer(kind) = F
    BY Zenon DEF Trailer
  <1>2. tail \in 3..15
    BY DEF Layout, Kinds
  <1>3. /\ e(1) = IF kind = "Base" THEN 0 ELSE 158
        /\ e(2) = IF kind = "Base" THEN 0 ELSE 1
        /\ e(3) = IF kind = "Base" THEN 0 ELSE 2
    OBVIOUS
  <1>4. ASSUME NEW i \in 1..tail PROVE e(i) \in Byte
    <2>1. i = 1 \/ i = 2 \/ i = 3 \/ i > 3
      BY <1>2
    <2>2. CASE i > 3
      BY <2>2 DEF Byte
    <2> QED
      BY <1>3, <2>1, <2>2 DEF Byte
  <1> HIDE DEF e, tail
  <1>5. F \in Seq(Byte) /\ Len(F) = tail
    BY <1>2, <1>4
  <1>6. F[1] = e(1) /\ F[2] = e(2)
    BY <1>2
  <1>7. TrailerBegins(F)
    BY <1>3, <1>6 DEF TrailerBegins
  <1> QED
    BY Zenon, <1>1, <1>2, <1>5, <1>7 DEF tail

(* A header is at most 56 bytes, so that its length fits in six bits; and  *)
(* the bytes counted are those written.                                    *)
LEMMA RequestLength ==
    ASSUME NEW kind \in Kinds, NEW cgi \in Nat, NEW pb \in Nat, NEW zip \in Nat,
           kind = "Base" => m_cookie = 15
    PROVE  MakeHeader(kind, cgi, pb, zip)[Layout[kind].mark + 1] \div 4
             = Len(MakeHeader(kind, cgi, pb, zip))
  <1> DEFINE c == Dword2String(cgi)
             p == Dword2String(pb)
             z == Dword2String(zip)
             ints == (c \o p) \o z
             l == Len(ints)
             mark == Layout[kind].mark
             cookie == Layout[kind].cookie
             tail == Layout[kind].tail
             crypt == Layout[kind].crypt
             flag == CompressFlag(kind, pb, zip)
             nCur == mark + 10 + cookie + l + tail
             a == (flag + 4 * nCur) % 256
             b == 16 * crypt + cookie
             H == Front(mark, a, b, cookie)
             F == Trailer(kind)
             G == H \o ints
  <1>1. CookieBytes(kind) = cookie
    BY DEF CookieBytes, Layout, Kinds
  <1>2. MakeHeader(kind, cgi, pb, zip) = G \o F
    BY ZenonT(40), <1>1 DEF MakeHeader, Front
  <1>3. mark \in {0, 1} /\ cookie \in {0, 15} /\ tail \in 0..15 /\ crypt \in 0..7
    BY LayoutOf
  <1>4. flag \in {1, 2}
    BY DEF CompressFlag, Kinds
  <1>5. ints \in Seq(Byte) /\ l \in 3..15
    <2>1. /\ c \in Seq(Byte) /\ Len(c) \in 1..5 /\ p \in Seq(Byte) /\ Len(p) \in 1..5
          /\ z \in Seq(Byte) /\ Len(z) \in 1..5
      BY DwordBytes
    <2> DEFINE cp == c \o p
               lc == Len(c)
               lp == Len(p)
               lz == Len(z)
               lcp == Len(cp)
    <2> HIDE DEF c, p, z
    <2>2. cp \in Seq(Byte) /\ lcp = lc + lp
      BY <2>1, Joined
    <2> HIDE DEF cp
    <2>3. cp \o z \in Seq(Byte) /\ Len(cp \o z) = lcp + lz
      BY <2>1, <2>2, Joined
    <2>4. ints \in Seq(Byte) /\ l = lcp + lz
      BY <2>3 DEF cp
    <2>5. lc \in 1..5 /\ lp \in 1..5 /\ lz \in 1..5
      BY <2>1
    <2> HIDE DEF l, lc, lp, lz, lcp
    <2>6. l \in 3..15
      BY <2>2, <2>4, <2>5
    <2> QED
      BY <2>4, <2>6
  <1> HIDE DEF c, p, z, ints, l, mark, cookie, tail, crypt, flag
  <1>6. nCur \in 0..56 /\ nCur = mark + 10 + cookie + l + tail
    BY <1>3, <1>5
  <1> HIDE DEF nCur
  <1>7. a \in Byte /\ a \div 4 = nCur
    BY <1>4, <1>6 DEF Byte
  <1>8. b \in Byte
    BY <1>3 DEF Byte
  <1> HIDE DEF a, b
  <1>9. IsFront(H, mark, a, b, cookie)
    BY Zenon, <1>3, <1>7, <1>8, FrontBytes
  <1> HIDE DEF H
  <1>10. H \in Seq(Byte) /\ Len(H) = mark + 10 + cookie /\ H[mark + 1] = a
    BY Zenon, <1>9 DEF IsFront
  <1>11. F \in Seq(Byte) /\ Len(F) = tail
    BY TrailerBytes DEF tail
  <1> HIDE DEF F
  <1>12. G \in Seq(Byte) /\ Len(G) = Len(H) + Len(ints) /\ \A i \in 1..Len(H) : G[i] = H[i]
    BY <1>5, <1>10, Joined
  <1> HIDE DEF G
  <1>13. Len(G \o F) = Len(G) + Len(F) /\ \A i \in 1..Len(G) : (G \o F)[i] = G[i]
    BY <1>11, <1>12, Joined
  <1>14. Len(G) = mark + 10 + cookie + l
    BY <1>10, <1>12 DEF l
  <1>15. mark + 1 \in 1..Len(H) /\ mark + 1 \in 1..Len(G)
    BY <1>3, <1>5, <1>10, <1>14
  <1>16. (G \o F)[mark + 1] = a
    BY <1>10, <1>12, <1>13, <1>15
  <1>17. Len(G \o F) = nCur
    BY <1>6, <1>11, <1>13, <1>14
  <1> QED
    BY <1>2, <1>7, <1>16, <1>17 DEF mark

(* What Regular says of each digit. *)
LEMMA RegularMeans ==
    ASSUME NEW n \in Number, Regular(n)
    PROVE  /\ n >= 128 => ((n \div 128) % 128 # 0 /\ n % 16384 # 128)
           /\ n >= 16384 => ((n \div 16384) % 128 # 0 /\ n % 2097152 # 16384)
           /\ n >= 2097152 => ((n \div 2097152) % 128 # 0 /\ n % 268435456 # 2097152)
  <1>1. \A i \in 1..3 : n >= 128^i => (Digit(n, i) # 0 /\ n % 128^(i + 1) # 128^i)
    BY DEF Regular
  <1>2. n >= 128^1 => (Digit(n, 1) # 0 /\ n % 128^(1 + 1) # 128^1)
    BY SMT, <1>1
  <1>3. n >= 128^2 => (Digit(n, 2) # 0 /\ n % 128^(2 + 1) # 128^2)
    BY SMT, <1>1
  <1>4. n >= 128^3 => (Digit(n, 3) # 0 /\ n % 128^(3 + 1) # 128^3)
    BY SMT, <1>1
  <1> QED
    BY SMT, <1>2, <1>3, <1>4, Powers DEF Digit

(* Remainders of remainders. *)
LEMMA LowDigits ==
    ASSUME NEW n \in Nat
    PROVE  /\ (n % 2097152) % 16384 = n % 16384
           /\ (n % 2097152) \div 16384 = (n \div 16384) % 128
           /\ (n % 16384) % 128 = n % 128
           /\ (n % 16384) \div 128 = (n \div 128) % 128
  <1>1. (n % 2097152) % 16384 = n % 16384
    BY SMT
  <1>2. (n % 2097152) \div 16384 = (n \div 16384) % 128
    BY SMT
  <1>3. (n % 16384) % 128 = n % 128
    BY SMT
  <1>4. (n % 16384) \div 128 = (n \div 128) % 128
    BY SMT
  <1> QED
    BY SMT, <1>1, <1>2, <1>3, <1>4

(* A division that is not made changes nothing. *)
LEMMA StepSkips ==
    ASSUME NEW acc, NEW k, ~(acc.data > 128^k)
    PROVE  DigitStep(acc, k) = acc
  BY Zenon DEF DigitStep

(* The division by 0x80^k has been made. *)
Taken(acc, k, next) ==
    /\ next.data = acc.data % 128^k
    /\ next.len = acc.len + 1
    /\ next.hex = [acc.hex EXCEPT ![k] = (acc.data \div 128^k) % 256]

(* What a division that is made does. *)
LEMMA StepTakes ==
    ASSUME NEW acc, NEW k, acc.data > 128^k
    PROVE  Taken(acc, k, DigitStep(acc, k))
  BY Zenon DEF DigitStep, Taken


(* The digits of n as Dword2String finds them. *)
Digits(n) ==
    DigitStep(DigitStep(DigitStep(DigitStep(
        [data |-> n, hex |-> [i \in 0..4 |-> 0], len |-> 0], 4), 3), 2), 1)

(* Dword2String has found all digits of n. *)
DigitsRight(n) ==
    /\ Digits(n).len + 1 = Size(n)
    /\ Digits(n).data = n % 128
    /\ Digits(n).hex \in [0..4 -> Byte]
    /\ Size(n) >= 2 => Digits(n).hex[1] = (n \div 128) % 128
    /\ Size(n) >= 3 => Digits(n).hex[2] = (n \div 16384) % 128
    /\ Size(n) >= 4 => Digits(n).hex[3] = (n \div 2097152) % 128

(* Storing a digit in a byte loses nothing. *)
LEMMA SmallDigit ==
    ASSUME NEW d \in 0..127
    PROVE  d % 256 = d
  OBVIOUS

(* The digits of a regular number are found: a division is skipped only    *)
(* above the highest digit, since no digit below it is zero and no         *)
(* remainder equals the power it is compared with.                         *)
LEMMA RegularDigits ==
    ASSUME NEW n \in Number, Regular(n)
    PROVE  DigitsRight(n)
  <1> DEFINE a0 == [data |-> n, hex |-> [i \in 0..4 |-> 0], len |-> 0]
             a1 == DigitStep(a0, 4)
             a2 == DigitStep(a1, 3)
             a3 == DigitStep(a2, 2)
             a4 == DigitStep(a3, 1)
             d1 == (n \div 128) % 128
             d2 == (n \div 16384) % 128
             d3 == (n \div 2097152) % 128
             r2 == n % 16384
             r3 == n % 2097152
  <1>1. Digits(n) = a4
    BY Zenon DEF Digits
  <1>2. n \in Nat /\ n < 268435456
    BY SMT, Powers DEF Number
  <1>3. a0 \in Acc /\ a0.data = n /\ a0.len = 0
    BY SMT, <1>2 DEF Acc, Byte
  <1> HIDE DEF a0
  <1>4. a1 = a0
    <2>1. ~(a0.data > 128^4)
      BY SMT, <1>2, <1>3, Powers
    <2> QED
      BY Zenon, <2>1, StepSkips
  <1> HIDE DEF a1
  <1>5. a1 \in Acc /\ a1.data = n /\ a1.len = 0
    BY Zenon, <1>3, <1>4
  <1>6. /\ n >= 128 => (d1 # 0 /\ r2 # 128)
        /\ n >= 16384 => (d2 # 0 /\ r3 # 16384)
        /\ n >= 2097152 => (d3 # 0 /\ n # 2097152)
    <2>1. n % 268435456 = n
      BY SMT, <1>2
    <2> QED
      BY SMT, <2>1, RegularMeans
  <1>7. /\ r3 % 16384 = r2 /\ r3 \div 16384 = d2
        /\ r2 % 128 = n % 128 /\ r2 \div 128 = d1
    BY SMT, <1>2, LowDigits
  <1>8. /\ d1 \in 0..127 /\ d2 \in 0..127 /\ d3 \in 0..127
        /\ r2 \in Nat /\ r3 \in Nat
        /\ d1 # 0 => r2 >= 128
        /\ d2 # 0 => r3 >= 16384
    BY SMT, <1>2
  <1>9. d1 % 256 = d1 /\ d2 % 256 = d2 /\ d3 % 256 = d3
    BY SMT, <1>8, SmallDigit
  <1>10. /\ n < 16384 => r2 = n
         /\ n < 2097152 => r3 = n
         /\ n \div 2097152 = d3
         /\ n < 128 => n % 128 = n
    BY SMT, <1>2
  <1>11. \/ Size(n) = 1 /\ n < 128
         \/ Size(n) = 2 /\ n >= 128 /\ n < 16384
         \/ Size(n) = 3 /\ n >= 16384 /\ n < 2097152
         \/ Size(n) = 4 /\ n >= 2097152 /\ n < 268435456
    BY SMT, SizeOf
  <1>12. 128^1 = 128 /\ 128^2 = 16384 /\ 128^3 = 2097152
    BY SMT, Powers
  <1> HIDE DEF d1, d2, d3, r2, r3
  \* The third division.
  <1>13. /\ a2 \in Acc /\ a2.data = r3
         /\ Size(n) < 4 => a2.len = 0
         /\ Size(n) = 4 => a2.len = 1 /\ a2.hex[3] = d3
    <2>1. CASE Size(n) < 4
      <3>1. n < 2097152
        BY SMT, <1>2, <1>11, <2>1
      <3>2. ~(a1.data > 128^3)
        BY SMT, <1>2, <1>5, <1>12, <3>1
      <3>3. a2 = a1
        BY Zenon, <3>2, StepSkips
      <3> QED
        BY SMT, <1>5, <1>10, <2>1, <3>1, <3>3
    <2>2. CASE Size(n) = 4
      <3>1. n > 2097152
        BY SMT, <1>2, <1>6, <1>11, <2>2
      <3>2. a1.data > 128^3 /\ 3 \in 1..4
        BY SMT, <1>5, <1>12, <3>1
      <3>3. /\ a2.data = a1.data % 128^3 /\ a2.len = a1.len + 1
            /\ a2.hex = [a1.hex EXCEPT ![3] = (a1.data \div 128^3) % 256]
        <4>1. Taken(a1, 3, a2)
          BY Zenon, <3>2, StepTakes
        <4> QED
          BY Zenon, <4>1 DEF Taken
      <3>4. a2 \in Acc
        BY Zenon, <1>5, <3>2, StepKeepsAcc
      <3>5. a1.hex \in [0..4 -> Byte]
        BY <1>5 DEF Acc
      <3>6. a2.data = r3 /\ a2.len = 1
        BY SMT, <1>5, <1>12, <3>3 DEF r3
      <3>7. a2.hex[3] = d3
        <4>1. (a1.data \div 128^3) % 256 = d3
          BY SMT, <1>5, <1>9, <1>10, <1>12
        <4> QED
          BY <3>3, <3>5, <4>1
      <3> QED
        BY SMT, <2>2, <3>4, <3>6, <3>7
    <2> QED
      BY SMT, <1>11, <2>1, <2>2
  <1> HIDE DEF a2
  \* The second division.
  <1>14. /\ a3 \in Acc /\ a3.data = r2
         /\ Size(n) < 3 => a3.len = 0
         /\ Size(n) >= 3 => a3.len = Size(n) - 2 /\ a3.hex[2] = d2
         /\ Size(n) = 4 => a3.hex[3] = d3
    <2>1. CASE Size(n) < 3
      <3>1. n < 16384 /\ n < 2097152
        BY SMT, <1>2, <1>11, <2>1
      <3>2. ~(a2.data > 128^2)
        BY SMT, <1>2, <1>10, <1>12, <1>13, <3>1
      <3>3. a3 = a2
        BY Zenon, <3>2, StepSkips
      <3> QED
        BY SMT, <1>10, <1>11, <1>13, <2>1, <3>1, <3>3
    <2>2. CASE Size(n) >= 3
      <3>1. r3 > 16384
        BY SMT, <1>2, <1>6, <1>8, <1>11, <2>2
      <3>2. a2.data > 128^2 /\ 2 \in 1..4
        BY SMT, <1>12, <1>13, <3>1
      <3>3. /\ a3.data = a2.data % 128^2 /\ a3.len = a2.len + 1
            /\ a3.hex = [a2.hex EXCEPT ![2] = (a2.data \div 128^2) % 256]
        <4>1. Taken(a2, 2, a3)
          BY Zenon, <3>2, StepTakes
        <4> QED
          BY Zenon, <4>1 DEF Taken
      <3>4. a3 \in Acc
        BY Zenon, <1>13, <3>2, StepKeepsAcc
      <3>5. a2.hex \in [0..4 -> Byte]
        BY <1>13 DEF Acc
      <3>6. a3.data = r2 /\ a3.len = Size(n) - 2
        <4>1. a3.data = r2
          BY SMT, <1>7, <1>12, <1>13, <3>3
        <4>2. a3.len = Size(n) - 2
          BY SMT, <1>11, <1>13, <2>2, <3>3
        <4> QED
          BY <4>1, <4>2
      <3>7. a3.hex[2] = d2 /\ a3.hex[3] = a2.hex[3]
        <4>1. (a2.data \div 128^2) % 256 = d2
          BY SMT, <1>7, <1>9, <1>12, <1>13
        <4> QED
          BY <3>3, <3>5, <4>1
      <3> QED
        BY SMT, <1>11, <1>13, <2>2, <3>4, <3>6, <3>7
    <2> QED
      BY SMT, <1>11, <2>1, <2>2
  <1> HIDE DEF a3
  \* The first division.
  <1>15. /\ a4 \in Acc /\ a4.data = n % 128 /\ a4.len + 1 = Size(n)
         /\ Size(n) >= 2 => a4.hex[1] = d1
         /\ Size(n) >= 3 => a4.hex[2] = d2
         /\ Size(n) = 4 => a4.hex[3] = d3
    <2>1. CASE Size(n) = 1
      <3>1. n < 128 /\ n < 16384
        BY SMT, <1>2, <1>11, <2>1
      <3>2. ~(a3.data > 128^1)
        BY SMT, <1>2, <1>10, <1>12, <1>14, <3>1
      <3>3. a4 = a3
        BY Zenon, <3>2, StepSkips
      <3> QED
        BY SMT, <1>2, <1>10, <1>14, <2>1, <3>1, <3>3
    <2>2. CASE Size(n) >= 2
      <3>1. r2 > 128
        BY SMT, <1>2, <1>6, <1>8, <1>11, <2>2
      <3>2. a3.data > 128^1 /\ 1 \in 1..4
        BY SMT, <1>12, <1>14, <3>1
      <3>3. /\ a4.data = a3.data % 128^1 /\ a4.len = a3.len + 1
            /\ a4.hex = [a3.hex EXCEPT ![1] = (a3.data \div 128^1) % 256]
        <4>1. Taken(a3, 1, a4)
          BY Zenon, <3>2, StepTakes
        <4> QED
          BY Zenon, <4>1 DEF Taken
      <3>4. a4 \in Acc
        BY Zenon, <1>14, <3>2, StepKeepsAcc
      <3>5. a3.hex \in [0..4 -> Byte]
        BY <1>14 DEF Acc
      <3>6. a4.data = n % 128 /\ a4.len + 1 = Size(n)
        <4>1. a4.data = n % 128
          BY SMT, <1>7, <1>12, <1>14, <3>3
        <4>2. a4.len + 1 = Size(n)
          BY SMT, <1>11, <1>14, <2>2, <3>3
        <4> QED
          BY <4>1, <4>2
      <3>7. a4.hex[1] = d1 /\ a4.hex[2] = a3.hex[2] /\ a4.hex[3] = a3.hex[3]
        <4>1. (a3.data \div 128^1) % 256 = d1
          BY SMT, <1>7, <1>9, <1>12, <1>14
        <4> QED
          BY <3>3, <3>5, <4>1
      <3> QED
        BY SMT, <1>14, <2>2, <3>4, <3>6, <3>7
    <2> QED
      BY SMT, <1>11, <2>1, <2>2
  <1> HIDE DEF a4
  <1>16. a4.hex \in [0..4 -> Byte]
    BY <1>15 DEF Acc
  <1>17. Size(n) >= 4 <=> Size(n) = 4
    BY SMT, <1>11
  <1> QED
    BY SMT, <1>1, <1>15, <1>16, <1>17 DEF DigitsRight, d1, d2, d3

(* Dword2String writes regular numbers as the rest of the world does. *)
LEMMA DwordIsVarint ==
    ASSUME NEW n \in Number, Regular(n)
    PROVE  Dword2String(n) = Varint(n)
  <1> DEFINE s == Size(n)
             acc == Digits(n)
             hex == [acc.hex EXCEPT ![0] = acc.data % 256]
             L == acc.len + 1
  <1>1. Dword2String(n) = [i \in 1..L |-> (hex[i - 1] + (IF i < L THEN 128 ELSE 0)) % 256]
    BY Zenon DEF Dword2String, Digits
  <1>2. Varint(n) = [i \in 1..s |-> VarintDigit(n, i) + (IF i < s THEN 128 ELSE 0)]
    BY DEF Varint, Size, VarintDigit
  <1>3. /\ L = s /\ acc.data = n % 128 /\ acc.hex \in [0..4 -> Byte]
        /\ s >= 2 => acc.hex[1] = (n \div 128) % 128
        /\ s >= 3 => acc.hex[2] = (n \div 16384) % 128
        /\ s >= 4 => acc.hex[3] = (n \div 2097152) % 128
    BY SMT, RegularDigits DEF DigitsRight
  <1> HIDE DEF acc, L
  <1>4. n \in Nat
    BY SMT DEF Number
  <1>5. s \in 1..4
    BY VarintBytes
  <1> HIDE DEF s
  <1>6. n % 128 \in 0..127 /\ (n % 128) % 256 = n % 128
    BY SMT, <1>4
  <1>7. /\ hex[0] = n % 128 /\ hex[1] = acc.hex[1] /\ hex[2] = acc.hex[2]
        /\ hex[3] = acc.hex[3]
    BY SMT, <1>3, <1>6
  <1> HIDE DEF hex
  <1>8. ASSUME NEW i \in 1..s
        PROVE  hex[i - 1] = VarintDigit(n, i)
    <2>1. /\ VarintDigit(n, 1) = n % 128
          /\ VarintDigit(n, 2) = (n \div 128) % 128
          /\ VarintDigit(n, 3) = (n \div 16384) % 128
          /\ VarintDigit(n, 4) = (n \div 2097152) % 128
      BY SMT, <1>4, DigitsOf
    <2>2. CASE i = 1
      BY SMT, <1>7, <2>1, <2>2
    <2>3. CASE i = 2
      BY SMT, <1>3, <1>5, <1>7, <2>1, <2>3
    <2>4. CASE i = 3
      BY SMT, <1>3, <1>5, <1>7, <2>1, <2>4
    <2>5. CASE i = 4
      BY SMT, <1>3, <1>5, <1>7, <2>1, <2>5
    <2> QED
      BY SMT, <1>5, <2>2, <2>3, <2>4, <2>5
  <1>9. ASSUME NEW i \in 1..s
        PROVE  (hex[i - 1] + (IF i < s THEN 128 ELSE 0)) % 256
                 = VarintDigit(n, i) + (IF i < s THEN 128 ELSE 0)
    <2> DEFINE d == VarintDigit(n, i)
    <2>1. i \in 1..5
      BY <1>5
    <2>2. d \in 0..127
      BY <1>4, <2>1, DigitRange
    <2>3. hex[i - 1] = d
      BY <1>8
    <2> HIDE DEF d
    <2>4. (d + (IF i < s THEN 128 ELSE 0)) % 256 = d + (IF i < s THEN 128 ELSE 0)
      <3>1. CASE i < s
        BY <2>2, <3>1
      <3>2. CASE ~(i < s)
        BY <2>2, <3>2
      <3> QED
        BY <3>1, <3>2
    <2> QED
      BY ZenonT(40), <2>3, <2>4 DEF d
  <1>10. Dword2String(n) = [i \in 1..s |-> (hex[i - 1] + (IF i < s THEN 128 ELSE 0)) % 256]
    <2>1. L = s
      BY <1>3
    <2> QED
      BY <1>1, <2>1
  <1> QED
    <2> DEFINE e(i) == (hex[i - 1] + (IF i < s THEN 128 ELSE 0)) % 256
               v(i) == VarintDigit(n, i) + (IF i < s THEN 128 ELSE 0)
    <2>1. Dword2String(n) = [i \in 1..s |-> e(i)] /\ Varint(n) = [i \in 1..s |-> v(i)]
      BY Zenon, <1>2, <1>10
    <2>2. \A i \in 1..s : e(i) = v(i)
      BY Zenon, <1>9
    <2> HIDE DEF e, v
    <2> QED
      BY Zenon, <2>1, <2>2

(* Server's view of a request. *)
RequestRead(kind, cgi, pb, zip) ==
    LET got == UnPackHeader(kind, MakeHeader(kind, cgi, pb, zip) \o Body)
    IN  got.cgi = cgi /\ got.pb = pb /\ got.zip = zip /\ got.body = Body

(* A request with regular integers is a packet with right first bytes. *)
LEMMA RegularRead ==
    ASSUME NEW kind \in Kinds, NEW cgi \in Number, NEW pb \in Number, NEW zip \in Number,
           kind = "Base" => m_cookie = 15,
           Regular(cgi), Regular(pb), Regular(zip)
    PROVE  RequestRead(kind, cgi, pb, zip)
  <1> DEFINE l == Size(cgi) + Size(pb) + Size(zip)
             mark == Layout[kind].mark
             cookie == Layout[kind].cookie
             tail == Layout[kind].tail
             crypt == Layout[kind].crypt
             flag == CompressFlag(kind, pb, zip)
             nCur == mark + 10 + cookie + l + tail
             a == (flag + 4 * nCur) % 256
             b == 16 * crypt + cookie
             F == Trailer(kind)
             pack == Packet(mark, a, b, cookie, cgi, pb, zip, F)
  <1>1. /\ Dword2String(cgi) = Varint(cgi) /\ Dword2String(pb) = Varint(pb)
        /\ Dword2String(zip) = Varint(zip)
    BY Zenon, DwordIsVarint
  <1>2. l \in 3..12 /\ Len(Varint(cgi) \o Varint(pb) \o Varint(zip)) = l
    BY Zenon, VarintsLength
  <1>3. CookieBytes(kind) = cookie
    BY DEF CookieBytes, Layout, Kinds
  <1>4. MakeHeader(kind, cgi, pb, zip) \o Body = pack
    BY ZenonT(40), <1>1, <1>2, <1>3 DEF MakeHeader, Packet, Packed, Front
  <1>5. /\ mark \in {0, 1} /\ cookie \in {0, 15} /\ tail \in 0..15 /\ crypt \in 0..7
        /\ F \in Seq(Byte) /\ Len(F) = tail
    BY LayoutOf, TrailerBytes
  <1>6. flag \in {1, 2}
    BY DEF CompressFlag, Kinds
  <1> HIDE DEF l, mark, cookie, tail, crypt, flag, F
  <1>7. nCur \in 0..56 /\ nCur = mark + 10 + cookie + l + tail
    BY <1>2, <1>5
  <1> HIDE DEF nCur
  <1>8. a \in Byte /\ a # 191 /\ a \div 4 = nCur
    BY <1>6, <1>7 DEF Byte
  <1>9. b \in Byte /\ b % 16 = cookie
    BY <1>5 DEF Byte
  <1> HIDE DEF a, b
  <1>10. FrontFits(mark, a, b, cookie, cgi, pb, zip, tail)
    BY Zenon, <1>7, <1>8, <1>9 DEF FrontFits, l
  <1>11. ReadBack(kind, mark, a, b, cookie, cgi, pb, zip, F)
    <2>1. a \in Byte /\ b \in Byte
      BY <1>8, <1>9
    <2> QED
      BY ZenonT(40), <1>5, <1>10, <2>1, PacketRead
  <1>12. UnPackHeader(kind, pack) =
           [body |-> Body, compressed |-> a % 4 = 1, nCookieLen |-> cookie,
            cgi |-> cgi, pb |-> pb, zip |-> zip]
    BY Zenon, <1>11 DEF ReadBack
  <1> HIDE DEF pack
  <1>13. LET got == UnPackHeader(kind, pack)
         IN  got.cgi = cgi /\ got.pb = pb /\ got.zip = zip /\ got.body = Body
    <2> DEFINE got == UnPackHeader(kind, pack)
    <2>1. got = [body |-> Body, compressed |-> a % 4 = 1, nCookieLen |-> cookie,
                 cgi |-> cgi, pb |-> pb, zip |-> zip]
      BY <1>12
    <2> HIDE DEF got
    <2>2. got.cgi = cgi /\ got.pb = pb /\ got.zip = zip /\ got.body = Body
      BY <2>1
    <2> QED
      BY Zenon, <2>2 DEF got
  <1> QED
    BY Zenon, <1>4, <1>13 DEF RequestRead

(***************************************************************************)
(* Requests with integers that are not regular.                            *)
(***************************************************************************)

(* Numbers are naturals. *)
LEMMA NumberIsNat ==
    ASSUME NEW n \in Number
    PROVE  n \in Nat
  BY SMT DEF Number

(* What one turn of the loop of Dword2String does to each of its variables. *)
LEMMA StepWhole ==
    ASSUME NEW acc \in Acc, NEW k \in 1..4
    PROVE  LET taken == acc.data > 128^k
               next == DigitStep(acc, k)
           IN  /\ next.data = IF taken THEN acc.data % 128^k ELSE acc.data
               /\ next.len = IF taken THEN acc.len + 1 ELSE acc.len
               /\ next.hex[k] = IF taken THEN (acc.data \div 128^k) % 256 ELSE acc.hex[k]
               /\ \A j \in 0..4 : j # k => next.hex[j] = acc.hex[j]
  <1> DEFINE pw == 128^k
             q == (acc.data \div pw) % 256
             r == acc.data % pw
             next == DigitStep(acc, k)
  <1>1. next = IF acc.data > pw
               THEN [data |-> r, hex |-> [acc.hex EXCEPT ![k] = q], len |-> acc.len + 1]
               ELSE acc
    BY Zenon DEF DigitStep
  <1>2. acc.hex \in [0..4 -> Byte] /\ k \in 0..4
    BY DEF Acc
  <1> HIDE DEF q, r, next
  <1>3. CASE acc.data > pw
    <2> HIDE DEF pw
    <2>1. /\ next.data = r /\ next.len = acc.len + 1
          /\ next.hex = [acc.hex EXCEPT ![k] = q]
      BY <1>1, <1>3
    <2>2. next.hex[k] = q /\ \A j \in 0..4 : j # k => next.hex[j] = acc.hex[j]
      BY <1>2, <2>1
    <2> QED
      BY Zenon, <1>3, <2>1, <2>2 DEF q, r, next, pw
  <1>4. CASE ~(acc.data > pw)
    BY Zenon, <1>1, <1>4 DEF next
  <1> QED
    BY Zenon, <1>3, <1>4

(* What is left of n after the divisions by 0x80^3, 0x80^2 and 0x80. *)
Left3(n) == IF n > 2097152 THEN n % 2097152 ELSE n
Left2(n) == IF Left3(n) > 16384 THEN Left3(n) % 16384 ELSE Left3(n)
Left1(n) == IF Left2(n) > 128 THEN Left2(n) % 128 ELSE Left2(n)

(* How many of the three divisions were made. *)
Divisions(n) ==
    (IF n > 2097152 THEN 1 ELSE 0) + (IF Left3(n) > 16384 THEN 1 ELSE 0)
      + (IF Left2(n) > 128 THEN 1 ELSE 0)

(* The bytes of hex. *)
Hex1(n) == IF Left2(n) > 128 THEN (Left2(n) \div 128) % 256 ELSE 0
Hex2(n) == IF Left3(n) > 16384 THEN (Left3(n) \div 16384) % 256 ELSE 0
Hex3(n) == IF n > 2097152 THEN (n \div 2097152) % 256 ELSE 0

(* The digits as Dword2String finds them, right or wrong. *)
LEMMA DigitsFound ==
    ASSUME NEW n \in Number
    PROVE  LET acc == Digits(n)
           IN  /\ acc \in Acc /\ acc.data = Left1(n) /\ acc.len = Divisions(n)
               /\ acc.hex[1] = Hex1(n) /\ acc.hex[2] = Hex2(n) /\ acc.hex[3] = Hex3(n)
  <1> DEFINE a0 == [data |-> n, hex |-> [i \in 0..4 |-> 0], len |-> 0]
             a1 == DigitStep(a0, 4)
             a2 == DigitStep(a1, 3)
             a3 == DigitStep(a2, 2)
             a4 == DigitStep(a3, 1)
  <1>1. Digits(n) = a4
    BY Zenon DEF Digits
  <1>2. n \in Nat /\ n < 268435456
    BY SMT, Powers DEF Number
  <1>3. /\ a0 \in Acc /\ a0.data = n /\ a0.len = 0
        /\ a0.hex[1] = 0 /\ a0.hex[2] = 0 /\ a0.hex[3] = 0
    BY SMT, <1>2 DEF Acc, Byte
  <1> HIDE DEF a0
  <1>4. a1 = a0
    <2>1. ~(a0.data > 128^4)
      BY SMT, <1>2, <1>3, Powers
    <2> QED
      BY Zenon, <2>1, StepSkips
  <1> HIDE DEF a1
  <1>5. /\ a1 \in Acc /\ a1.data = n /\ a1.len = 0
        /\ a1.hex[1] = 0 /\ a1.hex[2] = 0 /\ a1.hex[3] = 0
    BY Zenon, <1>3, <1>4
  <1>6. 1 \in 1..4 /\ 2 \in 1..4 /\ 3 \in 1..4 /\ 1 \in 0..4 /\ 2 \in 0..4 /\ 3 \in 0..4
    OBVIOUS
  <1>7. 128^1 = 128 /\ 128^2 = 16384 /\ 128^3 = 2097152
    BY SMT, Powers
  <1>8. /\ a2 \in Acc
        /\ a2.data = IF a1.data > 128^3 THEN a1.data % 128^3 ELSE a1.data
        /\ a2.len = IF a1.data > 128^3 THEN a1.len + 1 ELSE a1.len
        /\ a2.hex[3] = IF a1.data > 128^3 THEN (a1.data \div 128^3) % 256 ELSE a1.hex[3]
        /\ \A j \in 0..4 : j # 3 => a2.hex[j] = a1.hex[j]
    <2>1. a1 \in Acc /\ 3 \in 1..4
      BY <1>5, <1>6
    <2> QED
      BY ZenonT(40), <2>1, StepWhole, StepKeepsAcc
  <1> HIDE DEF a2
  <1>9. /\ a2.data = Left3(n) /\ a2.len = (IF n > 2097152 THEN 1 ELSE 0)
        /\ a2.hex[3] = Hex3(n) /\ a2.hex[1] = 0 /\ a2.hex[2] = 0
    <2>1. a2.data = Left3(n) /\ a2.hex[3] = Hex3(n)
      BY SMT, <1>5, <1>7, <1>8 DEF Left3, Hex3
    <2>2. a2.hex[1] = 0 /\ a2.hex[2] = 0
      BY <1>5, <1>6, <1>8
    <2>3. a2.len = (IF n > 2097152 THEN 1 ELSE 0)
      BY <1>5, <1>7, <1>8
    <2> QED
      BY <2>1, <2>2, <2>3
  <1>10. /\ a3 \in Acc
         /\ a3.data = IF a2.data > 128^2 THEN a2.data % 128^2 ELSE a2.data
         /\ a3.len = IF a2.data > 128^2 THEN a2.len + 1 ELSE a2.len
         /\ a3.hex[2] = IF a2.data > 128^2 THEN (a2.data \div 128^2) % 256 ELSE a2.hex[2]
         /\ \A j \in 0..4 : j # 2 => a3.hex[j] = a2.hex[j]
    BY ZenonT(40), <1>6, <1>8, StepWhole, StepKeepsAcc
  <1> HIDE DEF a3
  <1>11. /\ a3.data = Left2(n)
         /\ a3.len = (IF n > 2097152 THEN 1 ELSE 0) + (IF Left3(n) > 16384 THEN 1 ELSE 0)
         /\ a3.hex[3] = Hex3(n) /\ a3.hex[2] = Hex2(n) /\ a3.hex[1] = 0
    <2>1. a3.data = Left2(n) /\ a3.hex[2] = Hex2(n)
      BY SMT, <1>7, <1>9, <1>10 DEF Left2, Hex2
    <2>2. a3.hex[1] = 0 /\ a3.hex[3] = Hex3(n)
      BY <1>6, <1>9, <1>10
    <2>3. a3.len = (IF n > 2097152 THEN 1 ELSE 0) + (IF Left3(n) > 16384 THEN 1 ELSE 0)
      BY <1>7, <1>9, <1>10
    <2> QED
      BY <2>1, <2>2, <2>3
  <1>12. /\ a4 \in Acc
         /\ a4.data = IF a3.data > 128^1 THEN a3.data % 128^1 ELSE a3.data
         /\ a4.len = IF a3.data > 128^1 THEN a3.len + 1 ELSE a3.len
         /\ a4.hex[1] = IF a3.data > 128^1 THEN (a3.data \div 128^1) % 256 ELSE a3.hex[1]
         /\ \A j \in 0..4 : j # 1 => a4.hex[j] = a3.hex[j]
    BY ZenonT(40), <1>6, <1>10, StepWhole, StepKeepsAcc
  <1> HIDE DEF a4
  <1>13. /\ a4.data = Left1(n) /\ a4.len = Divisions(n)
         /\ a4.hex[3] = Hex3(n) /\ a4.hex[2] = Hex2(n) /\ a4.hex[1] = Hex1(n)
    <2>1. a4.data = Left1(n) /\ a4.hex[1] = Hex1(n)
      BY SMT, <1>7, <1>11, <1>12 DEF Left1, Hex1
    <2>2. a4.hex[2] = Hex2(n) /\ a4.hex[3] = Hex3(n)
      BY <1>6, <1>11, <1>12
    <2>3. a4.len = Divisions(n)
      BY <1>7, <1>11, <1>12 DEF Divisions
    <2> QED
      BY <2>1, <2>2, <2>3
  <1> QED
    BY Zenon, <1>1, <1>12, <1>13

(* Dword2String, byte by byte. *)
Spelled(n, D) ==
    /\ D \in Seq(Byte)
    /\ Len(D) = Divisions(n) + 1
    /\ D[1] = (Left1(n) + (IF Len(D) > 1 THEN 128 ELSE 0)) % 256
    /\ Len(D) >= 2 => D[2] = (Hex1(n) + (IF Len(D) > 2 THEN 128 ELSE 0)) % 256
    /\ Len(D) >= 3 => D[3] = (Hex2(n) + (IF Len(D) > 3 THEN 128 ELSE 0)) % 256
    /\ Len(D) >= 4 => D[4] = (Hex3(n) + (IF Len(D) > 4 THEN 128 ELSE 0)) % 256

(* What is left gets smaller with every division. *)
LEMMA LeftOf ==
    ASSUME NEW n \in Number
    PROVE  /\ n \in Nat /\ n < 268435456
           /\ Left3(n) \in Nat /\ Left3(n) <= 2097152
           /\ Left2(n) \in Nat /\ Left2(n) <= 16384
           /\ Left1(n) \in Nat /\ Left1(n) <= 128
           /\ Hex1(n) \in 0..128 /\ Hex2(n) \in 0..128 /\ Hex3(n) \in 0..127
           /\ Divisions(n) \in 0..3
  <1> DEFINE l3 == Left3(n)
             l2 == Left2(n)
             l1 == Left1(n)
  <1>1. n \in Nat /\ n < 268435456
    BY SMT, Powers DEF Number
  <1>2. l3 \in Nat /\ l3 <= 2097152
    BY SMT, <1>1 DEF Left3
  <1>3. l2 = IF l3 > 16384 THEN l3 % 16384 ELSE l3
    BY SMT DEF Left2
  <1>4. l1 = IF l2 > 128 THEN l2 % 128 ELSE l2
    BY Zenon DEF Left1
  <1>5. Hex1(n) = IF l2 > 128 THEN (l2 \div 128) % 256 ELSE 0
    BY Zenon DEF Hex1
  <1>6. Hex2(n) = IF l3 > 16384 THEN (l3 \div 16384) % 256 ELSE 0
    BY SMT DEF Hex2
  <1>7. Divisions(n) = (IF n > 2097152 THEN 1 ELSE 0) + (IF l3 > 16384 THEN 1 ELSE 0)
                         + (IF l2 > 128 THEN 1 ELSE 0)
    BY SMT DEF Divisions
  <1> HIDE DEF l3, l2, l1
  <1>8. l2 \in Nat /\ l2 <= 16384
    BY SMT, <1>2, <1>3
  <1>9. l1 \in Nat /\ l1 <= 128
    BY SMT, <1>4, <1>8
  <1>10. Hex1(n) \in 0..128
    BY SMT, <1>5, <1>8
  <1>11. Hex2(n) \in 0..128
    BY SMT, <1>2, <1>6
  <1>12. Hex3(n) \in 0..127
    BY SMT, <1>1 DEF Hex3
  <1>13. Divisions(n) \in 0..3
    BY SMT, <1>7
  <1> QED
    BY SMT, <1>1, <1>2, <1>8, <1>9, <1>10, <1>11, <1>12, <1>13 DEF l3, l2, l1

(* Every number is spelled like that. *)
LEMMA DwordSpelled ==
    ASSUME NEW n \in Number
    PROVE  Spelled(n, Dword2String(n))
  <1> DEFINE acc == Digits(n)
             hex == [acc.hex EXCEPT ![0] = acc.data % 256]
             L == acc.len + 1
             D == Dword2String(n)
  <1>1. D = [i \in 1..L |-> (hex[i - 1] + (IF i < L THEN 128 ELSE 0)) % 256]
    BY Zenon DEF Dword2String, Digits
  <1>2. n \in Nat
    BY SMT, LeftOf
  <1>3. D \in Seq(Byte)
    BY <1>2, DwordBytes
  <1>4. /\ acc \in Acc /\ acc.data = Left1(n) /\ acc.len = Divisions(n)
        /\ acc.hex[1] = Hex1(n) /\ acc.hex[2] = Hex2(n) /\ acc.hex[3] = Hex3(n)
    BY Zenon, DigitsFound
  <1> HIDE DEF acc
  <1>5. acc.hex \in [0..4 -> Byte]
    BY <1>4 DEF Acc
  <1>6. Left1(n) \in 0..128 /\ Divisions(n) \in 0..3
    BY SMT, LeftOf
  <1>7. Left1(n) % 256 = Left1(n)
    BY <1>6
  <1>8. hex[0] = Left1(n) /\ hex[1] = Hex1(n) /\ hex[2] = Hex2(n) /\ hex[3] = Hex3(n)
    BY <1>4, <1>5, <1>7
  <1> HIDE DEF hex
  <1>9. L = Divisions(n) + 1 /\ L \in 1..4
    BY <1>4, <1>6
  <1> HIDE DEF L, D
  <1>10. Len(D) = L
    BY <1>1, <1>9
  <1>11. ASSUME NEW i \in 1..4, L >= i
         PROVE  D[i] = (hex[i - 1] + (IF L > i THEN 128 ELSE 0)) % 256
    <2>1. i \in 1..L /\ (i < L <=> L > i)
      BY <1>9, <1>11
    <2> QED
      BY <1>1, <2>1
  <1>12. D[1] = (hex[0] + (IF L > 1 THEN 128 ELSE 0)) % 256
    <2>1. 1 \in 1..4 /\ L >= 1 /\ 1 - 1 = 0
      BY <1>9
    <2> QED
      BY <1>11, <2>1
  <1>13. L >= 2 => D[2] = (hex[1] + (IF L > 2 THEN 128 ELSE 0)) % 256
    <2>1. 2 \in 1..4 /\ 2 - 1 = 1
      OBVIOUS
    <2> QED
      BY <1>11, <2>1
  <1>14. L >= 3 => D[3] = (hex[2] + (IF L > 3 THEN 128 ELSE 0)) % 256
    <2>1. 3 \in 1..4 /\ 3 - 1 = 2
      OBVIOUS
    <2> QED
      BY <1>11, <2>1
  <1>15. L >= 4 => D[4] = (hex[3] + (IF L > 4 THEN 128 ELSE 0)) % 256
    <2>1. 4 \in 1..4 /\ 4 - 1 = 3
      OBVIOUS
    <2> QED
      BY <1>11, <2>1
  <1> QED
    <2>1. D[1] = (Left1(n) + (IF Len(D) > 1 THEN 128 ELSE 0)) % 256
      BY Zenon, <1>8, <1>10, <1>12
    <2>2. Len(D) >= 2 => D[2] = (Hex1(n) + (IF Len(D) > 2 THEN 128 ELSE 0)) % 256
      BY Zenon, <1>8, <1>10, <1>13
    <2>3. Len(D) >= 3 => D[3] = (Hex2(n) + (IF Len(D) > 3 THEN 128 ELSE 0)) % 256
      BY Zenon, <1>8, <1>10, <1>14
    <2>4. Len(D) >= 4 => D[4] = (Hex3(n) + (IF Len(D) > 4 THEN 128 ELSE 0)) % 256
      BY Zenon, <1>8, <1>10, <1>15
    <2>5. Len(D) = Divisions(n) + 1
      BY Zenon, <1>9, <1>10
    <2>6. Spelled(n, D)
      BY Zenon, <1>3, <2>1, <2>2, <2>3, <2>4, <2>5 DEF Spelled
    <2> QED
      BY Zenon, <2>6 DEF D

(* The divisions keep the lowest digit. *)
LEMMA LowestKept ==
    ASSUME NEW n \in Number
    PROVE  Left1(n) % 128 = n % 128
  <1> DEFINE l3 == Left3(n)
             l2 == Left2(n)
             l1 == Left1(n)
  <1>1. n \in Nat /\ l3 \in Nat /\ l2 \in Nat
    BY SMT, LeftOf
  <1>2. l3 % 128 = n % 128
    BY SMT, <1>1 DEF Left3
  <1>3. l2 % 128 = l3 % 128
    <2>1. l2 = IF l3 > 16384 THEN l3 % 16384 ELSE l3
      BY SMT DEF Left2
    <2> HIDE DEF l3, l2
    <2> QED
      BY SMT, <1>1, <2>1
  <1>4. l1 % 128 = l2 % 128
    <2>1. l1 = IF l2 > 128 THEN l2 % 128 ELSE l2
      BY SMT DEF Left1
    <2> HIDE DEF l3, l2
    <2> QED
      BY SMT, <1>1, <2>1
  <1> QED
    BY SMT, <1>2, <1>3, <1>4

(* So the first byte, without its mark, is right for every number. *)
LEMMA LowestByte ==
    ASSUME NEW n \in Number
    PROVE  Dword2String(n)[1] % 128 = n % 128
  <1> DEFINE b == Dword2String(n)[1]
             l1 == Left1(n)
  <1>1. b = l1 % 256 \/ b = (l1 + 128) % 256
    <2> DEFINE D == Dword2String(n)
    <2>1. D[1] = (l1 + (IF Len(D) > 1 THEN 128 ELSE 0)) % 256
      BY Zenon, DwordSpelled DEF Spelled
    <2>2. l1 \in Nat /\ l1 + 0 = l1
      BY SMT, LeftOf
    <2> HIDE DEF D
    <2>3. D[1] = l1 % 256 \/ D[1] = (l1 + 128) % 256
      <3>1. CASE Len(D) > 1
        BY <2>1, <3>1
      <3>2. CASE ~(Len(D) > 1)
        BY <2>1, <2>2, <3>2
      <3> QED
        BY <3>1, <3>2
    <2> QED
      BY Zenon, <2>3 DEF D
  <1>2. l1 \in Nat /\ l1 <= 128
    BY SMT, LeftOf
  <1>3. l1 % 128 = n % 128
    BY LowestKept
  <1> HIDE DEF b, l1
  <1>4. b % 128 = l1 % 128
    BY SMT, <1>1, <1>2
  <1> QED
    BY Zenon, <1>3, <1>4 DEF b

(* What Regular asks of digit i. *)
RegularAt(n, i) == n >= 128^i => (Digit(n, i) # 0 /\ n % 128^(i + 1) # 128^i)

LEMMA RegularFromThree ==
    ASSUME NEW n, RegularAt(n, 1), RegularAt(n, 2), RegularAt(n, 3)
    PROVE  Regular(n)
  <1>1. ASSUME NEW i \in 1..3 PROVE RegularAt(n, i)
    <2>1. i = 1 \/ i = 2 \/ i = 3
      OBVIOUS
    <2> QED
      BY Zenon, <2>1
  <1> QED
    BY Zenon, <1>1 DEF Regular, RegularAt

(* Regular, with the powers written out. *)
LEMMA RegularWhen ==
    ASSUME NEW n \in Number,
           n >= 128 => ((n \div 128) % 128 # 0 /\ n % 16384 # 128),
           n >= 16384 => ((n \div 16384) % 128 # 0 /\ n % 2097152 # 16384),
           n >= 2097152 => ((n \div 2097152) % 128 # 0 /\ n % 268435456 # 2097152)
    PROVE  Regular(n)
  <1>1. RegularAt(n, 1)
    BY SMT, Powers DEF Digit, RegularAt
  <1>2. RegularAt(n, 2)
    BY SMT, Powers DEF Digit, RegularAt
  <1>3. RegularAt(n, 3)
    BY SMT, Powers DEF Digit, RegularAt
  <1> QED
    BY SMT, <1>1, <1>2, <1>3, RegularFromThree

(* A number that is not regular gets fewer divisions than it has digits    *)
(* above the lowest.                                                       *)
LEMMA IrregularIsShort ==
    ASSUME NEW n \in Number, ~Regular(n)
    PROVE  /\ n >= 128
           /\ Divisions(n) >= 1 => n >= 16384
           /\ Divisions(n) >= 2 => n >= 2097152
           /\ Divisions(n) <= 2
  <1> DEFINE l3 == Left3(n)
             l2 == Left2(n)
             k == Divisions(n)
  <1>1. n \in Nat /\ n < 268435456
    BY SMT, LeftOf
  <1>2. l3 = IF n > 2097152 THEN n % 2097152 ELSE n
    BY SMT DEF Left3
  <1>3. l2 = IF l3 > 16384 THEN l3 % 16384 ELSE l3
    BY SMT DEF Left2
  <1>4. k = (IF n > 2097152 THEN 1 ELSE 0) + (IF l3 > 16384 THEN 1 ELSE 0)
              + (IF l2 > 128 THEN 1 ELSE 0)
    BY SMT DEF Divisions
  <1> HIDE DEF l3, l2, k
  <1>5. n >= 128
    <2>1. CASE n < 128
      BY SMT, <1>1, <2>1, RegularWhen
    <2> QED
      BY SMT, <1>1, <2>1
  <1>6. k >= 1 => n >= 16384
    <2>1. CASE n < 16384 /\ k >= 1
      <3>1. l3 = n /\ l2 = n /\ n > 128
        BY SMT, <1>1, <1>2, <1>3, <1>4, <2>1
      <3>2. (n \div 128) % 128 # 0 /\ n % 16384 # 128
        BY SMT, <1>1, <2>1, <3>1
      <3> QED
        BY SMT, <1>1, <2>1, <3>2, RegularWhen
    <2> QED
      BY SMT, <1>1, <2>1
  <1>7. k >= 2 => n >= 2097152
    <2>1. CASE n < 2097152 /\ k >= 2
      <3>1. l3 = n /\ n > 16384 /\ l2 = n % 16384 /\ l2 > 128
        BY SMT, <1>1, <1>2, <1>3, <1>4, <2>1
      <3>2. (n \div 16384) % 128 # 0 /\ n % 2097152 # 16384
        BY SMT, <1>1, <2>1, <3>1
      <3>3. (n \div 128) % 128 # 0 /\ n % 16384 # 128
        BY SMT, <1>1, <3>1
      <3> QED
        BY SMT, <1>1, <2>1, <3>2, <3>3, RegularWhen
    <2> QED
      BY SMT, <1>1, <2>1
  <1>8. k <= 2
    <2>1. CASE k >= 3
      <3>1. n > 2097152 /\ l3 = n % 2097152 /\ l3 > 16384 /\ l2 = l3 % 16384 /\ l2 > 128
        BY SMT, <1>1, <1>2, <1>3, <1>4, <2>1
      <3>2. l2 = n % 16384
        BY SMT, <1>1, <3>1, LowDigits
      <3>3. (n \div 16384) % 128 # 0 /\ n % 2097152 # 16384
        BY SMT, <1>1, <3>1
      <3>4. (n \div 128) % 128 # 0 /\ n % 16384 # 128
        BY SMT, <1>1, <3>1, <3>2
      <3>5. (n \div 2097152) % 128 # 0 /\ n % 268435456 # 2097152
        BY SMT, <1>1, <3>1
      <3> QED
        BY SMT, <3>3, <3>4, <3>5, RegularWhen
    <2> QED
      BY SMT, <1>4, <2>1
  <1> QED
    BY SMT, <1>5, <1>6, <1>7, <1>8 DEF k

(* Dword2String writes no unmarked byte for two numbers only.  A byte of   *)
(* hex is 0x80 or more only where a division was left out because the two  *)
(* numbers were equal.                                                     *)
LEMMA UnendedNumbers ==
    ASSUME NEW n \in Number, NEW D, D = Dword2String(n),
           \A i \in 1..Len(D) : D[i] >= 128
    PROVE  \/ n = 128 /\ Len(D) = 1 /\ D[1] = 128
           \/ n = 16384 /\ Len(D) = 2 /\ D[1] = 128 /\ D[2] = 128
  <1> DEFINE l3 == Left3(n)
             l2 == Left2(n)
             l1 == Left1(n)
             x1 == Hex1(n)
             x2 == Hex2(n)
             x3 == Hex3(n)
             k == Divisions(n)
             L == Len(D)
  <1>1. /\ L = k + 1
        /\ D[1] = (l1 + (IF L > 1 THEN 128 ELSE 0)) % 256
        /\ L >= 2 => D[2] = (x1 + (IF L > 2 THEN 128 ELSE 0)) % 256
        /\ L >= 3 => D[3] = (x2 + (IF L > 3 THEN 128 ELSE 0)) % 256
        /\ L >= 4 => D[4] = (x3 + (IF L > 4 THEN 128 ELSE 0)) % 256
    <2>1. Spelled(n, D)
      BY Zenon, DwordSpelled
    <2> QED
      BY SMT, <2>1 DEF Spelled
  <1>2. /\ n \in Nat /\ l3 \in Nat /\ l2 \in Nat /\ l1 \in Nat
        /\ l3 <= 2097152 /\ l2 <= 16384 /\ l1 <= 128
        /\ x1 \in 0..128 /\ x2 \in 0..128 /\ x3 \in 0..127 /\ k \in 0..3
    BY SMT, LeftOf
  <1>3. l3 = IF n > 2097152 THEN n % 2097152 ELSE n
    BY SMT DEF Left3
  <1>4. l2 = IF l3 > 16384 THEN l3 % 16384 ELSE l3
    BY SMT DEF Left2
  <1>5. l1 = IF l2 > 128 THEN l2 % 128 ELSE l2
    BY SMT DEF Left1
  <1>6. k = (IF n > 2097152 THEN 1 ELSE 0) + (IF l3 > 16384 THEN 1 ELSE 0)
              + (IF l2 > 128 THEN 1 ELSE 0)
    BY SMT DEF Divisions
  <1>7. x1 = (IF l2 > 128 THEN (l2 \div 128) % 256 ELSE 0)
    BY SMT DEF Hex1
  <1>8. x2 = (IF l3 > 16384 THEN (l3 \div 16384) % 256 ELSE 0)
    BY SMT DEF Hex2
  <1>9. L \in {1, 2, 3, 4}
    BY SMT, <1>1, <1>2
  <1>10. D[L] >= 128
    <2>1. L \in 1..L
      BY SMT, <1>9
    <2> QED
      BY <2>1
  <1> HIDE DEF l3, l2, l1, x1, x2, x3, k, L
  <1>11. CASE L = 1
    <2>1. D[1] = l1 % 256
      BY SMT, <1>1, <1>2, <1>11
    <2>2. l1 = 128 /\ D[1] = 128
      BY SMT, <1>2, <1>10, <1>11, <2>1
    <2>3. n = 128
      BY SMT, <1>1, <1>2, <1>3, <1>4, <1>5, <1>6, <1>11, <2>2
    <2> QED
      BY SMT, <1>11, <2>2, <2>3 DEF L
  <1>12. CASE L = 2
    <2>1. D[2] = x1 % 256
      BY SMT, <1>1, <1>2, <1>12
    <2>2. x1 = 128 /\ D[2] = 128
      BY SMT, <1>2, <1>10, <1>12, <2>1
    <2>3. l2 = 16384
      BY SMT, <1>2, <1>7, <2>2
    <2>4. l3 = 16384
      BY SMT, <1>2, <1>4, <2>3
    <2>5. n = 16384
      BY SMT, <1>1, <1>2, <1>3, <1>4, <1>5, <1>6, <1>12, <2>3, <2>4
    <2>6. l1 = 0
      BY SMT, <1>5, <2>3
    <2>7. D[1] = 128
      BY SMTT(30), <1>1, <1>12, <2>6
    <2> QED
      BY SMT, <1>12, <2>2, <2>5, <2>7 DEF L
  <1>13. CASE L = 3
    <2>1. D[3] = x2 % 256
      BY SMT, <1>1, <1>2, <1>13
    <2>2. x2 = 128
      BY SMT, <1>2, <1>10, <1>13, <2>1
    <2>3. l3 = 2097152
      BY SMT, <1>2, <1>8, <2>2
    <2>4. n = 2097152 /\ l2 = 0
      BY SMT, <1>2, <1>3, <1>4, <2>3
    <2> QED
      BY SMT, <1>1, <1>6, <1>13, <2>3, <2>4
  <1>14. CASE L = 4
    <2>1. D[4] = x3 % 256
      BY SMT, <1>1, <1>2, <1>14
    <2>2. D[4] >= 128
      BY <1>10, <1>14
    <2>3. x3 \in 0..127
      BY SMT, <1>2
    <2>4. x3 % 256 \in Int /\ x3 % 256 < 128
      BY SMT, <2>3
    <2> QED
      BY SMT, <2>1, <2>2, <2>4
  <1> QED
    BY SMT, <1>9, <1>11, <1>12, <1>13, <1>14

(* A number whose lowest digit is one ends with its last byte and not      *)
(* before, and if it has four bytes its second digit is not zero.          *)
LEMMA OneEndsWell ==
    ASSUME NEW n \in Number, n % 128 = 1, NEW D, D = Dword2String(n)
    PROVE  /\ Len(D) \in 1..4
           /\ D[1] % 128 = 1
           /\ \A i \in 1..Len(D) : D[i] < 128 <=> i = Len(D)
           /\ Len(D) = 4 => D[2] % 128 # 0
  <1> DEFINE l3 == Left3(n)
             l2 == Left2(n)
             l1 == Left1(n)
             x1 == Hex1(n)
             x2 == Hex2(n)
             x3 == Hex3(n)
             k == Divisions(n)
             L == Len(D)
  <1>1. /\ L = k + 1
        /\ D[1] = (l1 + (IF L > 1 THEN 128 ELSE 0)) % 256
        /\ L >= 2 => D[2] = (x1 + (IF L > 2 THEN 128 ELSE 0)) % 256
        /\ L >= 3 => D[3] = (x2 + (IF L > 3 THEN 128 ELSE 0)) % 256
        /\ L >= 4 => D[4] = (x3 + (IF L > 4 THEN 128 ELSE 0)) % 256
    <2>1. Spelled(n, D)
      BY Zenon, DwordSpelled
    <2> QED
      BY SMT, <2>1 DEF Spelled
  <1>2. /\ n \in Nat /\ l3 \in Nat /\ l2 \in Nat /\ l1 \in Nat
        /\ l3 <= 2097152 /\ l2 <= 16384 /\ l1 <= 128
        /\ x1 \in 0..128 /\ x2 \in 0..128 /\ x3 \in 0..127 /\ k \in 0..3
    BY SMT, LeftOf
  <1>3. l2 = IF l3 > 16384 THEN l3 % 16384 ELSE l3
    BY SMT DEF Left2
  <1>4. l1 = IF l2 > 128 THEN l2 % 128 ELSE l2
    BY SMT DEF Left1
  <1>5. k = (IF n > 2097152 THEN 1 ELSE 0) + (IF l3 > 16384 THEN 1 ELSE 0)
              + (IF l2 > 128 THEN 1 ELSE 0)
    BY SMT DEF Divisions
  <1>6. x1 = (IF l2 > 128 THEN (l2 \div 128) % 256 ELSE 0)
    BY SMT DEF Hex1
  <1>7. x2 = (IF l3 > 16384 THEN (l3 \div 16384) % 256 ELSE 0)
    BY SMT DEF Hex2
  <1>8. l1 % 128 = 1
    BY Zenon, LowestKept
  <1>9. L \in {1, 2, 3, 4}
    BY SMT, <1>1, <1>2
  <1> HIDE DEF l3, l2, l1, x1, x2, x3, k, L
  <1>10. l1 = 1
    BY SMT, <1>2, <1>8
  <1>11. l2 # 16384 /\ l2 # 0
    BY SMT, <1>4, <1>10
  <1>12. x1 < 128
    BY SMT, <1>2, <1>6, <1>11
  <1>13. x2 < 128
    <2>1. l3 # 2097152
      BY SMT, <1>3, <1>11
    <2> QED
      BY SMT, <1>2, <1>7, <2>1
  <1>14. /\ L = 1 => D[1] = 1
         /\ L > 1 => D[1] = 129
    BY SMT, <1>1, <1>9, <1>10
  <1>15. /\ L = 2 => D[2] = x1
         /\ L > 2 => D[2] = x1 + 128
    BY SMT, <1>1, <1>2, <1>9, <1>12
  <1>16. /\ L = 3 => D[3] = x2
         /\ L > 3 => D[3] = x2 + 128
    BY SMT, <1>1, <1>2, <1>9, <1>13
  <1>17. L = 4 => D[4] = x3
    BY SMT, <1>1, <1>2, <1>9
  <1>18. L = 4 => x1 >= 1
    BY SMT, <1>1, <1>2, <1>5, <1>6
  <1>19. \A i \in 1..L : D[i] < 128 <=> i = L
    <2>1. CASE L = 1
      BY SMT, <1>14, <2>1
    <2>2. CASE L = 2
      BY SMT, <1>2, <1>12, <1>14, <1>15, <2>2
    <2>3. CASE L = 3
      BY SMT, <1>2, <1>12, <1>13, <1>14, <1>15, <1>16, <2>3
    <2>4. CASE L = 4
      BY SMT, <1>2, <1>12, <1>13, <1>14, <1>15, <1>16, <1>17, <2>4
    <2> QED
      BY <1>9, <2>1, <2>2, <2>3, <2>4
  <1>20. L = 4 => D[2] % 128 # 0
    BY SMT, <1>2, <1>12, <1>15, <1>18
  <1>21. D[1] % 128 = 1
    BY SMT, <1>9, <1>14
  <1>22. L \in 1..4
    BY SMT, <1>9
  <1> QED
    BY Zenon, <1>19, <1>20, <1>21, <1>22 DEF L

(***************************************************************************)
(* Reading any bytes.                                                      *)
(***************************************************************************)

(* Bytes are numbers. *)
LEMMA ByteIsNat ==
    ASSUME NEW x \in Byte
    PROVE  x \in Nat /\ x < 256 /\ x % 128 \in 0..127 /\ x % 128 \in Nat
  BY DEF Byte

LEMMA ByteIsInt ==
    ASSUME NEW x \in Byte
    PROVE  x \in Int
  BY DEF Byte

(* What String2Dword adds of a byte is less than the base. *)
LEMMA SevenBits ==
    ASSUME NEW x \in Int
    PROVE  x % 128 \in Int /\ x % 128 \in 0..127
  BY SMT

(* What it adds of a fifth byte. *)
LEMMA FourBits ==
    ASSUME NEW x \in Int
    PROVE  TopBits(x) \in Int /\ TopBits(x) \in (-8)..7
  BY SMT DEF TopBits

(* String2Dword stops after k bytes of b. *)
StopsAt(b, k) ==
    /\ k \in 1..5
    /\ k = 5 \/ b[k] < 128
    /\ \A i \in 1..5 : i < k => b[i] >= 128

(* The value of the first k bytes, the powers written out. *)
ValueOf(b, k) ==
    (b[1] % 128) + (IF k >= 2 THEN (b[2] % 128) * 128 ELSE 0)
      + (IF k >= 3 THEN (b[3] % 128) * 16384 ELSE 0)
      + (IF k >= 4 THEN (b[4] % 128) * 2097152 ELSE 0)
      + (IF k >= 5 THEN TopBits(b[5]) * 268435456 ELSE 0)

(* It always stops somewhere. *)
LEMMA StopsSomewhere ==
    ASSUME NEW b \in Seq(Byte), Len(b) >= 5
    PROVE  \E k \in 1..5 : StopsAt(b, k)
  <1>1. \A i \in 1..5 : b[i] \in Byte
    <2>1. \A i \in 1..5 : i \in 1..Len(b)
      OBVIOUS
    <2> QED
      BY <2>1, ElementOfSeq
  <1>2. CASE b[1] < 128
    BY <1>2 DEF StopsAt
  <1>3. CASE b[1] >= 128 /\ b[2] < 128
    <2>1. StopsAt(b, 2)
      BY <1>3 DEF StopsAt
    <2> QED
      BY <2>1
  <1>4. CASE b[1] >= 128 /\ b[2] >= 128 /\ b[3] < 128
    <2>1. StopsAt(b, 3)
      BY <1>4 DEF StopsAt
    <2> QED
      BY <2>1
  <1>5. CASE b[1] >= 128 /\ b[2] >= 128 /\ b[3] >= 128 /\ b[4] < 128
    <2>1. StopsAt(b, 4)
      BY <1>5 DEF StopsAt
    <2> QED
      BY <2>1
  <1>6. CASE b[1] >= 128 /\ b[2] >= 128 /\ b[3] >= 128 /\ b[4] >= 128
    <2>1. StopsAt(b, 5)
      BY <1>6 DEF StopsAt
    <2> QED
      BY <2>1
  <1>7. b[1] \in Int /\ b[2] \in Int /\ b[3] \in Int /\ b[4] \in Int
    <2>1. b[1] \in Byte /\ b[2] \in Byte /\ b[3] \in Byte /\ b[4] \in Byte
      BY <1>1
    <2> QED
      BY Zenon, <2>1, ByteIsInt
  <1> QED
    BY <1>2, <1>3, <1>4, <1>5, <1>6, <1>7

(* BytesRead is that place. *)
LEMMA BytesReadIs ==
    ASSUME NEW b \in Seq(Byte), Len(b) = 5, NEW k, StopsAt(b, k)
    PROVE  BytesRead(b) = k
  <1> DEFINE ends == {i \in 1..Len(b) : i = 5 \/ i = Len(b) \/ b[i] < 128}
  <1>1. k \in 1..5 /\ (k = 5 \/ b[k] < 128) /\ \A i \in 1..5 : i < k => b[i] >= 128
    BY DEF StopsAt
  <1>2. k \in ends
    BY <1>1
  <1>3. ASSUME NEW j \in ends PROVE k <= j
    <2>1. j \in 1..5 /\ (j = 5 \/ b[j] < 128)
      OBVIOUS
    <2>2. CASE j < k
      <3>1. b[j] >= 128 /\ j # 5
        BY <1>1, <2>1, <2>2
      <3>2. b[j] \in Int
        <4>1. j \in 1..Len(b)
          BY <2>1
        <4>2. b[j] \in Byte
          BY <4>1, ElementOfSeq
        <4> QED
          BY <4>2, ByteIsNat
      <3> QED
        BY <2>1, <3>1, <3>2
    <2> QED
      BY <1>1, <2>1, <2>2
  <1>4. BytesRead(b) = CHOOSE i \in ends : \A j \in ends : i <= j
    BY DEF BytesRead
  <1>5. ends \subseteq Int
    OBVIOUS
  <1> HIDE DEF ends
  <1>6. BytesRead(b) \in ends /\ \A j \in ends : BytesRead(b) <= j
    BY <1>2, <1>3, <1>4
  <1>7. BytesRead(b) <= k /\ k <= BytesRead(b)
    BY <1>2, <1>3, <1>6
  <1>8. BytesRead(b) \in Int /\ k \in Int
    BY <1>2, <1>5, <1>6
  <1> QED
    BY <1>7, <1>8

(* String2Dword of five bytes. *)
LEMMA ReadFive ==
    ASSUME NEW b \in Seq(Byte), Len(b) = 5, NEW k, StopsAt(b, k)
    PROVE  String2Dword(b).value = ValueOf(b, k) /\ String2Dword(b).len = k
  <1> DEFINE add(i) == ByteValue(b, i)
             sum == add(1) + add(2) + add(3) + add(4) + add(5)
  <1>1. String2Dword(b) = [value |-> sum, len |-> BytesRead(b)]
    BY Zenon DEF String2Dword
  <1>2. BytesRead(b) = k /\ k \in 1..5
    BY BytesReadIs DEF StopsAt
  <1>3. ASSUME NEW i \in 1..5
        PROVE  add(i) = IF i <= k
                        THEN (IF i = 5 THEN TopBits(b[i]) ELSE b[i] % 128) * 128^(i - 1)
                        ELSE 0
    BY Zenon, <1>2 DEF ByteValue
  <1>4. \A i \in 1..5 : b[i] \in Nat
    <2>1. ASSUME NEW i \in 1..5 PROVE b[i] \in Nat
      <3>1. b[i] \in Byte
        BY ElementOfSeq
      <3> QED
        BY <3>1, ByteIsNat
    <2> QED
      BY <2>1
  <1> HIDE DEF add
  <1>5. add(1) = IF 1 <= k THEN (b[1] % 128) * 128^(1 - 1) ELSE 0
    BY <1>3
  <1>6. add(2) = IF 2 <= k THEN (b[2] % 128) * 128^(2 - 1) ELSE 0
    BY <1>3
  <1>7. add(3) = IF 3 <= k THEN (b[3] % 128) * 128^(3 - 1) ELSE 0
    BY <1>3
  <1>8. add(4) = IF 4 <= k THEN (b[4] % 128) * 128^(4 - 1) ELSE 0
    BY <1>3
  <1>9. add(5) = IF 5 <= k THEN TopBits(b[5]) * 128^(5 - 1) ELSE 0
    BY <1>3
  <1>10. b[1] % 128 \in Int /\ b[2] % 128 \in Int /\ b[3] % 128 \in Int
         /\ b[4] % 128 \in Int /\ TopBits(b[5]) \in Int
    <2>1. /\ b[1] \in Int /\ b[2] \in Int /\ b[3] \in Int
          /\ b[4] \in Int /\ b[5] \in Int
      BY SMT, <1>4
    <2> QED
      BY Zenon, <2>1, SevenBits, FourBits
  <1>11. sum = ValueOf(b, k)
    BY SMTT(30), <1>2, <1>5, <1>6, <1>7, <1>8, <1>9, <1>10, Powers DEF ValueOf
  <1> HIDE DEF sum
  <1> QED
    BY <1>1, <1>2, <1>11

(* What is read of R behind A. *)
ReadAs(A, R, value, len) ==
    ReadAt(A \o R, Len(A)).value = value /\ ReadAt(A \o R, Len(A)).len = len

(* The same inside a packet, if enough bytes follow. *)
LEMMA ReadFrom ==
    ASSUME NEW A \in Seq(Byte), NEW R \in Seq(Byte), Len(R) >= 6, NEW k, StopsAt(R, k)
    PROVE  ReadAs(A, R, ValueOf(R, k), k)
  <1> DEFINE p == A \o R
             a == Len(A)
             b == SubSeq(p, a + 1, a + 5)
  <1>1. a \in Nat /\ Len(R) \in Nat
    BY LenProperties
  <1>2. /\ p \in Seq(Byte) /\ Len(p) = a + Len(R)
        /\ \A i \in 1..Len(R) : p[a + i] = R[i]
    BY Joined
  <1> HIDE DEF p
  <1>3. a + 5 < Len(p) /\ Len(p) \in Nat
    BY <1>1, <1>2
  <1>4. \A i \in (a + 1)..(a + 5) : p[i] \in Byte
    <2>1. ASSUME NEW i \in (a + 1)..(a + 5) PROVE i \in 1..Len(p)
      BY <1>1, <1>3
    <2> QED
      BY <1>2, <2>1, ElementOfSeq
  <1>5. /\ b \in Seq(Byte) /\ Len(b) = 5
        /\ \A i \in 1..5 : b[i] = p[a + i]
    BY <1>1, <1>4, SubSeqProperties
  <1> HIDE DEF b
  <1>6. ASSUME NEW i \in 1..5 PROVE b[i] = R[i]
    <2>1. i \in 1..Len(R)
      BY <1>1
    <2> QED
      BY <1>2, <1>5, <2>1
  <1>7. StopsAt(b, k)
    BY <1>6 DEF StopsAt
  <1>8. ValueOf(b, k) = ValueOf(R, k)
    <2>1. b[1] = R[1] /\ b[2] = R[2] /\ b[3] = R[3] /\ b[4] = R[4] /\ b[5] = R[5]
      BY <1>6
    <2> QED
      BY SMT, <2>1 DEF ValueOf
  <1>9. ReadAt(p, a) = String2Dword(b)
    BY <1>3 DEF ReadAt, b
  <1>10. String2Dword(b).value = ValueOf(b, k) /\ String2Dword(b).len = k
    BY Zenon, <1>5, <1>7, ReadFive
  <1>11. ReadAt(p, a).value = ValueOf(R, k) /\ ReadAt(p, a).len = k
    BY Zenon, <1>8, <1>9, <1>10
  <1> QED
    BY Zenon, <1>11 DEF ReadAs, p, a

(* The first bytes of a packet that begins with D. *)
LEMMA BeginsWith ==
    ASSUME NEW D \in Seq(Byte), NEW T \in Seq(Byte), Len(T) >= 6
    PROVE  /\ D \o T \in Seq(Byte) /\ Len(D \o T) >= 6
           /\ \A i \in 1..Len(D) : (D \o T)[i] = D[i]
           /\ \A i \in 1..Len(T) : (D \o T)[Len(D) + i] = T[i]
           /\ \A i \in 1..5 : (D \o T)[i] \in Byte
  <1> DEFINE R == D \o T
  <1>1. /\ R \in Seq(Byte) /\ Len(R) = Len(D) + Len(T)
        /\ \A i \in 1..Len(D) : R[i] = D[i]
        /\ \A i \in 1..Len(T) : R[Len(D) + i] = T[i]
    BY Joined
  <1>2. Len(D) \in Nat /\ Len(T) \in Nat
    BY LenProperties
  <1> HIDE DEF R
  <1>3. Len(R) >= 6 /\ Len(R) \in Nat
    BY <1>1, <1>2
  <1>4. ASSUME NEW i \in 1..5 PROVE R[i] \in Byte
    <2>1. i \in 1..Len(R)
      BY <1>3
    <2> QED
      BY <1>1, <2>1, ElementOfSeq
  <1> QED
    BY Zenon, <1>1, <1>3, <1>4 DEF R

(* k bytes make less than 0x80^k. *)
LEMMA ValueBound ==
    ASSUME NEW b, \A i \in 1..5 : b[i] \in Byte
    PROVE  /\ ValueOf(b, 1) < 128
           /\ ValueOf(b, 2) < 16384
           /\ ValueOf(b, 3) < 2097152
  <1>1. b[1] \in Byte /\ b[2] \in Byte /\ b[3] \in Byte
    OBVIOUS
  <1> DEFINE x == b[1] % 128
             y == b[2] % 128
             z == b[3] % 128
  <1>2. x \in 0..127 /\ y \in 0..127 /\ z \in 0..127
    BY <1>1, ByteIsNat
  <1>3. /\ ValueOf(b, 1) = x + 0 + 0 + 0 + 0
        /\ ValueOf(b, 2) = x + y * 128 + 0 + 0 + 0
        /\ ValueOf(b, 3) = x + y * 128 + z * 16384 + 0 + 0
    BY SMT DEF ValueOf
  <1> HIDE DEF x, y, z
  <1> QED
    BY SMT, <1>2, <1>3

(* The two numbers that are written without an end. *)
Unended(n, D) ==
    \/ n = 128 /\ Len(D) = 1 /\ D[1] = 128
    \/ n = 16384 /\ Len(D) = 2 /\ D[1] = 128 /\ D[2] = 128

(* A number that is not regular is read as a smaller one, unless it is     *)
(* written without an end.                                                 *)
LEMMA IrregularReads ==
    ASSUME NEW n \in Number, ~Regular(n), NEW D, D = Dword2String(n), ~Unended(n, D),
           NEW A \in Seq(Byte), NEW T \in Seq(Byte), Len(T) >= 6
    PROVE  ReadAt(A \o (D \o T), Len(A)).value < n
  <1> DEFINE R == D \o T
  <1>1. Spelled(n, D)
    BY Zenon, DwordSpelled
  <1>2. D \in Seq(Byte) /\ Len(D) = Divisions(n) + 1
    BY Zenon, <1>1 DEF Spelled
  <1>3. Divisions(n) \in 0..3
    BY SMT, LeftOf
  <1>4. /\ n \in Nat /\ n >= 128
        /\ Divisions(n) >= 1 => n >= 16384
        /\ Divisions(n) >= 2 => n >= 2097152
        /\ Divisions(n) <= 2
    BY SMT, IrregularIsShort, LeftOf
  <1>5. /\ Len(D) \in 1..3 /\ (Len(D) >= 2 => n >= 16384) /\ (Len(D) >= 3 => n >= 2097152)
    BY SMT, <1>2, <1>3, <1>4
  <1>6. /\ R \in Seq(Byte) /\ Len(R) >= 6
        /\ \A i \in 1..Len(D) : R[i] = D[i]
        /\ \A i \in 1..5 : R[i] \in Byte
    BY Zenon, <1>2, BeginsWith
  <1> HIDE DEF R
  <1>7. PICK e \in 1..Len(D) : ~(D[e] >= 128)
    <2>1. ASSUME \A i \in 1..Len(D) : D[i] >= 128
          PROVE  FALSE
      <3>1. Unended(n, D)
        BY SMT, <2>1, UnendedNumbers DEF Unended
      <3> QED
        BY <3>1
    <2> QED
      BY Zenon, <2>1
  <1>8. e \in 1..5 /\ e \in 1..3 /\ e <= Len(D)
    <2>1. Len(D) \in 1..3
      BY SMT, <1>5
    <2> DEFINE l == Len(D)
    <2>2. e \in 1..l /\ l \in 1..3
      BY Zenon, <1>7, <2>1
    <2> HIDE DEF l
    <2>3. e \in 1..5 /\ e \in 1..3 /\ e <= l
      BY <2>2
    <2> QED
      BY Zenon, <2>3 DEF l
  <1>9. ~(R[e] >= 128)
    BY Zenon, <1>6, <1>7
  <1>10. PICK k \in 1..5 : StopsAt(R, k)
    <2>1. Len(R) >= 5
      BY <1>6, LenProperties
    <2> QED
      BY Zenon, <1>6, <2>1, StopsSomewhere
  <1>11. k <= e
    <2>1. ~(e < k)
      BY Zenon, <1>8, <1>9, <1>10 DEF StopsAt
    <2> QED
      BY <1>8, <2>1
  <1>12. ReadAt(A \o R, Len(A)).value = ValueOf(R, k)
    <2>1. ReadAs(A, R, ValueOf(R, k), k)
      BY Zenon, <1>6, <1>10, ReadFrom
    <2> QED
      BY Zenon, <2>1 DEF ReadAs
  <1>13. ValueOf(R, 1) < 128 /\ ValueOf(R, 2) < 16384 /\ ValueOf(R, 3) < 2097152
    BY SMT, <1>6, ValueBound
  <1>14. ValueOf(R, k) < n
    <2>1. k = 1 \/ k = 2 \/ k = 3
      BY <1>8, <1>11
    <2>2. \A j \in 1..3 : ValueOf(R, j) \in Int
      <3>1. R[1] % 128 \in Int /\ R[2] % 128 \in Int /\ R[3] % 128 \in Int
        <4>1. R[1] \in Byte /\ R[2] \in Byte /\ R[3] \in Byte
          BY <1>6
        <4>2. R[1] \in Int /\ R[2] \in Int /\ R[3] \in Int
          BY Zenon, <4>1, ByteIsInt
        <4> QED
          BY Zenon, <4>2, SevenBits
      <3> QED
        BY SMTT(30), <3>1 DEF ValueOf
    <2>3. k <= Len(D)
      BY <1>5, <1>8, <1>11
    <2>4. CASE k = 1
      BY SMT, <1>4, <1>13, <2>2, <2>4
    <2>5. CASE k = 2
      BY SMT, <1>4, <1>5, <1>13, <2>2, <2>3, <2>5
    <2>6. CASE k = 3
      BY SMT, <1>4, <1>5, <1>13, <2>2, <2>3, <2>6
    <2> QED
      BY <2>1, <2>4, <2>5, <2>6
  <1> QED
    BY Zenon, <1>12, <1>14 DEF R

(* What follows a number without an end decides what is read: the number   *)
(* itself only if the next byte is a one and no digit follows.             *)
UnendedRead(A, D, T, n, k) ==
    LET got == ReadAt(A \o (D \o T), Len(A))
    IN  /\ got.len = k /\ k > Len(D)
        /\ got.value = n => T[1] % 128 = 1 /\ (Len(D) + 2 <= k => T[2] % 128 = 0)

LEMMA UnendedReads ==
    ASSUME NEW n, NEW D \in Seq(Byte), Unended(n, D),
           NEW A \in Seq(Byte), NEW T \in Seq(Byte), Len(T) >= 6,
           NEW k, StopsAt(D \o T, k)
    PROVE  UnendedRead(A, D, T, n, k)
  <1> DEFINE R == D \o T
             got == ReadAt(A \o R, Len(A))
  <1>1. /\ R \in Seq(Byte) /\ Len(R) >= 6
        /\ \A i \in 1..Len(D) : R[i] = D[i]
        /\ \A i \in 1..Len(T) : R[Len(D) + i] = T[i]
        /\ \A i \in 1..5 : R[i] \in Byte
    BY Zenon, BeginsWith
  <1>2. StopsAt(R, k)
    OBVIOUS
  <1> HIDE DEF R
  <1>3. got.value = ValueOf(R, k) /\ got.len = k
    <2>1. ReadAs(A, R, ValueOf(R, k), k)
      BY Zenon, <1>1, <1>2, ReadFrom
    <2> QED
      BY Zenon, <2>1 DEF ReadAs
  <1>4. k \in 1..5 /\ (k = 5 \/ R[k] < 128) /\ \A i \in 1..5 : i < k => R[i] >= 128
    BY <1>2 DEF StopsAt
  <1> DEFINE r1 == R[1] % 128
             r2 == R[2] % 128
             r3 == R[3] % 128
             r4 == R[4] % 128
             r5 == TopBits(R[5])
             val == ValueOf(R, k)
  <1>5. r1 \in 0..127 /\ r2 \in 0..127 /\ r3 \in 0..127 /\ r4 \in 0..127 /\ r5 \in (-8)..7
    <2>1. R[1] \in Byte /\ R[2] \in Byte /\ R[3] \in Byte /\ R[4] \in Byte /\ R[5] \in Byte
      BY <1>1
    <2> QED
      BY Zenon, <2>1, ByteIsInt, SevenBits, FourBits
  <1>6. val = r1 + (IF k >= 2 THEN r2 * 128 ELSE 0) + (IF k >= 3 THEN r3 * 16384 ELSE 0)
                + (IF k >= 4 THEN r4 * 2097152 ELSE 0) + (IF k >= 5 THEN r5 * 268435456 ELSE 0)
    BY SMT DEF ValueOf
  <1>7. 1 \in 1..Len(T) /\ 2 \in 1..Len(T)
    BY LenProperties
  <1>8. CASE n = 128 /\ Len(D) = 1 /\ D[1] = 128
    <2>1. R[1] = 128
      BY SMT, <1>1, <1>8
    <2>2. R[2] = T[1] /\ R[3] = T[2]
      BY SMT, <1>1, <1>7, <1>8
    <2>3. k # 1
      BY SMT, <1>4, <2>1
    <2>4. r1 = 0
      BY SMT, <2>1
    <2> HIDE DEF r1, r2, r3, r4, r5, val
    <2>5. k >= 2
      BY SMT, <1>4, <2>3
    <2>6. val = n => /\ r2 = 1
                     /\ k >= 3 => r3 = 0
      <3>1. k = 2 \/ k = 3 \/ k = 4 \/ k = 5
        BY SMT, <1>4, <2>5
      <3>2. CASE k = 2
        BY SMTT(30), <1>5, <1>6, <1>8, <2>4, <3>2
      <3>3. CASE k = 3
        BY SMTT(30), <1>5, <1>6, <1>8, <2>4, <3>3
      <3>4. CASE k = 4
        BY SMTT(30), <1>5, <1>6, <1>8, <2>4, <3>4
      <3>5. CASE k = 5
        <4>1. val = r2 * 128 + r3 * 16384 + r4 * 2097152 + r5 * 268435456
          BY SMT, <1>5, <1>6, <2>4, <3>5
        <4> QED
          BY SMTT(30), <1>5, <1>8, <4>1
      <3> QED
        BY SMT, <3>1, <3>2, <3>3, <3>4, <3>5
    <2>7. val = n => T[1] % 128 = 1 /\ (Len(D) + 2 <= k => T[2] % 128 = 0)
      <3>1. r2 = T[1] % 128 /\ r3 = T[2] % 128
        BY <2>2 DEF r2, r3
      <3> QED
        BY SMT, <1>8, <2>6, <3>1
    <2>8. k > Len(D)
      BY SMT, <1>4, <1>8, <2>3
    <2> QED
      BY SMT, <1>3, <2>7, <2>8 DEF UnendedRead, R, val
  <1>9. CASE n = 16384 /\ Len(D) = 2 /\ D[1] = 128 /\ D[2] = 128
    <2>1. R[1] = 128 /\ R[2] = 128
      BY SMT, <1>1, <1>9
    <2>2. R[3] = T[1] /\ R[4] = T[2]
      BY SMT, <1>1, <1>7, <1>9
    <2>3. k # 1 /\ k # 2
      BY SMT, <1>4, <2>1
    <2>4. r1 = 0 /\ r2 = 0
      BY SMT, <2>1
    <2> HIDE DEF r1, r2, r3, r4, r5, val
    <2>5. k >= 3
      BY SMT, <1>4, <2>3
    <2>6. val = n => /\ r3 = 1
                     /\ k >= 4 => r4 = 0
      <3>1. k = 3 \/ k = 4 \/ k = 5
        BY SMT, <1>4, <2>5
      <3>2. CASE k = 3
        BY SMTT(30), <1>5, <1>6, <1>9, <2>4, <3>2
      <3>3. CASE k = 4
        BY SMTT(30), <1>5, <1>6, <1>9, <2>4, <3>3
      <3>4. CASE k = 5
        <4>1. val = r3 * 16384 + r4 * 2097152 + r5 * 268435456
          BY SMT, <1>5, <1>6, <2>4, <3>4
        <4> QED
          BY SMTT(30), <1>5, <1>9, <4>1
      <3> QED
        BY SMT, <3>1, <3>2, <3>3, <3>4
    <2>7. val = n => T[1] % 128 = 1 /\ (Len(D) + 2 <= k => T[2] % 128 = 0)
      <3>1. r3 = T[1] % 128 /\ r4 = T[2] % 128
        BY <2>2 DEF r3, r4
      <3> QED
        BY SMT, <1>9, <2>6, <3>1
    <2>8. k > Len(D)
      BY SMT, <1>4, <1>9, <2>5
    <2> QED
      BY SMT, <1>3, <2>7, <2>8 DEF UnendedRead, R, val
  <1> QED
    BY SMT, <1>8, <1>9 DEF Unended

(* A number without an end is read right only if the integer behind it     *)
(* begins with a one; and then that integer is swallowed whole.            *)
Swallows(A, C, P, U, m) ==
    /\ m % 128 = 1
    /\ ReadAt(A \o (C \o (P \o U)), Len(A)).len = Len(C) + Len(P)

LEMMA ReadsTwo ==
    ASSUME NEW n, NEW C \in Seq(Byte), Unended(n, C),
           NEW m \in Number, NEW P, P = Dword2String(m),
           NEW A \in Seq(Byte), NEW U \in Seq(Byte), Len(U) >= 6,
           ReadAt(A \o (C \o (P \o U)), Len(A)).value = n
    PROVE  Swallows(A, C, P, U, m)
  <1> DEFINE T == P \o U
             R == C \o T
             got == ReadAt(A \o R, Len(A))
  <1>1. P \in Seq(Byte) /\ Len(P) \in 1..5
    <2>1. m \in Nat
      BY SMT, NumberIsNat
    <2> QED
      BY Zenon, <2>1, DwordBytes
  <1>2. /\ T \in Seq(Byte) /\ Len(T) >= 6
        /\ \A i \in 1..Len(P) : T[i] = P[i]
    BY Zenon, <1>1, BeginsWith
  <1>3. got.value = n
    OBVIOUS
  <1> HIDE DEF T
  <1>4. /\ R \in Seq(Byte) /\ Len(R) >= 6
        /\ \A i \in 1..Len(T) : R[Len(C) + i] = T[i]
    BY Zenon, <1>2, BeginsWith
  <1>5. PICK k \in 1..5 : StopsAt(R, k)
    <2>1. Len(R) >= 5
      BY <1>4, LenProperties
    <2> QED
      BY Zenon, <1>4, <2>1, StopsSomewhere
  <1>6. /\ got.len = k /\ k > Len(C)
        /\ T[1] % 128 = 1
        /\ Len(C) + 2 <= k => T[2] % 128 = 0
    <2>1. UnendedRead(A, C, T, n, k)
      BY Zenon, <1>2, <1>5, UnendedReads
    <2> QED
      BY Zenon, <1>3, <2>1 DEF UnendedRead
  <1> HIDE DEF R, got
  <1>7. m % 128 = 1
    <2>1. T[1] = P[1]
      <3>1. \A x \in 1..5 : 1 \in 1..x
        OBVIOUS
      <3> QED
        BY Zenon, <1>1, <1>2, <3>1
    <2>2. P[1] % 128 = m % 128
      BY Zenon, LowestByte
    <2> QED
      BY Zenon, <1>6, <2>1, <2>2
  <1>8. /\ Len(P) \in 1..4
        /\ \A i \in 1..Len(P) : P[i] < 128 <=> i = Len(P)
        /\ Len(P) = 4 => P[2] % 128 # 0
    BY ZenonT(40), <1>7, OneEndsWell
  <1>9. Len(C) = 1 \/ Len(C) = 2
    BY SMT DEF Unended
  <1> DEFINE j == Len(C)
             l == Len(P)
  <1>10. l \in 1..4 /\ (j = 1 \/ j = 2) /\ k \in 1..5 /\ k > j
    BY Zenon, <1>5, <1>6, <1>8, <1>9
  <1>11. ASSUME NEW i \in 1..l PROVE R[j + i] = P[i]
    <2>1. i \in 1..Len(T)
      <3>1. Len(T) \in Nat /\ Len(T) >= 6
        BY <1>2, LenProperties
      <3> HIDE DEF l
      <3> QED
        BY <1>10, <3>1
    <2> QED
      BY Zenon, <1>2, <1>4, <2>1
  <1>12. (k = 5 \/ R[k] < 128) /\ \A i \in 1..5 : i < k => R[i] >= 128
    BY Zenon, <1>5 DEF StopsAt
  <1>13. \A i \in 1..l : P[i] \in Int
    <2>1. \A i \in 1..l : P[i] \in Byte
      BY <1>1, ElementOfSeq
    <2> QED
      BY Zenon, <2>1, ByteIsInt
  <1> HIDE DEF j, l
  <1>14. ~(k > j + l)
    <2>1. SUFFICES ASSUME k > j + l PROVE FALSE
      OBVIOUS
    <2>2. l \in 1..l /\ j + l \in 1..5 /\ j + l < k
      BY <1>10, <2>1
    <2>3. R[j + l] >= 128 /\ R[j + l] = P[l] /\ P[l] \in Int
      BY <1>11, <1>12, <1>13, <2>2
    <2>4. P[l] < 128
      BY Zenon, <1>8, <2>2 DEF l
    <2> QED
      BY <2>3, <2>4
  <1>15. ~(k < j + l)
    <2>1. SUFFICES ASSUME k < j + l PROVE FALSE
      OBVIOUS
    <2> DEFINE i == k - j
    <2>2. i \in 1..l /\ i # l /\ j + i = k
      BY <1>10, <2>1
    <2> HIDE DEF i
    <2>3. R[k] = P[i] /\ P[i] \in Int
      BY <1>11, <1>13, <2>2
    <2>4. ~(P[i] < 128)
      BY Zenon, <1>8, <2>2 DEF l
    <2>5. k = 5
      BY Zenon, <1>12, <2>3, <2>4
    <2>6. l = 4 /\ j = 2
      BY <1>10, <2>1, <2>5
    <2>7. j + 2 <= k /\ 2 \in 1..l
      BY <2>5, <2>6
    <2>8. T[2] % 128 = 0 /\ T[2] = P[2]
      BY Zenon, <1>2, <1>6, <2>7 DEF j, l
    <2>9. P[2] % 128 # 0
      BY Zenon, <1>8, <2>6 DEF l
    <2> QED
      BY Zenon, <2>8, <2>9
  <1>16. k = j + l
    BY <1>10, <1>14, <1>15
  <1>17. got.len = Len(C) + Len(P)
    BY Zenon, <1>6, <1>16 DEF j, l
  <1> QED
    BY Zenon, <1>7, <1>17 DEF Swallows, got, R, T

(* The three integers are read one behind the other, from at on. *)
ThreeReads(kind, pack, at) ==
    LET got == UnPackHeader(kind, pack)
        pbAt == at + ReadAt(pack, at).len
        zipAt == pbAt + ReadAt(pack, pbAt).len
    IN  /\ got.cgi = ReadAt(pack, at).value
        /\ got.pb = ReadAt(pack, pbAt).value
        /\ got.zip = ReadAt(pack, zipAt).value

(* No unmarked packet looks like a marked one, and the length of the       *)
(* cookie is true.                                                         *)
FrontRight(a, b, cookieLen) == a # 191 /\ b % 16 = cookieLen

(* UnPackHeader finds the first integer of a packet behind its first bytes *)
(* if these are right.                                                     *)
LEMMA IntegersAt ==
    ASSUME NEW kind \in Kinds, NEW mark \in {0, 1}, NEW a \in Byte, NEW b \in Byte,
           NEW cookieLen \in {0, 15}, FrontRight(a, b, cookieLen),
           NEW H, IsFront(H, mark, a, b, cookieLen), NEW R \in Seq(Byte)
    PROVE  ThreeReads(kind, H \o R, Len(H))
  <1> DEFINE pack == H \o R
  <1>1. /\ H \in Seq(Byte) /\ Len(H) = mark + 10 + cookieLen
        /\ mark = 1 => H[1] = 191
        /\ H[mark + 1] = a /\ H[mark + 2] = b
    BY Zenon DEF IsFront
  <1>2. a # 191 /\ b % 16 = cookieLen
    BY DEF FrontRight
  <1>3. H[1] = 191 <=> mark = 1
    <2>1. CASE mark = 1
      BY <1>1, <2>1
    <2>2. CASE mark = 0
      <3>1. H[1] = a
        BY <1>1, <2>2
      <3> QED
        BY <1>2, <2>2, <3>1
    <2> QED
      BY <2>1, <2>2
  <1>4. /\ pack[1] = H[1] /\ pack[mark + 1] = H[mark + 1] /\ pack[mark + 2] = H[mark + 2]
    <2>1. \A i \in 1..Len(H) : pack[i] = H[i]
      BY <1>1, Joined
    <2>2. 1 \in 1..Len(H) /\ mark + 1 \in 1..Len(H) /\ mark + 2 \in 1..Len(H)
      BY <1>1
    <2> QED
      BY Zenon, <2>1, <2>2
  <1> HIDE DEF pack
  <1> DEFINE mk == IF pack[1] = 191 THEN 1 ELSE 0
             nc == pack[mk + 2] % 16
             cgiAt == mk + 10 + CookieSkip(kind, nc)
             pbAt == cgiAt + ReadAt(pack, cgiAt).len
             zipAt == pbAt + ReadAt(pack, pbAt).len
             got == UnPackHeader(kind, pack)
  <1>5. got = [body |-> SubSeq(pack, pack[mk + 1] \div 4 + 1, Len(pack)),
               compressed |-> pack[mk + 1] % 4 = 1,
               nCookieLen |-> nc,
               cgi |-> ReadAt(pack, cgiAt).value,
               pb |-> ReadAt(pack, pbAt).value,
               zip |-> ReadAt(pack, zipAt).value]
    BY Zenon DEF UnPackHeader, ReadAt
  <1>6. mk = mark
    BY <1>3, <1>4
  <1> HIDE DEF mk
  <1>7. nc = cookieLen
    BY Zenon, <1>2, <1>1, <1>4, <1>6
  <1> HIDE DEF nc
  <1>8. CookieSkip(kind, cookieLen) = cookieLen
    BY DEF CookieSkip, Kinds
  <1>9. cgiAt = Len(H)
    BY <1>1, <1>6, <1>7, <1>8
  <1> HIDE DEF cgiAt, pbAt, zipAt, got
  <1>10. /\ got.cgi = ReadAt(pack, cgiAt).value
        /\ got.pb = ReadAt(pack, pbAt).value
        /\ got.zip = ReadAt(pack, zipAt).value
    BY <1>5
  <1> QED
    BY Zenon, <1>9, <1>10 DEF ThreeReads, pack, got, pbAt, zipAt

(* A request as UnPackHeader meets it: the first bytes are right and the   *)
(* three integers follow, then what fills the header and the body.         *)
RequestParts(kind, cgi, pb, zip, H, F) ==
    /\ H \in Seq(Byte)
    /\ MakeHeader(kind, cgi, pb, zip) \o Body
         = Packed(H, Dword2String(cgi), Dword2String(pb), Dword2String(zip), F, Body)
    /\ \A R \in Seq(Byte) : ThreeReads(kind, H \o R, Len(H))

LEMMA RequestHasParts ==
    ASSUME NEW kind \in Kinds, NEW cgi \in Nat, NEW pb \in Nat, NEW zip \in Nat,
           kind = "Base" => m_cookie = 15
    PROVE  \E H : RequestParts(kind, cgi, pb, zip, H, Trailer(kind))
  <1> DEFINE c == Dword2String(cgi)
             p == Dword2String(pb)
             z == Dword2String(zip)
             ints == (c \o p) \o z
             l == Len(ints)
             mark == Layout[kind].mark
             cookie == Layout[kind].cookie
             tail == Layout[kind].tail
             crypt == Layout[kind].crypt
             flag == CompressFlag(kind, pb, zip)
             nCur == mark + 10 + cookie + l + tail
             a == (flag + 4 * nCur) % 256
             b == 16 * crypt + cookie
             H == Front(mark, a, b, cookie)
  <1>1. CookieBytes(kind) = cookie
    BY DEF CookieBytes, Layout, Kinds
  <1>2. MakeHeader(kind, cgi, pb, zip) \o Body = Packed(H, c, p, z, Trailer(kind), Body)
    BY ZenonT(40), <1>1 DEF MakeHeader, Packed, Front
  <1>3. mark \in {0, 1} /\ cookie \in {0, 15} /\ tail \in 0..15 /\ crypt \in 0..7
    BY LayoutOf
  <1>4. flag \in {1, 2}
    BY DEF CompressFlag, Kinds
  <1>5. l \in 3..15
    <2>1. /\ c \in Seq(Byte) /\ Len(c) \in 1..5 /\ p \in Seq(Byte) /\ Len(p) \in 1..5
          /\ z \in Seq(Byte) /\ Len(z) \in 1..5
      BY DwordBytes
    <2> DEFINE cp == c \o p
               lc == Len(c)
               lp == Len(p)
               lz == Len(z)
               lcp == Len(cp)
    <2> HIDE DEF c, p, z
    <2>2. cp \in Seq(Byte) /\ lcp = lc + lp
      BY <2>1, Joined
    <2> HIDE DEF cp
    <2>3. Len(cp \o z) = lcp + lz
      BY <2>1, <2>2, Joined
    <2>4. l = lcp + lz
      BY <2>3 DEF cp
    <2>5. lc \in 1..5 /\ lp \in 1..5 /\ lz \in 1..5
      BY <2>1
    <2> HIDE DEF l, lc, lp, lz, lcp
    <2> QED
      BY <2>2, <2>4, <2>5
  <1> HIDE DEF c, p, z, ints, l, mark, cookie, tail, crypt, flag
  <1>6. nCur \in 0..56
    BY <1>3, <1>5
  <1> HIDE DEF nCur
  <1>7. a \in Byte /\ a # 191
    BY <1>4, <1>6 DEF Byte
  <1>8. b \in Byte /\ b % 16 = cookie
    BY <1>3 DEF Byte
  <1> HIDE DEF a, b
  <1>9. IsFront(H, mark, a, b, cookie)
    <2>1. mark \in {0, 1} /\ cookie \in {0, 15} /\ a \in Byte /\ b \in Byte
      BY <1>3, <1>7, <1>8
    <2> QED
      BY Zenon, <2>1, FrontBytes
  <1> HIDE DEF H
  <1>10. H \in Seq(Byte)
    BY Zenon, <1>9 DEF IsFront
  <1>11. ASSUME NEW R \in Seq(Byte) PROVE ThreeReads(kind, H \o R, Len(H))
    <2>1. mark \in {0, 1} /\ cookie \in {0, 15} /\ a \in Byte /\ b \in Byte
      BY <1>3, <1>7, <1>8
    <2>2. FrontRight(a, b, cookie)
      BY <1>7, <1>8 DEF FrontRight
    <2> QED
      BY Zenon, <1>9, <2>1, <2>2, IntegersAt
  <1>12. RequestParts(kind, cgi, pb, zip, H, Trailer(kind))
    BY Zenon, <1>2, <1>10, <1>11 DEF RequestParts, c, p, z
  <1> QED
    BY Zenon, <1>12

(* A regular number is read right wherever it stands. *)
LEMMA RegularReads ==
    ASSUME NEW n \in Number, Regular(n), NEW D, D = Dword2String(n),
           NEW A \in Seq(Byte), NEW T \in Seq(Byte), Len(T) >= 6
    PROVE  ReadAs(A, D \o T, n, Len(D))
  <1>1. D = Varint(n)
    BY Zenon, DwordIsVarint
  <1>2. D \in Seq(Byte) /\ Len(D) = Size(n)
    BY Zenon, <1>1, VarintBytes
  <1>3. Associates(A, D, T)
    BY Zenon, <1>2, Associative
  <1> DEFINE got == ReadAt((A \o D) \o T, Len(A))
  <1>4. got = [value |-> n, len |-> Size(n)]
    BY Zenon, <1>1, ReadInside
  <1> HIDE DEF got
  <1>5. got.value = n /\ got.len = Len(D)
    BY <1>2, <1>4
  <1> QED
    BY Zenon, <1>3, <1>5 DEF ReadAs, Associates, got

(* A number that is not regular is read right only in front of a one. *)
BeforeOne(n, D, T) == Unended(n, D) /\ T[1] % 128 = 1

LEMMA IrregularReadRight ==
    ASSUME NEW n \in Number, ~Regular(n), NEW D, D = Dword2String(n),
           NEW A \in Seq(Byte), NEW T \in Seq(Byte), Len(T) >= 6,
           ReadAt(A \o (D \o T), Len(A)).value = n
    PROVE  BeforeOne(n, D, T)
  <1>1. n \in Nat
    BY SMT, NumberIsNat
  <1>2. D \in Seq(Byte)
    BY Zenon, <1>1, DwordBytes
  <1>3. Unended(n, D)
    <2>1. SUFFICES ASSUME ~Unended(n, D) PROVE FALSE
      BY Zenon
    <2>2. ReadAt(A \o (D \o T), Len(A)).value < n
      BY Zenon, <2>1, IrregularReads
    <2> QED
      BY SMT, <1>1, <2>2
  <1> DEFINE R == D \o T
  <1>4. R \in Seq(Byte) /\ Len(R) >= 6
    BY Zenon, <1>2, BeginsWith
  <1>5. PICK k \in 1..5 : StopsAt(R, k)
    <2> HIDE DEF R
    <2>1. Len(R) >= 5
      BY <1>4, LenProperties
    <2> QED
      BY Zenon, <1>4, <2>1, StopsSomewhere
  <1>6. UnendedRead(A, D, T, n, k)
    BY Zenon, <1>2, <1>3, <1>5, UnendedReads
  <1> QED
    BY Zenon, <1>3, <1>6 DEF UnendedRead, BeforeOne

(* The lowest digit of what is read is that of the first byte. *)
LEMMA LowestRead ==
    ASSUME NEW b, \A i \in 1..5 : b[i] \in Byte, NEW k \in 1..5
    PROVE  ValueOf(b, k) % 128 = b[1] % 128
  <1> DEFINE r1 == b[1] % 128
             r2 == b[2] % 128
             r3 == b[3] % 128
             r4 == b[4] % 128
             r5 == TopBits(b[5])
             val == ValueOf(b, k)
  <1>1. r1 \in 0..127 /\ r2 \in Int /\ r3 \in Int /\ r4 \in Int /\ r5 \in Int
    <2>1. b[1] \in Byte /\ b[2] \in Byte /\ b[3] \in Byte /\ b[4] \in Byte /\ b[5] \in Byte
      OBVIOUS
    <2> QED
      BY Zenon, <2>1, ByteIsInt, SevenBits, FourBits
  <1>2. val = r1 + (IF k >= 2 THEN r2 * 128 ELSE 0) + (IF k >= 3 THEN r3 * 16384 ELSE 0)
                + (IF k >= 4 THEN r4 * 2097152 ELSE 0) + (IF k >= 5 THEN r5 * 268435456 ELSE 0)
    BY SMT DEF ValueOf
  <1> HIDE DEF r1, r2, r3, r4, r5, val
  <1> DEFINE q == (IF k >= 2 THEN r2 ELSE 0) + (IF k >= 3 THEN r3 * 128 ELSE 0)
                    + (IF k >= 4 THEN r4 * 16384 ELSE 0) + (IF k >= 5 THEN r5 * 2097152 ELSE 0)
  <1>3. q \in Int /\ val = r1 + 128 * q
    BY SMTT(30), <1>1, <1>2
  <1> HIDE DEF q
  <1>4. val % 128 = r1
    BY SMT, <1>1, <1>3
  <1> QED
    BY Zenon, <1>4 DEF val, r1

(* Where something with a one for its lowest digit is read, an integer     *)
(* with that digit was written, and it is read to its end.                 *)
OneAtEnd(A, D, T, m) == m % 128 = 1 /\ ReadAt(A \o (D \o T), Len(A)).len = Len(D)

LEMMA OneReads ==
    ASSUME NEW m \in Number, NEW D, D = Dword2String(m),
           NEW A \in Seq(Byte), NEW T \in Seq(Byte), Len(T) >= 6,
           ReadAt(A \o (D \o T), Len(A)).value % 128 = 1
    PROVE  OneAtEnd(A, D, T, m)
  <1> DEFINE R == D \o T
             l == Len(D)
  <1>1. D \in Seq(Byte) /\ l \in 1..5
    <2>1. m \in Nat
      BY SMT, NumberIsNat
    <2> QED
      BY Zenon, <2>1, DwordBytes
  <1>2. /\ R \in Seq(Byte) /\ Len(R) >= 6
        /\ \A i \in 1..Len(D) : R[i] = D[i]
        /\ \A i \in 1..5 : R[i] \in Byte
    BY Zenon, <1>1, BeginsWith
  <1>3. ReadAt(A \o R, Len(A)).value % 128 = 1
    OBVIOUS
  <1> HIDE DEF R
  <1>4. PICK k \in 1..5 : StopsAt(R, k)
    <2>1. Len(R) >= 5
      BY <1>2, LenProperties
    <2> QED
      BY Zenon, <1>2, <2>1, StopsSomewhere
  <1>5. m % 128 = 1
    <2>1. ReadAs(A, R, ValueOf(R, k), k)
      BY Zenon, <1>2, <1>4, ReadFrom
    <2>2. ValueOf(R, k) % 128 = 1
      BY Zenon, <1>3, <2>1 DEF ReadAs
    <2>3. ValueOf(R, k) % 128 = R[1] % 128
      BY Zenon, <1>2, LowestRead
    <2>4. R[1] = D[1]
      <3>1. \A x \in 1..5 : 1 \in 1..x
        OBVIOUS
      <3> QED
        BY Zenon, <1>1, <1>2, <3>1
    <2>5. D[1] % 128 = m % 128
      BY Zenon, LowestByte
    <2> QED
      BY Zenon, <2>2, <2>3, <2>4, <2>5
  <1>6. /\ l \in 1..4
        /\ \A i \in 1..l : D[i] < 128 <=> i = l
    BY ZenonT(40), <1>5, OneEndsWell
  <1> HIDE DEF l
  <1>7. \A i \in 1..l : R[i] = D[i] /\ R[i] \in Int
    <2>1. \A i \in 1..l : i \in 1..5
      BY <1>6
    <2>2. \A i \in 1..l : R[i] = D[i]
      BY Zenon, <1>2 DEF l
    <2> QED
      BY Zenon, <1>2, <2>1, <2>2, ByteIsInt
  <1>8. StopsAt(R, l)
    <2>1. l \in 1..5 /\ l \in 1..l
      BY <1>6
    <2>2. R[l] < 128
      BY Zenon, <1>6, <1>7, <2>1
    <2>3. ASSUME NEW i \in 1..5, i < l PROVE R[i] >= 128
      <3>1. i \in 1..l /\ i # l
        BY <1>6, <2>3
      <3>2. ~(R[i] < 128) /\ R[i] \in Int
        BY Zenon, <1>6, <1>7, <3>1
      <3> QED
        BY SMT, <3>2
    <2> QED
      BY Zenon, <2>1, <2>2, <2>3 DEF StopsAt
  <1>9. ReadAs(A, R, ValueOf(R, l), l)
    BY Zenon, <1>2, <1>8, ReadFrom
  <1> QED
    BY Zenon, <1>5, <1>9 DEF OneAtEnd, ReadAs, R, l

(* What is read where the three integers end: nothing, or LOGIN_RSA_VER. *)
OfTrailer(value) == value = 0 \/ value = 158

LEMMA TrailerReads ==
    ASSUME NEW A \in Seq(Byte), NEW T \in Seq(Byte), Len(T) >= 6, TrailerBegins(T)
    PROVE  OfTrailer(ReadAt(A \o T, Len(A)).value)
  <1>1. CASE T[1] = 0
    <2>1. StopsAt(T, 1)
      BY <1>1 DEF StopsAt
    <2>2. ReadAs(A, T, ValueOf(T, 1), 1)
      BY Zenon, <2>1, ReadFrom
    <2>3. ValueOf(T, 1) = 0
      BY SMT, <1>1 DEF ValueOf
    <2> QED
      BY Zenon, <2>2, <2>3 DEF ReadAs, OfTrailer
  <1>2. CASE T[1] = 158 /\ T[2] = 1
    <2>1. StopsAt(T, 2)
      BY SMT, <1>2 DEF StopsAt
    <2>2. ReadAs(A, T, ValueOf(T, 2), 2)
      BY Zenon, <2>1, ReadFrom
    <2>3. ValueOf(T, 2) = 158
      BY SMT, <1>2 DEF ValueOf
    <2> QED
      BY Zenon, <2>2, <2>3 DEF ReadAs, OfTrailer
  <1> QED
    BY <1>1, <1>2 DEF TrailerBegins

(* The end of the header and the body. *)
LEMMA TrailerAndBody ==
    ASSUME NEW kind \in Kinds
    PROVE  LET T == Trailer(kind) \o Body
           IN  T \in Seq(Byte) /\ Len(T) >= 6 /\ TrailerBegins(T)
  <1> DEFINE F == Trailer(kind)
             T == F \o Body
  <1>1. F \in Seq(Byte) /\ Len(F) \in 3..15 /\ TrailerBegins(F)
    BY Zenon, TrailerBytes
  <1>2. Body \in Seq(Byte) /\ Len(Body) = 16
    BY DEF Body, Byte
  <1> HIDE DEF F
  <1>3. /\ T \in Seq(Byte) /\ Len(T) = Len(F) + Len(Body)
        /\ \A i \in 1..Len(F) : T[i] = F[i]
    BY Zenon, <1>1, <1>2, Joined
  <1> HIDE DEF T
  <1>4. Len(T) >= 6 /\ 1 \in 1..Len(F) /\ 2 \in 1..Len(F)
    <2> DEFINE f == Len(F)
               t == Len(T)
    <2>1. f \in 3..15 /\ t = f + 16
      BY Zenon, <1>1, <1>2, <1>3
    <2> HIDE DEF f, t
    <2>2. t >= 6 /\ 1 \in 1..f /\ 2 \in 1..f
      BY SMT, <2>1
    <2> QED
      BY Zenon, <2>2 DEF f, t
  <1>5. TrailerBegins(T)
    BY Zenon, <1>1, <1>3, <1>4 DEF TrailerBegins
  <1> QED
    BY Zenon, <1>3, <1>4, <1>5 DEF T, F

(* The server finds the three integers that were meant. *)
IntegersRead(kind, cgi, pb, zip) ==
    LET got == UnPackHeader(kind, MakeHeader(kind, cgi, pb, zip) \o Body)
    IN  got.cgi = cgi /\ got.pb = pb /\ got.zip = zip

(* It does so only if all three are regular.  A number that is not         *)
(* regular is read right only if it swallows the integer behind it, whose  *)
(* lowest digit then is a one.  So either the length swallows the          *)
(* compressed length, or the cgi type swallows the length and the          *)
(* compressed length is taken for it; the lowest digit of the compressed   *)
(* length is a one in both cases.  But what is read for it stands behind   *)
(* the integers, and is zero or LOGIN_RSA_VER.                             *)
LEMMA OnlyRegularRead ==
    ASSUME NEW kind \in Kinds, NEW cgi \in Number, NEW pb \in Number, NEW zip \in Number,
           kind = "Base" => m_cookie = 15,
           IntegersRead(kind, cgi, pb, zip)
    PROVE  Regular(cgi) /\ Regular(pb) /\ Regular(zip)
  <1> DEFINE F == Trailer(kind)
             pack == MakeHeader(kind, cgi, pb, zip) \o Body
             C == Dword2String(cgi)
             P == Dword2String(pb)
             Z == Dword2String(zip)
             T == F \o Body
             zT == Z \o T
             pzT == P \o zT
  <1>1. cgi \in Nat /\ pb \in Nat /\ zip \in Nat
    BY Zenon, NumberIsNat
  <1>2. PICK H : RequestParts(kind, cgi, pb, zip, H, F)
    BY Zenon, <1>1, RequestHasParts
  <1>3. /\ H \in Seq(Byte)
        /\ pack = Packed(H, C, P, Z, F, Body)
        /\ \A R \in Seq(Byte) : ThreeReads(kind, H \o R, Len(H))
    BY Zenon, <1>2 DEF RequestParts
  <1>5. T \in Seq(Byte) /\ Len(T) >= 6 /\ TrailerBegins(T)
    BY Zenon, TrailerAndBody
  <1>6. /\ C \in Seq(Byte) /\ Len(C) \in 1..5 /\ P \in Seq(Byte) /\ Len(P) \in 1..5
        /\ Z \in Seq(Byte) /\ Len(Z) \in 1..5
    BY Zenon, <1>1, DwordBytes
  <1>7. LET got == UnPackHeader(kind, pack) IN got.cgi = cgi /\ got.pb = pb /\ got.zip = zip
    BY Zenon DEF IntegersRead
  <1>8. F \in Seq(Byte) /\ Body \in Seq(Byte)
    <2>1. Body \in Seq(Byte)
      BY DEF Body, Byte
    <2> QED
      BY Zenon, <2>1, TrailerBytes
  <1> DEFINE Hc == H \o C
             Hcp == Hc \o P
             Hcpz == Hcp \o Z
  <1>9. /\ pack = Hcpz \o T /\ pack = Hcp \o zT /\ pack = Hc \o pzT
        /\ pack = H \o (C \o pzT)
    <2>1. Regrouped(H, C, P, Z, F, Body)
      BY Zenon, <1>3, <1>6, <1>8, PackParts
    <2> QED
      BY Zenon, <1>3, <2>1 DEF Regrouped
  <1>10. C = Dword2String(cgi) /\ P = Dword2String(pb) /\ Z = Dword2String(zip)
    OBVIOUS
  <1> HIDE DEF F, pack, C, P, Z, T
  <1>11. /\ zT \in Seq(Byte) /\ Len(zT) >= 6 /\ zT[1] = Z[1]
         /\ Hc \in Seq(Byte) /\ Len(Hc) = Len(H) + Len(C)
    <2>1. zT \in Seq(Byte) /\ Len(zT) >= 6 /\ \A i \in 1..Len(Z) : zT[i] = Z[i]
      BY Zenon, <1>5, <1>6, BeginsWith
    <2>2. \A x \in 1..5 : 1 \in 1..x
      OBVIOUS
    <2>3. Hc \in Seq(Byte) /\ Len(Hc) = Len(H) + Len(C)
      BY Zenon, <1>3, <1>6, Joined
    <2> QED
      BY Zenon, <1>6, <2>1, <2>2, <2>3
  <1> HIDE DEF zT, Hc
  <1>12. /\ pzT \in Seq(Byte) /\ Len(pzT) >= 6
         /\ Hcp \in Seq(Byte) /\ Len(Hcp) = Len(Hc) + Len(P)
    <2>1. pzT \in Seq(Byte) /\ Len(pzT) >= 6
      BY Zenon, <1>6, <1>11, BeginsWith
    <2>2. Hcp \in Seq(Byte) /\ Len(Hcp) = Len(Hc) + Len(P)
      BY Zenon, <1>6, <1>11, Joined
    <2> QED
      BY Zenon, <2>1, <2>2
  <1> HIDE DEF pzT, Hcp
  <1>13. Hcpz \in Seq(Byte) /\ Len(Hcpz) = Len(Hcp) + Len(Z)
    BY Zenon, <1>6, <1>12, Joined
  <1> HIDE DEF Hcpz
  <1> DEFINE pbAt == Len(H) + ReadAt(pack, Len(H)).len
             zipAt == pbAt + ReadAt(pack, pbAt).len
  <1>14. /\ ReadAt(pack, Len(H)).value = cgi
         /\ ReadAt(pack, pbAt).value = pb
         /\ ReadAt(pack, zipAt).value = zip
    <2> DEFINE R == C \o pzT
    <2>1. R \in Seq(Byte)
      BY Zenon, <1>6, <1>12, Joined
    <2>2. pack = H \o R
      BY Zenon, <1>9
    <2> HIDE DEF R
    <2>3. ThreeReads(kind, pack, Len(H))
      BY Zenon, <1>3, <2>1, <2>2
    <2> QED
      BY Zenon, <1>7, <2>3 DEF ThreeReads
  <1> HIDE DEF pbAt, zipAt
  <1>15. ASSUME zipAt = Len(Hcpz), zip % 128 = 1 PROVE FALSE
    <2>1. OfTrailer(ReadAt(Hcpz \o T, Len(Hcpz)).value)
      BY Zenon, <1>5, <1>13, TrailerReads
    <2>2. OfTrailer(zip)
      BY Zenon, <1>9, <1>14, <1>15, <2>1
    <2> QED
      BY SMT, <1>15, <2>2 DEF OfTrailer
  <1>16. /\ Len(H) \in Nat /\ Len(C) \in Nat /\ Len(P) \in Nat /\ Len(Z) \in Nat
         /\ Len(Hcpz) = ((Len(H) + Len(C)) + Len(P)) + Len(Z)
    <2>1. Len(H) \in Nat /\ Len(C) \in Nat /\ Len(P) \in Nat /\ Len(Z) \in Nat
      BY Zenon, <1>3, <1>6, LenProperties
    <2> QED
      BY Zenon, <1>11, <1>12, <1>13, <2>1
  \* The cgi type.
  <1>17. Regular(cgi)
    <2>1. SUFFICES ASSUME ~Regular(cgi) PROVE FALSE
      BY Zenon
    <2>2. ReadAt(H \o (C \o pzT), Len(H)).value = cgi
      BY Zenon, <1>9, <1>14
    <2>3. Unended(cgi, C)
      <3>1. BeforeOne(cgi, C, pzT)
        BY Zenon, <1>3, <1>10, <1>12, <2>1, <2>2, IrregularReadRight
      <3> QED
        BY Zenon, <3>1 DEF BeforeOne
    <2>4. pb % 128 = 1 /\ ReadAt(H \o (C \o pzT), Len(H)).len = Len(C) + Len(P)
      <3>1. ReadAt(H \o (C \o (P \o zT)), Len(H)).value = cgi
        BY Zenon, <2>2 DEF pzT
      <3>2. Swallows(H, C, P, zT, pb)
        BY Zenon, <1>3, <1>6, <1>10, <1>11, <2>3, <3>1, ReadsTwo
      <3> QED
        BY Zenon, <3>2 DEF Swallows, pzT
    <2>5. pbAt = Len(Hcp)
      <3>1. pbAt = Len(H) + (Len(C) + Len(P))
        BY Zenon, <1>9, <2>4 DEF pbAt
      <3>2. Len(Hcp) = (Len(H) + Len(C)) + Len(P)
        BY Zenon, <1>11, <1>12
      <3> QED
        BY SMT, <1>16, <3>1, <3>2
    <2>6. ReadAt(Hcp \o (Z \o T), Len(Hcp)).value % 128 = 1
      BY Zenon, <1>9, <1>14, <2>4, <2>5 DEF zT
    <2>7. zip % 128 = 1 /\ ReadAt(Hcp \o (Z \o T), Len(Hcp)).len = Len(Z)
      <3>1. OneAtEnd(Hcp, Z, T, zip)
        BY Zenon, <1>5, <1>10, <1>12, <2>6, OneReads
      <3> QED
        BY Zenon, <3>1 DEF OneAtEnd
    <2>8. zipAt = Len(Hcpz)
      BY Zenon, <1>9, <1>13, <2>5, <2>7 DEF zT, zipAt
    <2> QED
      BY Zenon, <1>15, <2>7, <2>8
  \* The length of the body.
  <1>18. pbAt = Len(Hc)
    <2>1. ReadAs(H, C \o pzT, cgi, Len(C))
      BY Zenon, <1>3, <1>10, <1>12, <1>17, RegularReads
    <2> QED
      BY Zenon, <1>9, <1>11, <2>1 DEF ReadAs, pbAt
  <1>19. Regular(pb)
    <2>1. SUFFICES ASSUME ~Regular(pb) PROVE FALSE
      BY Zenon
    <2>2. ReadAt(Hc \o (P \o zT), Len(Hc)).value = pb
      BY Zenon, <1>9, <1>14, <1>18 DEF pzT
    <2>3. Unended(pb, P)
      <3>1. BeforeOne(pb, P, zT)
        BY Zenon, <1>10, <1>11, <2>1, <2>2, IrregularReadRight
      <3> QED
        BY Zenon, <3>1 DEF BeforeOne
    <2>4. zip % 128 = 1 /\ ReadAt(Hc \o (P \o zT), Len(Hc)).len = Len(P) + Len(Z)
      <3>1. ReadAt(Hc \o (P \o (Z \o T)), Len(Hc)).value = pb
        BY Zenon, <2>2 DEF zT
      <3>2. Swallows(Hc, P, Z, T, zip)
        BY Zenon, <1>5, <1>6, <1>10, <1>11, <2>3, <3>1, ReadsTwo
      <3> QED
        BY Zenon, <3>2 DEF Swallows, zT
    <2>5. zipAt = Len(Hcpz)
      <3>1. zipAt = (Len(H) + Len(C)) + (Len(P) + Len(Z))
        BY Zenon, <1>9, <1>11, <1>18, <2>4 DEF zipAt, pzT
      <3> QED
        BY SMT, <1>16, <3>1
    <2> QED
      BY Zenon, <1>15, <2>4, <2>5
  \* The compressed length.
  <1>20. zipAt = Len(Hcp)
    <2>1. ReadAs(Hc, P \o zT, pb, Len(P))
      BY Zenon, <1>10, <1>11, <1>19, RegularReads
    <2> QED
      BY Zenon, <1>9, <1>12, <1>18, <2>1 DEF ReadAs, pzT, zipAt
  <1>21. Regular(zip)
    <2>1. SUFFICES ASSUME ~Regular(zip) PROVE FALSE
      BY Zenon
    <2>2. ReadAt(Hcp \o (Z \o T), Len(Hcp)).value = zip
      BY Zenon, <1>9, <1>14, <1>20 DEF zT
    <2>3. T[1] % 128 = 1
      <3>1. BeforeOne(zip, Z, T)
        BY Zenon, <1>5, <1>10, <1>12, <2>1, <2>2, IrregularReadRight
      <3> QED
        BY Zenon, <3>1 DEF BeforeOne
    <2> QED
      BY SMT, <1>5, <2>3 DEF TrailerBegins
  <1> QED
    BY Zenon, <1>17, <1>19, <1>21

(***************************************************************************)
(* The invariant.                                                          *)
(***************************************************************************)

(* The cgi types have at most four digits. *)
LEMMA CgiIsNumber ==
    ASSUME NEW n \in CgiTypes
    PROVE  n \in Number
  BY Zenon, HeaderAssumption

(* So have the lengths of bodies, compressed or not. *)
LEMMA LengthIsNumber ==
    ASSUME NEW n \in Lengths
    PROVE  n \in Number
  BY Zenon, HeaderAssumption

(* Layout is about the three kinds. *)
LEMMA KindsOfLayout == DOMAIN Layout = Kinds
  BY DEF Layout, Kinds

(* Nothing is sent at the start. *)
LEMMA InitInv == HeaderInit => HeaderInv
  BY DEF HeaderInit, HeaderInv, HeaderLengthTrue, RegularUnderstood, AnswerUnderstood,
         RequestUnderstoodIffRegular

(* A request: the cookie is there when the base header is used. *)
LEMMA Req2BufInv ==
    ASSUME HeaderInv,
           NEW kind \in DOMAIN Layout, NEW cgi \in CgiTypes, NEW pb \in Lengths,
           NEW zip \in Lengths, Req2Buf(kind, cgi, pb, zip)
    PROVE  HeaderInv'
  <1> DEFINE header == MakeHeader(kind, cgi, pb, zip)
  <1>1. /\ io' = [kind |-> kind, cgi |-> cgi, pb |-> pb, zip |-> zip, header |-> header]
        /\ phase' = "sent" /\ m_cookie' = m_cookie /\ m_Session' = m_Session
        /\ kind = "Base" => m_Session
    BY DEF Req2Buf
  <1>2. /\ kind \in Kinds /\ cgi \in Nat /\ pb \in Nat /\ zip \in Nat
        /\ cgi \in Number /\ pb \in Number /\ zip \in Number
    <2>1. cgi \in Number /\ pb \in Number /\ zip \in Number
      BY Zenon, CgiIsNumber, LengthIsNumber
    <2> QED
      BY <2>1, KindsOfLayout, NumberIsNat
  <1>3. /\ m_cookie \in {0, 15} /\ m_Session \in BOOLEAN
        /\ m_Session => m_cookie = 15
    BY DEF HeaderInv
  <1>4. kind = "Base" => m_cookie = 15
    BY Zenon, <1>1, <1>3
  <1>5. header[Layout[kind].mark + 1] \div 4 = Len(header)
    BY Zenon, <1>2, <1>4, RequestLength
  <1>6. ASSUME Regular(cgi), Regular(pb), Regular(zip)
        PROVE  LET got == UnPackHeader(kind, header \o Body)
               IN  got.cgi = cgi /\ got.pb = pb /\ got.zip = zip /\ got.body = Body
    <2>1. RequestRead(kind, cgi, pb, zip)
      BY Zenon, <1>2, <1>4, <1>6, RegularRead
    <2> QED
      BY Zenon, <2>1 DEF RequestRead
  <1>7. ASSUME LET got == UnPackHeader(kind, header \o Body)
                IN  got.cgi = cgi /\ got.pb = pb /\ got.zip = zip
         PROVE  Regular(cgi) /\ Regular(pb) /\ Regular(zip)
    <2>1. IntegersRead(kind, cgi, pb, zip)
      BY Zenon, <1>7 DEF IntegersRead
    <2> QED
      BY Zenon, <1>2, <1>4, <2>1, OnlyRegularRead
  <1> HIDE DEF header
  <1>8. io'.header = header /\ io'.kind = kind /\ io'.cgi = cgi /\ io'.pb = pb /\ io'.zip = zip
    BY <1>1
  <1>9. HeaderLengthTrue'
    BY <1>5, <1>8 DEF HeaderLengthTrue
  <1>10. RegularUnderstood'
    BY Zenon, <1>6, <1>8 DEF RegularUnderstood
  <1>11. AnswerUnderstood'
    BY <1>1 DEF AnswerUnderstood
  <1>12. RequestUnderstoodIffRegular'
    <2>1. (LET got == UnPackHeader(kind, header \o Body)
           IN  got.cgi = cgi /\ got.pb = pb /\ got.zip = zip)
            <=> (Regular(cgi) /\ Regular(pb) /\ Regular(zip))
      BY Zenon, <1>6, <1>7
    <2> QED
      BY Zenon, <1>8, <2>1 DEF RequestUnderstoodIffRegular
  <1> QED
    BY <1>1, <1>3, <1>8, <1>9, <1>10, <1>11, <1>12 DEF HeaderInv

(* An answer: what it states is read, and a session key comes with a       *)
(* cookie.                                                                 *)
LEMMA Buf2RespInv ==
    ASSUME HeaderInv,
           NEW mark \in {0, 1}, NEW cookieLen \in {0, 15}, Buf2Resp(mark, cookieLen)
    PROVE  HeaderInv'
  <1> DEFINE got == UnPackHeader(io.kind, ServerPack(mark, cookieLen, io.cgi, io.pb, io.zip))
  <1>1. phase = "sent" /\ phase' = "answered"
    BY DEF Buf2Resp
  <1>2. /\ io' = [kind |-> io.kind, cgi |-> io.cgi, pb |-> io.pb, zip |-> io.zip, got |-> got]
        /\ m_cookie' = IF io.kind # "Bind" /\ got.nCookieLen > 0 THEN got.nCookieLen
                                                                 ELSE m_cookie
    BY DEF Buf2Resp
  <1>3. PICK succ \in IF io.kind = "ManualAuth" /\ cookieLen = 15 THEN BOOLEAN ELSE {FALSE} :
           m_Session' = (m_Session \/ succ)
    BY DEF Buf2Resp
  <1>4. /\ io.kind \in DOMAIN Layout /\ io.cgi \in CgiTypes /\ io.pb \in Lengths
        /\ io.zip \in Lengths
        /\ m_cookie \in {0, 15} /\ m_Session \in BOOLEAN
        /\ m_Session => m_cookie = 15
    BY <1>1 DEF HeaderInv
  <1>5. io.kind \in Kinds /\ io.cgi \in Number /\ io.pb \in Number /\ io.zip \in Number
    BY Zenon, <1>4, KindsOfLayout, CgiIsNumber, LengthIsNumber
  <1>6. got = [body |-> Body, compressed |-> io.pb # io.zip, nCookieLen |-> cookieLen,
               cgi |-> io.cgi, pb |-> io.pb, zip |-> io.zip]
    <2>1. Understood(io.kind, mark, cookieLen, io.cgi, io.pb, io.zip)
      BY Zenon, <1>5, AnswerRead
    <2> QED
      BY Zenon, <2>1 DEF Understood
  <1> HIDE DEF got
  <1>7. got.nCookieLen = cookieLen
    BY <1>6
  <1>8. AnswerUnderstood'
    <2>1. io'.got = got /\ io'.cgi = io.cgi /\ io'.pb = io.pb /\ io'.zip = io.zip
      BY <1>2
    <2>2. Body' = Body
      BY DEF Body
    <2> QED
      BY Zenon, <1>6, <1>7, <2>1, <2>2 DEF AnswerUnderstood
  <1>9. HeaderLengthTrue' /\ RegularUnderstood' /\ RequestUnderstoodIffRegular'
    BY <1>1 DEF HeaderLengthTrue, RegularUnderstood, RequestUnderstoodIffRegular
  <1>10. m_cookie' = (IF io.kind # "Bind" /\ cookieLen = 15 THEN 15 ELSE m_cookie)
    BY <1>2, <1>4, <1>7
  <1>11. m_Session' \in BOOLEAN
    BY <1>3, <1>4
  <1>12. m_Session' => m_cookie' = 15
    <2>1. CASE succ = TRUE
      <3>1. io.kind = "ManualAuth" /\ cookieLen = 15
        BY <1>3, <2>1
      <3> QED
        BY <1>10, <3>1
    <2>2. CASE succ = FALSE
      <3>1. m_Session' => m_Session
        BY Zenon, <1>3, <2>2
      <3>2. m_Session => m_cookie' = 15
        <4>1. m_cookie' = 15 \/ m_cookie' = m_cookie
          BY Zenon, <1>10
        <4> QED
          BY Zenon, <1>4, <4>1
      <3> QED
        BY Zenon, <3>1, <3>2
    <2> QED
      BY <1>3, <2>1, <2>2
  <1>13. m_cookie' \in {0, 15}
    BY Zenon, <1>4, <1>10
  <1> QED
    BY <1>1, <1>8, <1>9, <1>11, <1>12, <1>13 DEF HeaderInv

(* The task is over. *)
LEMMA DoneInv ==
    ASSUME HeaderInv, Done
    PROVE  HeaderInv'
  BY DEF HeaderInv, Done, HeaderLengthTrue, RegularUnderstood, AnswerUnderstood,
         RequestUnderstoodIffRegular

(* Nothing happens. *)
LEMMA StutterInv ==
    ASSUME HeaderInv, UNCHANGED vars
    PROVE  HeaderInv'
  BY ZenonT(40) DEF HeaderInv, HeaderLengthTrue, RegularUnderstood, AnswerUnderstood,
               RequestUnderstoodIffRegular, vars, Layout, Body

(* The inductive invariant holds in every reachable state of BaseHeader. *)
THEOREM HeaderInvariant == HeaderSpec => []HeaderInv
  <1>1. ASSUME HeaderInv, [HeaderNext]_vars PROVE HeaderInv'
    <2>1. ASSUME NEW kind \in DOMAIN Layout, NEW cgi \in CgiTypes, NEW pb \in Lengths,
                 NEW zip \in Lengths, Req2Buf(kind, cgi, pb, zip)
          PROVE  HeaderInv'
      BY Zenon, <1>1, <2>1, Req2BufInv
    <2>2. ASSUME NEW mark \in {0, 1}, NEW cookieLen \in {0, 15}, Buf2Resp(mark, cookieLen)
          PROVE  HeaderInv'
      BY Zenon, <1>1, <2>2, Buf2RespInv
    <2>3. CASE Done
      BY <1>1, <2>3, DoneInv
    <2>4. CASE UNCHANGED vars
      BY <1>1, <2>4, StutterInv
    <2> QED
      BY Zenon, <1>1, <2>1, <2>2, <2>3, <2>4 DEF HeaderNext
  <1> QED
    BY <1>1, InitInv, PTL DEF HeaderSpec

(* Every header any of the three MakeHeaders writes, for all cgi types and *)
(* body lengths of at most four digits, states its own length.             *)
THEOREM HeaderLengthAlwaysTrue == HeaderSpec => []HeaderLengthTrue
  <1>1. HeaderInv => HeaderLengthTrue
    BY DEF HeaderInv
  <1> QED
    BY <1>1, HeaderInvariant, PTL

(* The three UnPackHeaders take every answer apart as the server put it    *)
(* together, for all such cgi types and lengths, with and without mark and *)
(* cookie.                                                                 *)
THEOREM AnswersAlwaysUnderstood == HeaderSpec => []AnswerUnderstood
  <1>1. HeaderInv => AnswerUnderstood
    BY DEF HeaderInv
  <1> QED
    BY <1>1, HeaderInvariant, PTL

(* A request whose three integers are regular says to the server what was  *)
(* meant, in the sense of Dword2String and the three MakeHeaders.          *)
THEOREM RegularRequestsUnderstood == HeaderSpec => []RegularUnderstood
  <1>1. HeaderInv => RegularUnderstood
    BY DEF HeaderInv
  <1> QED
    BY <1>1, HeaderInvariant, PTL

(* And no other request does: whatever the cgi type and the lengths, the   *)
(* integers the three MakeHeaders wrote with Dword2String are the ones     *)
(* String2Dword finds again exactly when all three are regular.            *)
THEOREM RequestsUnderstoodIffRegular == HeaderSpec => []RequestUnderstoodIffRegular
  <1>1. HeaderInv => RequestUnderstoodIffRegular
    BY DEF HeaderInv
  <1> QED
    BY <1>1, HeaderInvariant, PTL
=============================================================================
