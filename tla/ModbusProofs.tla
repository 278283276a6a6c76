---------------------------- MODULE ModbusProofs ----------------------------
EXTENDS ModbusSlave, WellFoundedInduction, SequenceTheorems, TLAPS

(* Functions and tables. *)

\* Induction without an operator for a parameter: through a set.
LEMMA NatInduction1 ==
  ASSUME NEW S \in SUBSET Nat, 0 \in S, \A n \in S : n + 1 \in S
  PROVE  S = Nat
<1> DEFINE T == Nat \ S
           R == OpToRel(<, Nat)
<1> SUFFICES ASSUME T # {} PROVE FALSE
  OBVIOUS
<1>1. PICK n \in T : \A m \in T : ~(<<m, n>> \in R)
  <2>1. IsWellFoundedOn(R, Nat) /\ T \subseteq Nat
    BY NatLessThanWellFounded
  <2> HIDE DEF R, T
  <2> QED BY <2>1, WFMin
<1>2. n \in Nat /\ n # 0 /\ n - 1 \in Nat /\ n - 1 < n /\ (n - 1) + 1 = n
  <2>1. n \in Nat /\ n \notin S
    OBVIOUS
  <2> QED BY <2>1
<1>3. <<n - 1, n>> \in R
  BY <1>2 DEF OpToRel
<1> HIDE DEF R
<1>4. n - 1 \in S
  BY <1>1, <1>2, <1>3
<1> QED BY <1>1, <1>2, <1>4

-----------------------------------------------------------------------------
(* Bytes and bits. *)

\* The values of a register, and the tables.
Half   == {w \in Nat : w < 65536}
Tables == [coils : [0 .. BIT_NREGS - 1 -> Byte], holding : [0 .. WORD_NREGS - 1 -> Half]]

\* The powers of two that bits are moved by.
LEMMA PowerIs == \A k \in 0 .. 8 : 2^k \in 1 .. 256
<1> SUFFICES ASSUME NEW k \in 0 .. 8 PROVE 2^k \in 1 .. 256
  OBVIOUS
<1> DEFINE p(j) == 2^j
<1>1. k \in {0, 1, 2, 3, 4, 5, 6, 7, 8}
  OBVIOUS
<1>2. /\ p(0) = 1 /\ p(1) = 2 /\ p(2) = 4 /\ p(3) = 8 /\ p(4) = 16
      /\ p(5) = 32 /\ p(6) = 64 /\ p(7) = 128 /\ p(8) = 256
  OBVIOUS
<1> HIDE DEF p
<1>3. p(k) \in 1 .. 256
  BY <1>1, <1>2
<1> QED BY <1>3 DEF p

\* A byte and a register of a buffer, the bytes outside it included.
LEMMA AtIs ==
    ASSUME NEW D, NEW buf \in [D -> Byte], NEW i
    PROVE  At(buf, i) \in Byte /\ Word(buf, i) \in Half
<1>1. \A k : At(buf, k) \in Byte
  BY DEF At, Byte
<1>2. \A a, b \in Byte : 256 * a + b \in Half
  BY DEF Byte, Half
<1> DEFINE a == At(buf, i)
           b == At(buf, i + 1)
<1>3. a \in Byte /\ b \in Byte /\ Word(buf, i) = 256 * a + b
  BY <1>1 DEF Word
<1> HIDE DEF a, b
<1>4. Word(buf, i) \in Half
  BY <1>2, <1>3
<1> QED BY <1>3, <1>4 DEF a

\* Bytes put into a buffer leave it a buffer, and what is before them alone.
LEMMA PutIs ==
    ASSUME NEW D, NEW buf \in [D -> Byte], NEW i \in Nat, NEW s \in Seq(Byte)
    PROVE  /\ Put(buf, i, s) \in [D -> Byte]
           /\ \A k \in D : k < i /\ k \in Nat => Put(buf, i, s)[k] = buf[k]
<1>1. DOMAIN buf = D /\ Len(s) \in Nat /\ \A j \in 1 .. Len(s) : s[j] \in Byte
  OBVIOUS
<1>2. ASSUME NEW k \in D, k \in i .. i + Len(s) - 1 PROVE s[k - i + 1] \in Byte
  <2>1. k - i + 1 \in 1 .. Len(s)
    BY <1>1, <1>2
  <2> QED BY <1>1, <2>1
<1>3. ASSUME NEW k \in D, k < i, k \in Nat PROVE Put(buf, i, s)[k] = buf[k]
  <2>1. k \notin i .. i + Len(s) - 1
    BY <1>1, <1>3
  <2> QED BY <1>1, <2>1 DEF Put
<1> QED BY <1>1, <1>2, <1>3 DEF Put

\* The same of a buffer given by its domain.
LEMMA PutKeeps ==
    ASSUME NEW buf, buf \in [DOMAIN buf -> Byte], NEW i \in Nat, NEW s \in Seq(Byte)
    PROVE  /\ Put(buf, i, s) \in [DOMAIN buf -> Byte]
           /\ \A k \in DOMAIN buf : k < i /\ k \in Nat => Put(buf, i, s)[k] = buf[k]
<1> DEFINE D == DOMAIN buf
<1>1. buf \in [D -> Byte]
  OBVIOUS
<1> HIDE DEF D
<1>2. /\ Put(buf, i, s) \in [D -> Byte]
      /\ \A k \in D : k < i /\ k \in Nat => Put(buf, i, s)[k] = buf[k]
  BY <1>1, PutIs
<1> QED BY <1>2 DEF D

\* The two bytes that bits are read from are a number.
LEMMA WindowIs ==
    ASSUME NEW D, NEW buf \in [D -> Byte], NEW bit
    PROVE  Window(buf, bit) \in Nat
<1>1. /\ At(buf, bit \div 8) \in Byte
      /\ At(buf, bit \div 8 + 1) \in Byte
  BY AtIs
<1>2. \A a, b \in Byte : a + 256 * b \in Nat
  BY DEF Byte
<1> QED BY <1>1, <1>2, Zenon DEF Window

\* Up to eight bits read are a byte, one bit is 0 or 1.
LEMMA GetBitsIs ==
    ASSUME NEW D, NEW buf \in [D -> Byte], NEW bit \in Nat, NEW n \in 0 .. 8
    PROVE  /\ xMBUtilGetBits(buf, bit, n) \in Byte
           /\ xMBUtilGetBits(buf, bit, 1) \in {0, 1}
<1>1. bit % 8 \in 0 .. 8 /\ 1 \in 0 .. 8
  OBVIOUS
<1>2. 2^(bit % 8) \in 1 .. 256 /\ 2^n \in 1 .. 256
  BY <1>1, PowerIs
<1>3. Window(buf, bit) \in Nat
  BY WindowIs
<1>4. \A w \in Nat, a \in 1 .. 256, b \in 1 .. 256 : (w \div a) % b \in 0 .. b - 1
  OBVIOUS
<1>5. 2^1 = 2
  OBVIOUS
<1>6. xMBUtilGetBits(buf, bit, n) \in 0 .. 2^n - 1
  BY <1>2, <1>3, <1>4 DEF xMBUtilGetBits
<1>7. xMBUtilGetBits(buf, bit, 1) \in {0, 1}
  <2>1. \A w \in Nat, a \in 1 .. 256 : (w \div a) % 2 \in {0, 1}
    OBVIOUS
  <2>2. xMBUtilGetBits(buf, bit, 1) = (Window(buf, bit) \div 2^(bit % 8)) % 2
    BY <1>5 DEF xMBUtilGetBits
  <2> QED BY <1>2, <1>3, <2>1, <2>2
<1>8. \A a \in 1 .. 256 : 0 .. a - 1 \subseteq Byte
  BY DEF Byte
<1> QED BY <1>2, <1>6, <1>7, <1>8

\* A bit set leaves the bytes before its own alone.
LEMMA SetBitsIs ==
    ASSUME NEW D, NEW buf \in [D -> Byte], NEW bit \in Nat, NEW value \in {0, 1}
    PROVE  /\ xMBUtilSetBits(buf, bit, 1, value) \in [D -> Byte]
           /\ \A k \in D : k < bit \div 8 /\ k \in Nat
                => xMBUtilSetBits(buf, bit, 1, value)[k] = buf[k]
<1> DEFINE pre  == bit % 8
           old  == Window(buf, bit)
           word == (old \div 2^(pre + 1)) * 2^(pre + 1) + value * 2^pre + (old % 2^pre)
<1>1. pre \in 0 .. 8 /\ pre + 1 \in 0 .. 8 /\ bit \div 8 \in Nat
  OBVIOUS
<1>2. 2^pre \in 1 .. 256 /\ 2^(pre + 1) \in 1 .. 256
  BY <1>1, PowerIs
<1>3. old \in Nat
  BY WindowIs
<1>4. \A a, b \in 1 .. 256, w \in Nat, v \in {0, 1} : (w \div b) * b + v * a + (w % a) \in Int
  OBVIOUS
<1>5. word \in Int
  <2> HIDE DEF pre, old
  <2> QED BY <1>2, <1>3, <1>4
<1>6. <<word % 256, (word \div 256) % 256>> \in Seq(Byte)
  <2> HIDE DEF word
  <2>1. word % 256 \in Byte /\ (word \div 256) % 256 \in Byte
    BY <1>5 DEF Byte
  <2> QED BY <2>1
<1>7. xMBUtilSetBits(buf, bit, 1, value) = Put(buf, bit \div 8, <<word % 256, (word \div 256) % 256>>)
  BY DEF xMBUtilSetBits
<1> HIDE DEF word
<1> DEFINE two == <<word % 256, (word \div 256) % 256>>
<1>8. two \in Seq(Byte) /\ xMBUtilSetBits(buf, bit, 1, value) = Put(buf, bit \div 8, two)
  BY <1>6, <1>7
<1> HIDE DEF two
<1> QED BY <1>1, <1>8, PutIs

\* The bits that are copied leave what is in front of them.
LEMMA CopyBitsIs ==
    ASSUME NEW D, NEW to \in [D -> Byte], NEW E, NEW from \in [E -> Byte],
           NEW toBit \in Nat, NEW fromBit \in Nat, NEW n \in Nat
    PROVE  /\ CopyBits(to, toBit, from, fromBit, n) \in [D -> Byte]
           /\ \A k \in D : k < toBit \div 8 /\ k \in Nat
                => CopyBits(to, toBit, from, fromBit, n)[k] = to[k]
<1> DEFINE Copied(i, buf) == xMBUtilSetBits(buf, toBit + i, 1, xMBUtilGetBits(from, fromBit + i, 1))
           Bufs == [DOMAIN to -> Byte]
           Next1(s) == <<s[1] + 1, Copied(s[1], s[2])>>
           Bit(f, s) == IF s[1] = n THEN s[2] ELSE f[Next1(s)]
           copy == CHOOSE f : f = [s \in (0 .. n) \X Bufs |-> Bit(f, s)]
           Left(a, b) == \A k \in D : k < toBit \div 8 /\ k \in Nat => a[k] = b[k]
           From(m) == (n - m .. n) \X Bufs
           Is(f, m) == f = [s \in From(m) |-> Bit(f, s)]
           S == {m \in Nat : m <= n => \E f : Is(f, m)}
           T == {m \in Nat : m <= n => \A s \in From(m) : copy[s] \in Bufs /\ Left(copy[s], s[2])}
<1>1. DOMAIN to = D
  OBVIOUS
<1>2. ASSUME NEW i \in Nat, NEW buf \in Bufs
      PROVE  Copied(i, buf) \in Bufs /\ Left(Copied(i, buf), buf)
  <2>1. toBit + i \in Nat /\ fromBit + i \in Nat /\ 1 \in 0 .. 8
        /\ \A k \in Nat : k < toBit \div 8 => k < (toBit + i) \div 8
    OBVIOUS
  <2>2. xMBUtilGetBits(from, fromBit + i, 1) \in {0, 1}
    BY <2>1, GetBitsIs
  <2>3. buf \in [D -> Byte]
    BY <1>1
  <2>4. /\ Copied(i, buf) \in [D -> Byte]
        /\ \A k \in D : k < (toBit + i) \div 8 /\ k \in Nat => Copied(i, buf)[k] = buf[k]
    BY <2>1, <2>2, <2>3, SetBitsIs
  <2> HIDE DEF Copied
  <2> QED BY <1>1, <2>1, <2>4
<1> HIDE DEF Copied
\* One step back from where m are left to where one more is.
<1>3. ASSUME NEW m \in Nat, m + 1 <= n, NEW s \in From(m + 1)
      PROVE  /\ s \in From(m) \/ s[1] = n - (m + 1)
             /\ s[2] \in Bufs
             /\ s[1] # n => /\ Next1(s) \in From(m)
                            /\ Next1(s)[2] = Copied(s[1], s[2])
                            /\ Left(Copied(s[1], s[2]), s[2])
             /\ s[1] = n => s \in From(m)
  <2>1. s[1] \in n - (m + 1) .. n /\ s[2] \in Bufs /\ s = <<s[1], s[2]>>
    OBVIOUS
  <2> HIDE DEF Bufs
  <2>2. s[1] \in Nat /\ (s[1] \in n - m .. n \/ s[1] = n - (m + 1)) /\ (s[1] = n => s[1] \in n - m .. n)
        /\ (s[1] # n => s[1] + 1 \in n - m .. n)
    BY <1>3, <2>1
  <2>3. Copied(s[1], s[2]) \in Bufs /\ Left(Copied(s[1], s[2]), s[2])
    BY <1>2, <2>1, <2>2
  <2> HIDE DEF Left
  <2> QED BY <2>1, <2>2, <2>3
<1>4. ASSUME NEW m \in Nat, m + 1 <= n PROVE From(m) \subseteq From(m + 1)
  <2>1. n - m .. n \subseteq n - (m + 1) .. n
    OBVIOUS
  <2> HIDE DEF Bufs
  <2> QED BY <2>1
<1>5. \A s \in From(0) : s[1] = n /\ s[2] \in Bufs
  OBVIOUS
<1>6. S = Nat
  <2>1. 0 \in S
    <3> DEFINE f == [s \in From(0) |-> s[2]]
    <3> HIDE DEF From
    <3>1. \A s \in From(0) : Bit(f, s) = s[2]
      BY <1>5
    <3>2. Is(f, 0)
      BY <3>1
    <3> QED BY <3>2
  <2>2. ASSUME NEW m \in S PROVE m + 1 \in S
    <3>1. m \in Nat /\ m + 1 \in Nat /\ (m + 1 <= n => m <= n)
      OBVIOUS
    <3>2. ASSUME m + 1 <= n PROVE \E g : Is(g, m + 1)
      <4>1. PICK f : Is(f, m)
        BY <3>1, <3>2
      <4> DEFINE g == [s \in From(m + 1) |-> IF s \in From(m) THEN f[s] ELSE Bit(f, s)]
      <4> HIDE DEF From, Bufs
      <4>2. \A s \in From(m) : s \in From(m + 1) /\ f[s] = Bit(f, s)
        <5> HIDE DEF Bit
        <5>1. \A s \in From(m) : [t \in From(m) |-> Bit(f, t)][s] = Bit(f, s)
          OBVIOUS
        <5>2. f = [t \in From(m) |-> Bit(f, t)]
          BY <4>1
        <5> QED BY <1>4, <3>1, <3>2, <5>1, <5>2
      <4>3. \A s \in From(m) : g[s] = f[s]
        BY <4>2
      <4> HIDE DEF Next1
      <4>4. \A s \in From(m + 1) : Bit(g, s) = Bit(f, s)
        <5>1. \A s \in From(m + 1) : s[1] # n => Next1(s) \in From(m)
          BY <1>3, <3>1, <3>2
        <5> HIDE DEF g
        <5> QED BY <4>3, <5>1
      <4>5. \A s \in From(m + 1) : g[s] = Bit(f, s)
        <5> HIDE DEF Bit
        <5> QED BY <4>2, <4>3
      <4>6. [s \in From(m + 1) |-> Bit(g, s)] = [s \in From(m + 1) |-> g[s]]
        <5> HIDE DEF g, Bit
        <5> QED BY <4>4, <4>5
      <4>7. Is(g, m + 1)
        <5> HIDE DEF Bit
        <5> QED BY <4>6
      <4> QED BY <4>7
    <3> QED BY <3>1, <3>2
  <2>3. S \in SUBSET Nat
    OBVIOUS
  <2> HIDE DEF S
  <2> QED BY <2>1, <2>2, <2>3, NatInduction1
<1>7. From(n) = (0 .. n) \X Bufs
  OBVIOUS
<1>8. copy = [s \in (0 .. n) \X Bufs |-> Bit(copy, s)]
  <2>1. n \in S /\ n <= n
    <3> HIDE DEF S
    <3> QED BY <1>6
  <2>2. \E f : Is(f, n)
    <3> HIDE DEF Is
    <3> QED BY <2>1
  <2> HIDE DEF Bit, From, Bufs
  <2> QED BY <1>7, <2>2
<1>9. \A m \in Nat : m <= n => \A s \in From(m) : copy[s] = Bit(copy, s)
  <2> SUFFICES ASSUME NEW m \in Nat, m <= n, NEW s \in From(m) PROVE copy[s] = Bit(copy, s)
    OBVIOUS
  <2>1. s \in (0 .. n) \X Bufs
    <3>1. n - m .. n \subseteq 0 .. n
      OBVIOUS
    <3> HIDE DEF Bufs
    <3> QED BY <3>1
  <2> HIDE DEF copy, Bit, Bufs, From
  <2>2. [t \in (0 .. n) \X Bufs |-> Bit(copy, t)][s] = Bit(copy, s)
    BY <2>1
  <2> QED BY <1>8, <2>2
<1>10. T = Nat
  <2> HIDE DEF copy
  <2>1. 0 \in T
    <3>1. \A s \in From(0) : copy[s] = s[2]
      <4>1. 0 <= n
        OBVIOUS
      <4> HIDE DEF From
      <4> QED BY <1>5, <1>9, <4>1
    <3> HIDE DEF From, Bufs
    <3> QED BY <1>5, <3>1
  <2>2. ASSUME NEW m \in T PROVE m + 1 \in T
    <3>1. m \in Nat /\ m + 1 \in Nat /\ (m + 1 <= n => m <= n)
      OBVIOUS
    <3>2. ASSUME m + 1 <= n, NEW s \in From(m + 1)
          PROVE  copy[s] \in Bufs /\ Left(copy[s], s[2])
      <4>1. \A t \in From(m) : copy[t] \in Bufs /\ Left(copy[t], t[2])
        BY <3>1, <3>2
      <4>2. copy[s] = Bit(copy, s)
        BY <1>9, <3>1, <3>2
      <4> HIDE DEF From, Bufs
      <4>3. CASE s[1] = n
        <5>1. s \in From(m)
          BY <1>3, <3>1, <3>2, <4>3
        <5> QED BY <4>1, <5>1
      <4>4. CASE s[1] # n
        <5> HIDE DEF Next1, Left
        <5>1. /\ copy[s] = copy[Next1(s)] /\ Next1(s) \in From(m)
              /\ Next1(s)[2] = Copied(s[1], s[2]) /\ Left(Copied(s[1], s[2]), s[2])
          BY <1>3, <3>1, <3>2, <4>2, <4>4
        <5>2. copy[Next1(s)] \in Bufs /\ Left(copy[Next1(s)], Next1(s)[2])
          BY <4>1, <5>1
        <5>3. Left(copy[s], s[2])
          BY <5>1, <5>2 DEF Left
        <5> QED BY <5>1, <5>2, <5>3
      <4> QED BY <4>3, <4>4
    <3> QED BY <3>1, <3>2
  <2>3. T \in SUBSET Nat
    OBVIOUS
  <2> HIDE DEF T
  <2> QED BY <2>1, <2>2, <2>3, NatInduction1
<1>11. CopyBits(to, toBit, from, fromBit, n) = copy[<<0, to>>]
  BY DEF CopyBits, Copied
<1>12. copy[<<0, to>>] \in Bufs /\ Left(copy[<<0, to>>], to)
  <2> HIDE DEF copy
  <2>1. n \in T /\ n <= n
    <3>1. n \in Nat
      OBVIOUS
    <3>2. n <= n
      BY <3>1
    <3> HIDE DEF T
    <3> QED BY <1>10, <3>1, <3>2, Zenon
  <2>2. <<0, to>> \in From(n) /\ <<0, to>>[2] = to
    <3>1. 0 \in n - n .. n /\ to \in Bufs
      OBVIOUS
    <3> HIDE DEF Bufs
    <3> QED BY <3>1
  <2> HIDE DEF From, Left, Bufs
  <2> QED BY <2>1, <2>2
<1> HIDE DEF copy
<1> QED BY <1>1, <1>11, <1>12

\* The same of a buffer given by its domain.
LEMMA CopyBitsKeep ==
    ASSUME NEW to, to \in [DOMAIN to -> Byte], NEW from, from \in [DOMAIN from -> Byte],
           NEW toBit \in Nat, NEW fromBit \in Nat, NEW n \in Nat
    PROVE  /\ CopyBits(to, toBit, from, fromBit, n) \in [DOMAIN to -> Byte]
           /\ \A k \in DOMAIN to : k < toBit \div 8 /\ k \in Nat
                => CopyBits(to, toBit, from, fromBit, n)[k] = to[k]
<1> DEFINE D == DOMAIN to
           E == DOMAIN from
<1>1. to \in [D -> Byte] /\ from \in [E -> Byte]
  OBVIOUS
<1> HIDE DEF D, E
<1>2. /\ CopyBits(to, toBit, from, fromBit, n) \in [D -> Byte]
      /\ \A k \in D : k < toBit \div 8 /\ k \in Nat
            => CopyBits(to, toBit, from, fromBit, n)[k] = to[k]
  BY <1>1, CopyBitsIs
<1> QED BY <1>2 DEF D

-----------------------------------------------------------------------------
(* What the handlers leave of the request, whatever it is. *)

\* The head of an answer of bits keeps the address and has the function.
LEMMA HeadedIs ==
    ASSUME NEW D, NEW buf \in [D -> Byte], NEW code \in Byte, NEW n \in Nat
    PROVE  /\ Headed(buf, code, n) \in [D -> Byte]
           /\ 0 \in D => Headed(buf, code, n)[0] = buf[0]
           /\ 1 \in D => Headed(buf, code, n)[1] = code
<1>1. n % 256 \in Byte /\ 1 \in Nat
  BY DEF Byte
<1> DEFINE two == <<code, n % 256>>
<1>2. two \in Seq(Byte) /\ Headed(buf, code, n) = Put(buf, 1, two) /\ Len(two) = 2 /\ two[1] = code
  BY <1>1 DEF Headed
<1> HIDE DEF two
<1>3. /\ Put(buf, 1, two) \in [D -> Byte]
      /\ \A k \in D : k < 1 /\ k \in Nat => Put(buf, 1, two)[k] = buf[k]
  BY <1>2, PutIs
<1>4. 1 \in D => Put(buf, 1, two)[1] = two[1]
  BY <1>2 DEF Put
<1> QED BY <1>2, <1>3, <1>4

\* The bytes that n bits take.
LEMMA BytesIs == \A n \in Nat : /\ Bytes(n) \in Byte
                                /\ \A m \in Nat : n <= 8 * m => Bytes(n) <= m
<1>1. \A n \in Nat : Bytes(n) \in 0 .. 255
  BY DEF Bytes
<1>2. ASSUME NEW n \in Nat, NEW m \in Nat, n <= 8 * m PROVE Bytes(n) <= m
  <2>1. (n % 8 # 0 => n \div 8 + 1 <= m) /\ n \div 8 <= m
    BY <1>2
  <2>2. \A k \in Nat : k % 256 <= k
    OBVIOUS
  <2> QED BY <2>1, <2>2 DEF Bytes
<1> QED BY <1>1, <1>2 DEF Byte

\* Bits of a table are bytes.
LEMMA BitsAtIs ==
    ASSUME NEW D, NEW table \in [D -> Byte], NEW address \in Nat \ {0}, NEW n \in Nat
    PROVE  BitsAt(table, address, n) \in Seq(Byte)
<1>1. Bytes(n) \in Nat
  <2>1. Bytes(n) \in Byte
    BY BytesIs
  <2> QED BY <2>1 DEF Byte
<1> DEFINE left(k) == n - 8 * (k - 1)
           bits(k) == IF left(k) > 8 THEN 8 ELSE left(k)
           get(k)  == xMBUtilGetBits(table, address - 1 + 8 * (k - 1), bits(k))
<1>2. ASSUME NEW k \in 1 .. Bytes(n) PROVE get(k) \in Byte
  <2>1. left(k) >= 0 /\ left(k) \in Int
    BY <1>1 DEF Bytes
  <2>2. bits(k) \in 0 .. 8
    <3> HIDE DEF left
    <3> QED BY <2>1
  <2>3. address - 1 + 8 * (k - 1) \in Nat
    BY <1>1
  <2> HIDE DEF bits
  <2> QED BY <2>2, <2>3, GetBitsIs
<1>3. BitsAt(table, address, n) = [k \in 1 .. Bytes(n) |-> get(k)]
  BY DEF BitsAt
<1> HIDE DEF get
<1> QED BY <1>1, <1>2, <1>3

\* Registers of a table are bytes.
LEMMA WordsAtIs ==
    ASSUME NEW table \in [0 .. WORD_NREGS - 1 -> Half], NEW address \in Nat, NEW n \in Nat,
           InTable(address, n, WORD_NREGS)
    PROVE  WordsAt(table, address, n) \in Seq(Byte)
<1>1. WORD_NREGS \in Nat \ {0}
  BY TableAssumption
<1> DEFINE get(k) == LET word == table[address - 1 + (k - 1) \div 2]
                     IN  IF k % 2 = 1 THEN word \div 256 ELSE word % 256
<1>2. ASSUME NEW k \in 1 .. 2 * n PROVE get(k) \in Byte
  <2>1. address - 1 + (k - 1) \div 2 \in 0 .. WORD_NREGS - 1
    BY <1>1 DEF InTable
  <2>2. table[address - 1 + (k - 1) \div 2] \in Half
    BY <2>1
  <2>3. \A w \in Half : w \div 256 \in Byte /\ w % 256 \in Byte
    BY DEF Byte, Half
  <2> QED BY <2>2, <2>3
<1>3. WordsAt(table, address, n) = [k \in 1 .. 2 * n |-> get(k)]
  BY DEF WordsAt
<1> HIDE DEF get
<1> QED BY <1>2, <1>3

\* Registers written from a buffer leave a table.
LEMMA WordsFromIs ==
    ASSUME NEW table \in [0 .. WORD_NREGS - 1 -> Half], NEW address, NEW n,
           NEW D, NEW buf \in [D -> Byte], NEW i
    PROVE  WordsFrom(table, address, n, buf, i) \in [0 .. WORD_NREGS - 1 -> Half]
<1>1. \A j : Word(buf, j) \in Half
  BY AtIs
<1> QED BY <1>1 DEF WordsFrom

\* A table begun with some values is one.
LEMMA FilledWith ==
    ASSUME NEW S, NEW s \in Seq(S), NEW n \in Nat, 0 \in S
    PROVE  Filled(s, n) \in [0 .. n - 1 -> S]
  BY DEF Filled

\* The tables at the start.
LEMMA FilledIs ==
    /\ usRegDiscreateBuf \in [0 .. BIT_NREGS - 1 -> Byte]
    /\ usRegInputBuf \in [0 .. WORD_NREGS - 1 -> Half]
    /\ [coils |-> usRegCoilBuf, holding |-> usRegHoldingBuf] \in Tables
<1>1. BIT_NREGS \in Nat \ {0} /\ WORD_NREGS \in Nat \ {0}
  BY TableAssumption
<1>3. /\ <<16, 1, 1, 0, 1, 1, 0, 1>> \in Seq(Byte) /\ <<49, 21, 1, 0, 1, 1, 1>> \in Seq(Byte)
      /\ 0 \in Byte /\ <<4096, 4097, 4098, 4099>> \in Seq(Half) /\ 0 \in Half
  BY DEF Byte, Half
<1>4. BIT_NREGS \in Nat /\ WORD_NREGS \in Nat
  BY <1>1
<1>5. usRegCoilBuf \in [0 .. BIT_NREGS - 1 -> Byte]
  <2> DEFINE first == <<16, 1, 1, 0, 1, 1, 0, 1>>
  <2>1. first \in Seq(Byte) /\ usRegCoilBuf = Filled(first, BIT_NREGS)
    BY <1>3 DEF usRegCoilBuf
  <2> HIDE DEF first
  <2> QED BY <1>3, <1>4, <2>1, FilledWith
<1>6. usRegDiscreateBuf \in [0 .. BIT_NREGS - 1 -> Byte]
  <2> DEFINE first == <<49, 21, 1, 0, 1, 1, 1>>
  <2>1. first \in Seq(Byte) /\ usRegDiscreateBuf = Filled(first, BIT_NREGS)
    BY <1>3 DEF usRegDiscreateBuf
  <2> HIDE DEF first
  <2> QED BY <1>3, <1>4, <2>1, FilledWith
<1>7. usRegHoldingBuf \in [0 .. WORD_NREGS - 1 -> Half]
  <2> DEFINE first == <<4096, 4097, 4098, 4099>>
  <2>1. first \in Seq(Half) /\ usRegHoldingBuf = Filled(first, WORD_NREGS)
    BY <1>3 DEF usRegHoldingBuf
  <2> HIDE DEF first
  <2> QED BY <1>3, <1>4, <2>1, FilledWith
<1> QED BY <1>5, <1>6, <1>7 DEF usRegInputBuf, Tables

-----------------------------------------------------------------------------
\* An answer takes no more than 252 bytes, nor more than the request or the tables.
Fits(n, len) == n <= 252 /\ (n <= len \/ n <= 2 + BIT_NREGS \/ n <= 2 + 2 * WORD_NREGS)

\* What a handler returns for a request of len bytes in buf.
Served(buf, len, r) ==
    /\ r.exception \in 0 .. 3 /\ r.buf \in [DOMAIN buf -> Byte] /\ r.regs \in Tables
    /\ r.len \in Nat /\ (len > 0 => r.len > 0) /\ (r.exception = NONE => Fits(r.len, len))
    /\ 0 \in DOMAIN buf => r.buf[0] = buf[0]
    /\ 1 \in DOMAIN buf /\ r.exception = NONE => r.buf[1] = buf[1]

\* The same buffer from byte 2 on, or all of it.
Answering(buf, code, new) == /\ new \in [DOMAIN buf -> Byte]
                             /\ 0 \in DOMAIN buf => new[0] = buf[0]
                             /\ 1 \in DOMAIN buf => new[1] = code

\* A reading that answers as it should when it may is served.
LEMMA ReadingIs ==
    ASSUME NEW buf, buf \in [DOMAIN buf -> Byte], NEW len \in Nat, NEW tables \in Tables,
           NEW code \in Byte, 1 \in DOMAIN buf => buf[1] = code,
           NEW count \in Nat, NEW max, NEW size \in Nat, NEW data \in Nat, NEW answer,
           count \in 1 .. max /\ InTable(RegAddress(buf, 2), count, size)
               => Answering(buf, code, answer) /\ Fits(2 + data, len)
    PROVE  Served(buf, len, Reading(buf, len, tables, code, count, max, size, data, answer))
<1>1. CASE len # 5 \/ count \notin 1 .. max
  BY <1>1 DEF Reading, Served, Result, ILLEGAL_DATA_VALUE, NONE, Fits
<1>2. CASE ~(len # 5 \/ count \notin 1 .. max) /\ ~InTable(RegAddress(buf, 2), count, size)
  <2>1. Reading(buf, len, tables, code, count, max, size, data, answer)
            = Result(ILLEGAL_DATA_ADDRESS, Headed(buf, code, data), 2, tables)
    BY <1>2 DEF Reading
  <2>2. /\ Headed(buf, code, data) \in [DOMAIN buf -> Byte]
        /\ 0 \in DOMAIN buf => Headed(buf, code, data)[0] = buf[0]
    BY HeadedIs
  <2> QED BY <1>2, <2>1, <2>2 DEF Served, Result, ILLEGAL_DATA_ADDRESS, NONE, Fits
<1>3. CASE ~(len # 5 \/ count \notin 1 .. max) /\ InTable(RegAddress(buf, 2), count, size)
  <2>1. Reading(buf, len, tables, code, count, max, size, data, answer)
            = Result(NONE, answer, 2 + data, tables)
    BY <1>3 DEF Reading
  <2> QED BY <1>3, <2>1 DEF Served, Result, NONE, Answering
<1> QED BY <1>1, <1>2, <1>3

\* So is a writing that leaves tables when it may.
LEMMA WritingIs ==
    ASSUME NEW buf, buf \in [DOMAIN buf -> Byte], NEW len \in Nat, NEW tables \in Tables,
           NEW valid \in BOOLEAN, NEW count, NEW size, NEW reply, NEW new,
           valid => reply \in 1 .. 5 /\ reply <= len,
           valid /\ InTable(RegAddress(buf, 2), count, size) => new \in Tables
    PROVE  Served(buf, len, Writing(buf, len, tables, valid, count, size, reply, new))
  BY DEF Writing, Served, Result, NONE, ILLEGAL_DATA_VALUE, ILLEGAL_DATA_ADDRESS, Fits

\* A register address is a number.
LEMMA AddressIs ==
    ASSUME NEW D, NEW buf \in [D -> Byte], NEW i
    PROVE  RegAddress(buf, i) \in Nat
<1>1. Word(buf, i) \in Half
  BY AtIs
<1> QED BY <1>1 DEF RegAddress, Half

\* Bits copied behind the head of an answer leave the head.
LEMMA BehindHead ==
    ASSUME NEW buf, NEW code, NEW head, Answering(buf, code, head),
           NEW table, table \in [DOMAIN table -> Byte], NEW bit \in Nat, NEW n \in Nat
    PROVE  Answering(buf, code, CopyBits(head, 24, table, bit, n))
<1> DEFINE first == 24
           new   == CopyBits(head, first, table, bit, n)
<1>1. first \in Nat /\ 0 < first \div 8 /\ 1 < first \div 8
  OBVIOUS
<1>2. head \in [DOMAIN head -> Byte] /\ DOMAIN head = DOMAIN buf
  BY DEF Answering
<1> HIDE DEF first
<1>3. /\ new \in [DOMAIN head -> Byte]
      /\ \A k \in DOMAIN head : k < first \div 8 /\ k \in Nat => new[k] = head[k]
  BY <1>1, <1>2, CopyBitsKeep
<1> HIDE DEF new
<1>4. Answering(buf, code, new)
  BY <1>1, <1>2, <1>3 DEF Answering
<1> QED BY <1>4 DEF new, first

\* The handlers that read bits.
LEMMA ReadBits ==
    ASSUME NEW buf, buf \in [DOMAIN buf -> Byte], NEW len \in Nat, NEW tables \in Tables
    PROVE  /\ At(buf, 1) = 1 => Served(buf, len, eMBFuncReadCoils(buf, len, tables))
           /\ At(buf, 1) = 2 => Served(buf, len, eMBFuncReadDiscreteInputs(buf, len, tables))
<1> DEFINE count == Word(buf, 4)
           address == RegAddress(buf, 2)
<1>1. count \in Nat /\ address \in Nat /\ BIT_NREGS \in Nat
  <2>1. Word(buf, 4) \in Half
    BY AtIs
  <2> QED BY <2>1, AddressIs, TableAssumption DEF Half
<1>2. Bytes(count) \in Nat /\ (count <= 1999 => Bytes(count) <= 250) /\ (address >= 1 /\ InTable(address, count, 8 * BIT_NREGS) => Bytes(count) <= BIT_NREGS)
  <2>1. Bytes(count) \in Byte
    BY <1>1, BytesIs
  <2>2. InTable(address, count, 8 * BIT_NREGS) => count <= 8 * BIT_NREGS
    BY <1>1 DEF InTable
  <2>3. count <= 8 * BIT_NREGS => Bytes(count) <= BIT_NREGS
    BY <1>1, BytesIs
  <2>4. count <= 1999 => Bytes(count) <= 250
    <3>1. count <= 1999 => count <= 8 * 250
      BY <1>1
    <3> QED BY <1>1, <3>1, BytesIs
  <2> QED BY <2>1, <2>2, <2>3, <2>4 DEF Byte
<1>3. /\ 1 \in Byte /\ 2 \in Byte /\ 8 * BIT_NREGS \in Nat
      /\ \A c : At(buf, 1) = c => (1 \in DOMAIN buf => buf[1] = c)
  BY <1>1 DEF Byte, At
<1>4. InTable(address, count, 8 * BIT_NREGS)
        => /\ address - 1 \in Nat /\ address \in Nat \ {0}
           /\ count <= 1999 => Fits(2 + Bytes(count), len)
  BY <1>1, <1>2 DEF InTable, Fits
<1>5. ASSUME At(buf, 1) = 1 PROVE Served(buf, len, eMBFuncReadCoils(buf, len, tables))
  <2> DEFINE head == Headed(buf, 1, Bytes(count))
             bit  == address - 1
             from == tables.coils
             fill == CopyBits(head, 24, from, bit, count)
  <2>1. Answering(buf, 1, head)
    BY <1>2, <1>3, HeadedIs DEF Answering
  <2>2. ASSUME InTable(address, count, 8 * BIT_NREGS) PROVE Answering(buf, 1, fill)
    <3>1. from \in [DOMAIN from -> Byte] /\ bit \in Nat /\ count \in Nat
      BY <1>1, <1>4, <2>2 DEF Tables
    <3> HIDE DEF head, count, address, bit, from
    <3> QED BY <2>1, <3>1, BehindHead
  <2>3. eMBFuncReadCoils(buf, len, tables)
            = Reading(buf, len, tables, 1, count, 1999, 8 * BIT_NREGS, Bytes(count), fill)
    BY DEF eMBFuncReadCoils
  <2> DEFINE data == Bytes(count)
             size  == 8 * BIT_NREGS
             max   == 1999
             code  == 1
  <2>4. /\ code \in Byte /\ data \in Nat /\ size \in Nat /\ count \in Nat
        /\ 1 \in DOMAIN buf => buf[1] = code
    BY <1>1, <1>2, <1>3, <1>5
  <2>5. InTable(RegAddress(buf, 2), count, size)
          => Answering(buf, code, fill) /\ (count <= max => Fits(2 + data, len))
    BY <1>4, <2>2
  <2>6. eMBFuncReadCoils(buf, len, tables)
            = Reading(buf, len, tables, code, count, max, size, data, fill)
    BY <2>3
  <2>7. max \in Int
    OBVIOUS
  <2> HIDE DEF fill, count, from, bit, head, address, data, size, max, code
  <2>8. count \in 1 .. max => count <= max
    BY <2>4, <2>7
  <2>9. count \in 1 .. max /\ InTable(RegAddress(buf, 2), count, size)
          => Answering(buf, code, fill) /\ Fits(2 + data, len)
    BY <2>5, <2>8, Zenon
  <2>10. Served(buf, len, Reading(buf, len, tables, code, count, max, size, data, fill))
    BY <2>4, <2>9, ReadingIs
  <2> QED BY <2>6, <2>10
<1>6. ASSUME At(buf, 1) = 2 PROVE Served(buf, len, eMBFuncReadDiscreteInputs(buf, len, tables))
  <2> DEFINE head == Headed(buf, 2, Bytes(count))
             bits == BitsAt(usRegDiscreateBuf, address, count)
             fill == Put(head, 3, bits)
  <2>1. /\ head \in [DOMAIN buf -> Byte]
        /\ 0 \in DOMAIN buf => head[0] = buf[0]
        /\ 1 \in DOMAIN buf => head[1] = 2
    BY <1>2, <1>3, HeadedIs
  <2>2. ASSUME InTable(address, count, 8 * BIT_NREGS) PROVE Answering(buf, 2, fill)
    <3> HIDE DEF head, count, address, bits
    <3>1. bits \in Seq(Byte)
      BY <1>1, <1>4, <2>2, FilledIs, BitsAtIs DEF bits
    <3>2. /\ fill \in [DOMAIN buf -> Byte]
          /\ \A k \in DOMAIN buf : k < 3 /\ k \in Nat => fill[k] = head[k]
      <4>1. head \in [DOMAIN head -> Byte] /\ DOMAIN head = DOMAIN buf /\ 3 \in Nat
        BY <2>1
      <4>2. /\ fill \in [DOMAIN head -> Byte]
            /\ \A k \in DOMAIN head : k < 3 /\ k \in Nat => fill[k] = head[k]
        BY <3>1, <4>1, PutKeeps
      <4> QED BY <4>1, <4>2
    <3> HIDE DEF fill
    <3> QED BY <2>1, <3>2 DEF Answering
  <2>3. eMBFuncReadDiscreteInputs(buf, len, tables)
            = Reading(buf, len, tables, 2, count, 1999, 8 * BIT_NREGS, Bytes(count), fill)
    BY DEF eMBFuncReadDiscreteInputs
  <2> DEFINE data == Bytes(count)
             size  == 8 * BIT_NREGS
             max   == 1999
             code  == 2
  <2>4. /\ code \in Byte /\ data \in Nat /\ size \in Nat /\ count \in Nat
        /\ 1 \in DOMAIN buf => buf[1] = code
    BY <1>1, <1>2, <1>3, <1>6
  <2>5. InTable(RegAddress(buf, 2), count, size)
          => Answering(buf, code, fill) /\ (count <= max => Fits(2 + data, len))
    BY <1>4, <2>2
  <2>6. eMBFuncReadDiscreteInputs(buf, len, tables)
            = Reading(buf, len, tables, code, count, max, size, data, fill)
    BY <2>3
  <2>7. max \in Int
    OBVIOUS
  <2> HIDE DEF fill, count, bits, head, address, data, size, max, code
  <2>8. count \in 1 .. max => count <= max
    BY <2>4, <2>7
  <2>9. count \in 1 .. max /\ InTable(RegAddress(buf, 2), count, size)
          => Answering(buf, code, fill) /\ Fits(2 + data, len)
    BY <2>5, <2>8, Zenon
  <2>10. Served(buf, len, Reading(buf, len, tables, code, count, max, size, data, fill))
    BY <2>4, <2>9, ReadingIs
  <2> QED BY <2>6, <2>10
<1> QED BY <1>5, <1>6

\* Bytes put behind the head of an answer leave the head.
LEMMA DataBehindHead ==
    ASSUME NEW buf, NEW code, NEW head, Answering(buf, code, head), NEW s \in Seq(Byte)
    PROVE  Answering(buf, code, Put(head, 3, s))
<1> DEFINE new == Put(head, 3, s)
<1>1. head \in [DOMAIN head -> Byte] /\ DOMAIN head = DOMAIN buf
  BY DEF Answering
<1>2. /\ new \in [DOMAIN head -> Byte]
      /\ \A k \in DOMAIN head : k < 3 /\ k \in Nat => new[k] = head[k]
  BY <1>1, PutKeeps
<1> HIDE DEF new
<1>3. Answering(buf, code, new)
  BY <1>1, <1>2 DEF Answering
<1> QED BY <1>3 DEF new

\* The handlers that read registers.
LEMMA ReadWords ==
    ASSUME NEW buf, buf \in [DOMAIN buf -> Byte], NEW len \in Nat, NEW tables \in Tables
    PROVE  /\ At(buf, 1) = 3 => Served(buf, len, eMBFuncReadHoldingRegister(buf, len, tables))
           /\ At(buf, 1) = 4 => Served(buf, len, eMBFuncReadInputRegister(buf, len, tables))
<1> DEFINE address == RegAddress(buf, 2)
<1>1. ASSUME NEW count \in Nat, NEW max \in Nat, max <= 125, NEW code \in Byte, At(buf, 1) = code,
             NEW table \in [0 .. WORD_NREGS - 1 -> Half]
      PROVE  Served(buf, len, Reading(buf, len, tables, code, count, max, WORD_NREGS, 2 * count,
                  Put(Headed(buf, code, 2 * count), 3, WordsAt(table, address, count))))
  <2> DEFINE data == 2 * count
             head  == Headed(buf, code, data)
             words == WordsAt(table, address, count)
             fill  == Put(head, 3, words)
  <2>1. address \in Nat /\ WORD_NREGS \in Nat /\ data \in Nat
    BY AddressIs, TableAssumption
  <2>2. Answering(buf, code, head)
    BY <2>1, HeadedIs DEF Answering
  <2>3. ASSUME count \in 1 .. max, InTable(address, count, WORD_NREGS)
        PROVE  Answering(buf, code, fill) /\ Fits(2 + data, len)
    <3>1. words \in Seq(Byte)
      BY <2>1, <2>3, WordsAtIs
    <3>2. Fits(2 + data, len)
      BY <1>1, <2>1, <2>3 DEF InTable, Fits
    <3> HIDE DEF head, words
    <3> QED BY <2>2, <3>1, <3>2, DataBehindHead
  <2>4. 1 \in DOMAIN buf => buf[1] = code
    BY <1>1 DEF At
  <2> HIDE DEF head, words, fill, data
  <2>5. Served(buf, len, Reading(buf, len, tables, code, count, max, WORD_NREGS, data, fill))
    BY <2>1, <2>3, <2>4, ReadingIs
  <2> QED BY <2>5 DEF fill, head, words, data
<1>2. ASSUME At(buf, 1) = 3 PROVE Served(buf, len, eMBFuncReadHoldingRegister(buf, len, tables))
  <2>1. At(buf, 5) \in Nat /\ 3 \in Byte /\ 125 \in Nat /\ 125 <= 125
    <3>1. At(buf, 5) \in Byte
      BY AtIs
    <3> QED BY <3>1 DEF Byte
  <2>2. tables.holding \in [0 .. WORD_NREGS - 1 -> Half]
    BY DEF Tables
  <2> QED BY <1>1, <1>2, <2>1, <2>2, Zenon DEF eMBFuncReadHoldingRegister
<1>3. ASSUME At(buf, 1) = 4 PROVE Served(buf, len, eMBFuncReadInputRegister(buf, len, tables))
  <2>1. Word(buf, 4) \in Nat /\ 4 \in Byte /\ 124 \in Nat /\ 124 <= 125
    <3>1. Word(buf, 4) \in Half
      BY AtIs
    <3> QED BY <3>1 DEF Byte, Half
  <2> QED BY <1>1, <1>3, <2>1, FilledIs, Zenon DEF eMBFuncReadInputRegister
<1> QED BY <1>2, <1>3

\* The handlers that write.
LEMMA Writes ==
    ASSUME NEW buf, buf \in [DOMAIN buf -> Byte], NEW len \in Nat, NEW tables \in Tables
    PROVE  /\ Served(buf, len, eMBFuncWriteCoil(buf, len, tables))
           /\ Served(buf, len, eMBFuncWriteMultipleCoils(buf, len, tables))
           /\ Served(buf, len, eMBFuncWriteHoldingRegister(buf, len, tables))
           /\ Served(buf, len, eMBFuncWriteMultipleHoldingRegister(buf, len, tables))
<1> DEFINE address == RegAddress(buf, 2)
           bit     == address - 1
           coils   == tables.coils
           table   == tables.holding
<1>1. /\ coils \in [0 .. BIT_NREGS - 1 -> Byte] /\ coils \in [DOMAIN coils -> Byte]
      /\ DOMAIN coils = 0 .. BIT_NREGS - 1
      /\ table \in [0 .. WORD_NREGS - 1 -> Half]
  BY DEF Tables
<1>2. /\ \A c \in [0 .. BIT_NREGS - 1 -> Byte] : [tables EXCEPT !.coils = c] \in Tables
      /\ \A h \in [0 .. WORD_NREGS - 1 -> Half] : [tables EXCEPT !.holding = h] \in Tables
  BY DEF Tables
<1>3. /\ address \in Nat /\ Word(buf, 4) \in Nat
      /\ \A n, size : InTable(address, n, size) => bit \in Nat
  <2>1. Word(buf, 4) \in Half
    BY AtIs
  <2> QED BY <2>1, AddressIs DEF Half, InTable
<1> HIDE DEF bit, coils, table
<1>4. Served(buf, len, eMBFuncWriteCoil(buf, len, tables))
  <2> DEFINE value == IF At(buf, 4) = 255 THEN 1 ELSE 0
             valid == len = 5 /\ At(buf, 5) = 0 /\ At(buf, 4) \in {0, 255}
             new   == [tables EXCEPT !.coils = xMBUtilSetBits(coils, bit, 1, value)]
  <2>1. ASSUME InTable(address, 1, 8 * BIT_NREGS) PROVE new \in Tables
    <3>1. value \in {0, 1} /\ bit \in Nat
      BY <1>3, <2>1
    <3> HIDE DEF value
    <3>2. xMBUtilSetBits(coils, bit, 1, value) \in [0 .. BIT_NREGS - 1 -> Byte]
      BY <1>1, <3>1, SetBitsIs
    <3> QED BY <1>2, <3>2
  <2>2. valid \in BOOLEAN /\ (valid => len \in 1 .. 5 /\ len <= len)
    OBVIOUS
  <2>3. eMBFuncWriteCoil(buf, len, tables)
            = Writing(buf, len, tables, valid, 1, 8 * BIT_NREGS, len, new)
    BY DEF eMBFuncWriteCoil, bit, coils
  <2> HIDE DEF valid, new
  <2> QED BY <2>1, <2>2, <2>3, WritingIs
<1>5. Served(buf, len, eMBFuncWriteMultipleCoils(buf, len, tables))
  <2> DEFINE count == Word(buf, 4)
             max   == 1968
             valid == len > 5 /\ count \in 1 .. max /\ Bytes(count) = At(buf, 6)
             new   == [tables EXCEPT !.coils = CopyBits(coils, bit, buf, 56, count)]
  <2>1. ASSUME InTable(address, count, 8 * BIT_NREGS) PROVE new \in Tables
    <3>1. CopyBits(coils, bit, buf, 56, count) \in [DOMAIN coils -> Byte]
      BY <1>1, <1>3, <2>1, CopyBitsKeep
    <3> QED BY <1>1, <1>2, <3>1
  <2>2. valid \in BOOLEAN /\ (valid => 5 \in 1 .. 5 /\ 5 <= len)
    <3> HIDE DEF max
    <3> QED OBVIOUS
  <2>3. eMBFuncWriteMultipleCoils(buf, len, tables)
            = Writing(buf, len, tables, valid, count, 8 * BIT_NREGS, 5, new)
    BY DEF eMBFuncWriteMultipleCoils, bit, coils
  <2> HIDE DEF valid, new, count
  <2> QED BY <2>1, <2>2, <2>3, WritingIs
<1>6. \A n, i : [tables EXCEPT !.holding = WordsFrom(table, address, n, buf, i)] \in Tables
  BY <1>1, <1>2, WordsFromIs
<1>7. Served(buf, len, eMBFuncWriteHoldingRegister(buf, len, tables))
  <2> DEFINE new   == [tables EXCEPT !.holding = WordsFrom(table, address, 1, buf, 4)]
             valid == len = 5
  <2>1. new \in Tables /\ valid \in BOOLEAN /\ (valid => len \in 1 .. 5 /\ len <= len)
    BY <1>6
  <2>2. eMBFuncWriteHoldingRegister(buf, len, tables)
            = Writing(buf, len, tables, valid, 1, WORD_NREGS, len, new)
    BY DEF eMBFuncWriteHoldingRegister, table
  <2> HIDE DEF valid, new
  <2> QED BY <2>1, <2>2, WritingIs
<1>8. Served(buf, len, eMBFuncWriteMultipleHoldingRegister(buf, len, tables))
  <2> DEFINE count == Word(buf, 4)
             max   == 120
             new   == [tables EXCEPT !.holding = WordsFrom(table, address, count, buf, 7)]
             valid == len >= 6 /\ count \in 1 .. max /\ At(buf, 6) = (2 * count) % 256
  <2>1. new \in Tables
    BY <1>6
  <2>2. valid \in BOOLEAN /\ (valid => 5 \in 1 .. 5 /\ 5 <= len)
    <3> HIDE DEF max
    <3> QED OBVIOUS
  <2>3. eMBFuncWriteMultipleHoldingRegister(buf, len, tables)
            = Writing(buf, len, tables, valid, count, WORD_NREGS, 5, new)
    BY DEF eMBFuncWriteMultipleHoldingRegister, table
  <2> HIDE DEF valid, new
  <2> QED BY <2>1, <2>2, <2>3, WritingIs
<1> QED BY <1>4, <1>5, <1>7, <1>8

\* The handler that writes and reads.
LEMMA ReadWrites ==
    ASSUME NEW buf, buf \in [DOMAIN buf -> Byte], NEW len \in Nat, NEW tables \in Tables, At(buf, 1) = 23
    PROVE  Served(buf, len, eMBFuncReadWriteMultipleHoldingRegister(buf, len, tables))
<1> DEFINE count   == Word(buf, 4)
           wcount  == Word(buf, 8)
           wrote == [tables EXCEPT !.holding = WordsFrom(@, RegAddress(buf, 6), wcount, buf, 11)]
           data   == 2 * count
           head    == Headed(buf, 23, data)
           words   == WordsAt(wrote.holding, RegAddress(buf, 2), count)
           fill    == Put(head, 3, words)
           returned == eMBFuncReadWriteMultipleHoldingRegister(buf, len, tables)
           address == RegAddress(buf, 2)
<1>1. count \in Nat /\ data \in Nat /\ address \in Nat /\ 23 \in Byte
      /\ (1 \in DOMAIN buf => buf[1] = 23)
  <2>1. Word(buf, 4) \in Half
    BY AtIs
  <2> QED BY <2>1, AddressIs DEF Half, Byte, At
<1>2. wrote \in Tables /\ wrote.holding \in [0 .. WORD_NREGS - 1 -> Half]
  <2>1. tables.holding \in [0 .. WORD_NREGS - 1 -> Half]
    BY DEF Tables
  <2>2. WordsFrom(tables.holding, RegAddress(buf, 6), wcount, buf, 11) \in [0 .. WORD_NREGS - 1 -> Half]
    BY <2>1, WordsFromIs
  <2> QED BY <2>2 DEF Tables
<1>3. Answering(buf, 23, head)
  BY <1>1, HeadedIs DEF Answering
<1>4. ASSUME count \in 1 .. 125, InTable(address, count, WORD_NREGS) PROVE Answering(buf, 23, fill) /\ Fits(2 + data, len)
  <2>1. words \in Seq(Byte)
    BY <1>1, <1>2, <1>4, WordsAtIs
  <2>2. Fits(2 + data, len)
    BY <1>1, <1>4, TableAssumption DEF InTable, Fits
  <2> HIDE DEF head, words
  <2> QED BY <1>3, <2>1, <2>2, DataBehindHead
<1>5. \/ len < 10 /\ returned = Result(NONE, buf, len, tables)
      \/ returned = Result(ILLEGAL_DATA_VALUE, buf, len, tables)
      \/ returned = Result(ILLEGAL_DATA_ADDRESS, buf, len, tables)
      \/ len >= 10 /\ returned = Result(ILLEGAL_DATA_ADDRESS, head, 2, wrote)
      \/ /\ count \in 1 .. 125 /\ InTable(address, count, WORD_NREGS)
         /\ returned = Result(NONE, fill, 2 + data, wrote)
  <2> HIDE DEF fill, wrote
  <2> QED BY DEF eMBFuncReadWriteMultipleHoldingRegister, fill, wrote
<1> HIDE DEF count, wcount, wrote, data, head, words, fill, returned, address
<1>6. /\ \A e \in {2, 3} : Served(buf, len, Result(e, buf, len, tables))
      /\ len < 10 => Served(buf, len, Result(0, buf, len, tables))
      /\ len >= 10 => Served(buf, len, Result(2, head, 2, wrote))
  BY <1>2, <1>3 DEF Served, Result, Answering, NONE, Fits
<1>7. count \in 1 .. 125 /\ InTable(address, count, WORD_NREGS)
        => Served(buf, len, Result(NONE, fill, 2 + data, wrote))
  BY <1>1, <1>2, <1>4 DEF Served, Result, Answering, NONE
<1>8. Served(buf, len, returned)
  BY <1>5, <1>6, <1>7 DEF NONE, ILLEGAL_DATA_ADDRESS, ILLEGAL_DATA_VALUE
<1> QED BY <1>8 DEF returned

\* Whatever the request.
LEMMA HandleIs ==
    ASSUME NEW buf, buf \in [DOMAIN buf -> Byte], NEW len \in Nat, NEW tables \in Tables
    PROVE  Served(buf, len, Handle(buf, len, tables))
<1>1. /\ Served(buf, len, Result(ILLEGAL_FUNCTION, buf, len, tables))
      /\ Served(buf, len, eMBFuncReportSlaveID(buf, len, tables))
  BY TableAssumption DEF Served, Result, Fits, NONE, ILLEGAL_FUNCTION, eMBFuncReportSlaveID
<1> QED BY <1>1, ReadBits, ReadWords, Writes, ReadWrites DEF Handle

\* The events that stand for a frame, and what the queue holds of them.
Handled == {"FRAME_RECEIVED", "EXECUTE"}
Has(q, e) == \E i \in DOMAIN q : q[i] = e
Free(q)   == \A e \in Handled : ~Has(q, e)
Alone(q)  == \A i, j \in DOMAIN q : q[i] \in Handled /\ q[j] \in Handled => i = j

\* What the queue of events is when one is taken from it,
LEMMA EventTaken ==
    ASSUME NEW q \in Seq(Events), q # <<>>
    PROVE  /\ Head(q) \in Events /\ Tail(q) \in Seq(Events) /\ Has(q, Head(q))
           /\ \A e : Has(Tail(q), e) => Has(q, e)
           /\ Alone(q) => /\ Alone(Tail(q))
                          /\ Head(q) \in Handled => Free(Tail(q))
<1>1. /\ Head(q) \in Events /\ Tail(q) \in Seq(Events)
      /\ Len(q) \in Nat \ {0} /\ Len(Tail(q)) = Len(q) - 1
      /\ DOMAIN q = 1 .. Len(q) /\ DOMAIN Tail(q) = 1 .. Len(q) - 1
  OBVIOUS
<1>2. q[1] = Head(q) /\ 1 \in DOMAIN q
  BY <1>1
<1>3. ASSUME NEW i \in DOMAIN Tail(q)
      PROVE  i + 1 \in DOMAIN q /\ i + 1 # 1 /\ Tail(q)[i] = q[i + 1] /\ i \in Nat
  BY <1>1
<1>4. \A e : Has(Tail(q), e) => Has(q, e)
  BY <1>3 DEF Has
<1>5. ASSUME Alone(q) PROVE Alone(Tail(q))
  <2> SUFFICES ASSUME NEW i \in DOMAIN Tail(q), NEW j \in DOMAIN Tail(q),
                      Tail(q)[i] \in Handled, Tail(q)[j] \in Handled
               PROVE  i = j
    BY DEF Alone
  <2>1. i + 1 = j + 1
    BY <1>3, <1>5 DEF Alone
  <2> QED BY <1>3, <2>1
<1>6. ASSUME Alone(q), Head(q) \in Handled PROVE Free(Tail(q))
  <2> SUFFICES ASSUME NEW i \in DOMAIN Tail(q), Tail(q)[i] \in Handled PROVE FALSE
    BY DEF Free, Has
  <2> QED BY <1>2, <1>3, <1>6 DEF Alone
<1> QED BY <1>1, <1>2, <1>4, <1>5, <1>6 DEF Has

\* What is neither received nor to be executed may go and come.
LEMMA OtherTaken ==
    ASSUME NEW q \in Seq(Events), q # <<>>, Head(q) \notin Handled
    PROVE  \A e \in Handled : Has(Tail(q), e) <=> Has(q, e)
<1> SUFFICES ASSUME NEW e \in Handled PROVE Has(q, e) => Has(Tail(q), e)
  BY EventTaken
<1> SUFFICES ASSUME NEW i \in DOMAIN q, q[i] = e PROVE Has(Tail(q), e)
  BY DEF Has
<1>1. i \in 1 .. Len(q) /\ Len(q) \in Nat /\ q[1] = Head(q)
  OBVIOUS
<1>2. i # 1
  BY <1>1
<1>3. i - 1 \in 1 .. Len(q) - 1 /\ (i - 1) + 1 = i
  BY <1>1, <1>2
<1>4. i - 1 \in DOMAIN Tail(q) /\ Tail(q)[i - 1] = q[(i - 1) + 1]
  BY <1>1, <1>3
<1> QED BY <1>3, <1>4 DEF Has

\* and when one is posted.
LEMMA EventPosted ==
    ASSUME NEW q \in Seq(Events), NEW e \in Events
    PROVE  /\ Append(q, e) \in Seq(Events)
           /\ \A x : Has(Append(q, e), x) <=> Has(q, x) \/ x = e
           /\ Alone(q) /\ e \notin Handled => Alone(Append(q, e))
           /\ Free(q) => Alone(Append(q, e))
<1> DEFINE n == Len(q) + 1
           a == Append(q, e)
<1>1. /\ a \in Seq(Events) /\ DOMAIN q = 1 .. Len(q) /\ DOMAIN a = 1 .. n /\ Len(q) \in Nat
      /\ \A i \in 1 .. Len(q) : a[i] = q[i]
      /\ a[n] = e
  BY AppendProperties
<1>2. DOMAIN a = DOMAIN q \cup {n} /\ n \notin DOMAIN q
  BY <1>1
<1>3. \A i \in DOMAIN q : a[i] = q[i]
  BY <1>1
<1>4. a[n] = e
  BY <1>1
<1> HIDE DEF a, n
<1>5. \A x : Has(a, x) <=> Has(q, x) \/ x = e
  BY <1>2, <1>3, <1>4 DEF Has
<1>6. Alone(q) /\ e \notin Handled => Alone(a)
  BY <1>2, <1>3, <1>4 DEF Alone
<1>7. Free(q) => Alone(a)
  BY <1>2, <1>3, <1>4 DEF Alone, Free, Has
<1>8. a \in Seq(Events)
  BY <1>1
<1> QED BY <1>5, <1>6, <1>7, <1>8 DEF a

\* A received frame and one to be executed are never queued together.
LEMMA OneOfThem ==
    ASSUME NEW q, Alone(q), Has(q, "FRAME_RECEIVED") PROVE ~Has(q, "EXECUTE")
  BY DEF Alone, Has, Handled

\* A list that is a beginning of another: what the property says of it.
LEMMA Beginning ==
    ASSUME NEW S, NEW s \in Seq(S), NEW t, t = s \/ \E x : t = Append(s, x)
    PROVE  Len(s) <= Len(t) /\ s = SubSeq(t, 1, Len(s))
<1>1. CASE t = s
  <2>1. Len(s) \in Nat /\ SubSeq(s, 1, Len(s)) = s
    OBVIOUS
  <2> QED BY <1>1, <2>1
<1>2. ASSUME NEW x, t = Append(s, x) PROVE Len(s) <= Len(t) /\ s = SubSeq(t, 1, Len(s))
  <2> DEFINE T == S \cup {x}
  <2>1. s \in Seq(T) /\ x \in T
    OBVIOUS
  <2> HIDE DEF T
  <2>2. Len(s) \in Nat /\ Len(t) = Len(s) + 1 /\ t \in Seq(T)
    BY <1>2, <2>1
  <2>3. \A i \in 1 .. Len(s) : t[i] = s[i]
    BY <1>2, <2>1, AppendProperties
  <2>4. /\ SubSeq(t, 1, Len(s)) \in Seq(T) /\ Len(SubSeq(t, 1, Len(s))) = Len(s)
        /\ \A i \in 1 .. Len(s) : SubSeq(t, 1, Len(s))[i] = t[i]
    BY <2>2
  <2>5. s = SubSeq(t, 1, Len(s))
    BY <2>1, <2>3, <2>4, SeqEqual
  <2> QED BY <2>2, <2>5
<1> QED BY <1>1, <1>2

-----------------------------------------------------------------------------
Requested == Byte \X Seq(Byte)
PDU == <<ucRcvAddress, [i \in 1 .. usLength |-> ucRTUBuf[i]]>>

\* An answer that is under way has woken the transmit thread.
Sending == eSndState # "TX_IDLE" => tx_check_semaphore > 0 \/ tx \in {"loop", "posted"}
Unsent  == eRcvState # "IDLE" \/ rx # "no" => tx = "wait" /\ tx_check_semaphore = 0

PortTypes ==
    /\ usRcvBufferPos \in Nat /\ queue \in Seq(Events) /\ tx_check_semaphore \in Nat
    /\ tx \in {"wait", "loop", "posted", "write"}

RtuTypes == /\ PortTypes
            /\ eRcvState \in {"INIT", "IDLE", "RCV", "ERROR"}
            /\ handler \in {"no", "posted", "stopped"}
            /\ usRcvBufferPos <= MB_SER_PDU_SIZE_MAX
            /\ rx \in {"no", "first", "begin", "store", "enable"}

RtuTimed == /\ timer /\ handler = "no" /\ rx = "no" => eRcvState # "IDLE"
            /\ handler = "stopped" => ~timer
            /\ rx \in {"store", "enable"} => eRcvState # "IDLE"

\* The receive machine is at work with nothing else under way.
RtuAlone == rx # "no" => handler = "no" /\ Free(queue)

\* The frame that is next: in the buffer and not looked at, or to be executed.
RtuNow == IF Intact /\ Ours(ucRTUBuf[0]) THEN Append(executed, Request(Received)) ELSE executed
RtuFrame == /\ Free(queue) => expected = executed
            /\ Has(queue, "FRAME_RECEIVED") => expected = RtuNow
            /\ Has(queue, "EXECUTE") => expected = Append(executed, PDU)
Lists == expected \in Seq(Requested) /\ executed \in Seq(Requested)

RtuSafe == /\ Alone(queue) /\ Unsent /\ RtuTimed /\ RtuAlone /\ RtuFrame /\ Lists
           /\ eRcvState # "IDLE" /\ handler = "no" => Free(queue)

RtuInv == RtuTypes /\ Sending /\ AbortsOnlyEarly /\ (~overrun => RtuSafe)

\* What the line needs to be quiet, said of the queue.
LEMMA QuietIs ==
    ASSUME queue \in Seq(Events)
    PROVE  Quiet <=> handler = "no" /\ tx = "wait" /\ tx_check_semaphore = 0 /\ Free(queue)
<1>1. \A i \in DOMAIN queue : queue[i] \in Events
  OBVIOUS
<1>2. (\A i \in DOMAIN queue : queue[i] \in {"READY", "FRAME_SENT"}) <=> Free(queue)
  BY <1>1 DEF Free, Has, Handled, Events
<1> QED BY <1>2 DEF Quiet

\* The invariant holds at the start,
LEMMA RtuInit == Init => RtuInv
<1> SUFFICES ASSUME Init PROVE RtuInv
  OBVIOUS
<1>1. /\ eRcvState = "INIT" /\ eSndState = "TX_IDLE" /\ usRcvBufferPos = 0
      /\ handler = "no" /\ queue = <<>> /\ tx_check_semaphore = 0 /\ tx = "wait" /\ rx = "no"
      /\ aborted = FALSE /\ expected = <<>> /\ executed = <<>>
  BY DEF Init
<1>2. RtuTypes
  BY <1>1, FrameAssumption DEF FrameAssumption, RtuTypes, PortTypes
<1>3. Free(queue) /\ Alone(queue) /\ \A e : ~Has(queue, e)
  BY <1>1 DEF Free, Has, Alone
<1>4. Lists
  BY <1>1 DEF Lists
<1>5. RtuSafe
  BY <1>1, <1>3, <1>4 DEF RtuSafe, Unsent, RtuTimed, RtuAlone, RtuFrame
<1> QED BY <1>1, <1>2, <1>5 DEF RtuInv, Sending, AbortsOnlyEarly

\* A failed assert leaves everything as it is.
LEMMA RtuAborts ==
    ASSUME RtuInv, Aborts, UNCHANGED rx, overrun => overrun', overrun' \/ usRcvBufferPos = MB_SER_PDU_SIZE_MAX
    PROVE  RtuInv'
<1>1. UNCHANGED <<eRcvState, eSndState, buffer, timer, handler, queue, poll_vars, tx_vars, expected>>
  BY DEF Aborts
<1>2. UNCHANGED <<eRcvState, eSndState, ucRTUBuf, usRcvBufferPos, timer, handler, queue,
                  ucRcvAddress, usLength, executed, tx_check_semaphore, tx, expected>>
  BY <1>1 DEF buffer, poll_vars, tx_vars
<1>3. RtuTypes' /\ Sending' /\ AbortsOnlyEarly'
  BY <1>2 DEF RtuInv, RtuTypes, PortTypes, Sending, AbortsOnlyEarly
<1>4. RtuSafe => RtuSafe'
  BY <1>2 DEF RtuSafe, Unsent, RtuTimed, RtuAlone, RtuFrame, RtuNow, Intact, Received, PDU, Lists
<1> QED BY <1>3, <1>4 DEF RtuInv

\* A byte: if it does not come too early there is no frame that it could disturb.
LEMMA RtuByte ==
    ASSUME RtuInv, Run, NEW rest, NextByte(rest)
    PROVE  RtuInv'
<1>1. overrun' = (overrun \/ ~Quiet) /\ rx = "no"
  BY DEF NextByte
<1>2. Quiet <=> handler = "no" /\ tx = "wait" /\ tx_check_semaphore = 0 /\ Free(queue)
  BY QuietIs DEF RtuInv, RtuTypes, PortTypes
<1>3. CASE eSndState # "TX_IDLE" /\ Aborts /\ UNCHANGED rx
  <2>1. ~Quiet
    BY <1>2, <1>3 DEF RtuInv, Sending
  <2>2. overrun'
    BY <1>1, <2>1, Zenon
  <2> QED BY <1>3, <2>2, RtuAborts
<1>4. CASE Reads(Head(rest))
  <2>1. UNCHANGED <<eRcvState, eSndState, ucRTUBuf, usRcvBufferPos, timer, handler, queue,
                    ucRcvAddress, usLength, executed, tx_check_semaphore, tx, aborted, expected>>
    BY <1>4 DEF Reads, buffer, poll_vars, tx_vars
  <2>2. rx' \in {"first", "store", "enable"} /\ (rx' # "first" => eRcvState # "IDLE")
    BY <1>4 DEF Reads, RtuInv, RtuTypes
  <2>3. RtuTypes' /\ Sending' /\ AbortsOnlyEarly'
    BY <2>1, <2>2 DEF RtuInv, RtuTypes, PortTypes, Sending, AbortsOnlyEarly, Run
  <2>4. ASSUME ~overrun' PROVE RtuSafe'
    <3>1. RtuSafe /\ handler = "no" /\ tx = "wait" /\ tx_check_semaphore = 0 /\ Free(queue)
      BY <1>1, <1>2, <2>4 DEF RtuInv
    <3>2. RtuFrame' /\ Lists'
      BY <2>1, <3>1 DEF RtuSafe, RtuFrame, RtuNow, Intact, Received, PDU, Lists
    <3>3. Unsent' /\ RtuTimed' /\ RtuAlone'
      BY <2>1, <2>2, <3>1 DEF Unsent, RtuTimed, RtuAlone
    <3> QED BY <2>1, <3>1, <3>2, <3>3 DEF RtuSafe
  <2> QED BY <2>3, <2>4 DEF RtuInv
<1> QED BY <1>3, <1>4 DEF NextByte

\* A step of the receive machine: what it changes is of no frame that has been received.
LEMMA RtuReceives == RtuInv /\ xMBRTUReceiveFSM => RtuInv'
<1> SUFFICES ASSUME RtuInv, xMBRTUReceiveFSM PROVE RtuInv'
  OBVIOUS
<1>1. /\ Run /\ rx # "no"
      /\ UNCHANGED <<eSndState, handler, queue, ucRcvAddress, usLength, executed,
                     tx_check_semaphore, tx, aborted, expected, overrun>>
  BY DEF xMBRTUReceiveFSM, Moves, poll_vars, tx_vars
<1>2. \/ rx = "first" /\ rx' = "begin" /\ usRcvBufferPos' = 1 /\ UNCHANGED <<eRcvState, timer>>
      \/ rx = "begin" /\ rx' = "enable" /\ eRcvState' = "RCV" /\ UNCHANGED <<usRcvBufferPos, timer>>
      \/ /\ rx = "store" /\ rx' = "enable" /\ usRcvBufferPos < MB_SER_PDU_SIZE_MAX
         /\ usRcvBufferPos' = usRcvBufferPos + 1 /\ UNCHANGED <<eRcvState, timer>>
      \/ rx = "store" /\ rx' = "enable" /\ eRcvState' = "ERROR" /\ UNCHANGED <<usRcvBufferPos, timer>>
      \/ rx = "enable" /\ rx' = "no" /\ UNCHANGED <<eRcvState, usRcvBufferPos>>
  BY DEF xMBRTUReceiveFSM, Moves, Store, buffer
<1>3. usRcvBufferPos' \in Nat /\ usRcvBufferPos' <= MB_SER_PDU_SIZE_MAX
  BY <1>2, FrameAssumption
  DEF RtuInv, RtuTypes, PortTypes, FrameAssumption, MB_SER_PDU_SIZE_MIN
<1>4. RtuTypes' /\ Sending' /\ AbortsOnlyEarly'
  BY <1>1, <1>2, <1>3 DEF RtuInv, RtuTypes, PortTypes, Sending, AbortsOnlyEarly, Run
<1>5. ASSUME RtuSafe PROVE RtuSafe'
  <2>1. handler = "no" /\ tx = "wait" /\ tx_check_semaphore = 0 /\ Free(queue)
    BY <1>1, <1>5 DEF RtuSafe, Unsent, RtuAlone
  <2>2. ~Has(queue, "FRAME_RECEIVED") /\ ~Has(queue, "EXECUTE")
    BY <2>1 DEF Free, Handled
  <2>3. RtuFrame' /\ Lists' /\ Alone(queue')
    BY <1>1, <1>5, <2>1, <2>2 DEF RtuSafe, RtuFrame, Lists
  <2>4. RtuTimed'
    <3>1. rx' \in {"store", "enable"} => eRcvState' # "IDLE"
      BY <1>2, <1>5 DEF RtuSafe, RtuTimed
    <3>2. rx' = "no" => eRcvState' # "IDLE"
      BY <1>2, <1>5 DEF RtuSafe, RtuTimed
    <3> QED BY <1>1, <2>1, <3>1, <3>2 DEF RtuTimed
  <2>5. Unsent' /\ RtuAlone'
    BY <1>1, <2>1 DEF Unsent, RtuAlone
  <2> QED BY <1>1, <2>1, <2>3, <2>4, <2>5 DEF RtuSafe
<1> QED BY <1>1, <1>4, <1>5 DEF RtuInv

\* The end of a frame.
LEMMA RtuExpires == RtuInv /\ TimerExpires => RtuInv'
<1> SUFFICES ASSUME RtuInv, TimerExpires PROVE RtuInv'
  OBVIOUS
<1>1. Run /\ timer /\ handler = "no" /\ overrun' = (overrun \/ rx # "no") /\ UNCHANGED rx
  BY DEF TimerExpires
<1>2. CASE eRcvState = "IDLE" /\ Aborts
  <2>1. overrun \/ rx # "no"
    BY <1>1, <1>2 DEF RtuInv, RtuSafe, RtuTimed
  <2>2. overrun'
    BY <1>1, <2>1, Zenon
  <2> QED BY <1>1, <1>2, <2>2, RtuAborts
<1>3. CASE eRcvState # "IDLE" /\ ~Aborts
  <2>1. /\ timer' = FALSE /\ handler' = "posted"
        /\ queue' = CASE eRcvState = "INIT"  -> Append(queue, "READY")
                      [] eRcvState = "RCV"   -> Append(queue, "FRAME_RECEIVED")
                      [] eRcvState = "ERROR" -> queue
        /\ expected' = IF eRcvState = "RCV" /\ Intact /\ Ours(ucRTUBuf[0])
                       THEN Append(expected, Request(Received)) ELSE expected
        /\ UNCHANGED <<eRcvState, eSndState, ucRTUBuf, usRcvBufferPos, ucRcvAddress, usLength,
                       executed, tx_check_semaphore, tx, aborted>>
    BY <1>3 DEF TimerExpires, buffer, poll_vars, tx_vars
  <2>2. /\ queue \in Seq(Events) /\ eRcvState \in {"INIT", "RCV", "ERROR"}
        /\ "READY" \in Events /\ "FRAME_RECEIVED" \in Events
    BY <1>3 DEF RtuInv, RtuTypes, PortTypes, Events
  <2>3. queue' \in Seq(Events)
    BY <2>1, <2>2, EventPosted
  <2>4. RtuTypes' /\ Sending' /\ AbortsOnlyEarly'
    BY <1>1, <2>1, <2>3 DEF RtuInv, RtuTypes, PortTypes, Sending, AbortsOnlyEarly, Run
  <2>5. ASSUME ~overrun' PROVE RtuSafe'
    <3>1. RtuSafe /\ Free(queue) /\ rx = "no"
      <4>1. ~overrun /\ rx = "no"
        BY <1>1, <2>5, Zenon
      <4> QED BY <1>1, <1>3, <4>1 DEF RtuInv, RtuSafe
    <3>2. /\ Alone(queue) /\ Unsent /\ Lists /\ expected = executed
          /\ ~Has(queue, "FRAME_RECEIVED") /\ ~Has(queue, "EXECUTE")
      BY <3>1 DEF RtuSafe, RtuFrame, Free, Handled
    <3>3. Alone(queue') /\ ~Has(queue', "EXECUTE")
      BY <2>1, <2>2, <3>1, <3>2, EventPosted
    <3>4. Unsent' /\ RtuTimed' /\ RtuAlone'
      BY <1>1, <2>1, <3>1, <3>2 DEF Unsent, RtuTimed, RtuAlone
    <3>5. RtuNow' = RtuNow
      BY <2>1 DEF RtuNow, Intact, Received
    <3>6. Lists'
      <4>1. CASE eRcvState = "RCV" /\ Intact /\ Ours(ucRTUBuf[0])
        <5>1. Received \in Seq(Byte) /\ Len(Received) >= 4 /\ Len(Received) \in Nat
          <6>1. Received \in Seq(Byte) /\ Len(Received) = usRcvBufferPos
            <7>1. Received \in Seq(Byte)
              BY <4>1, FrameAssumption DEF FrameAssumption, Lines, Intact
            <7>2. usRcvBufferPos \in Nat /\ DOMAIN Received = 1 .. usRcvBufferPos
              BY FrameAssumption DEF FrameAssumption, Received, RtuInv, RtuTypes, PortTypes
            <7>3. DOMAIN Received = 1 .. Len(Received) /\ Len(Received) \in Nat
              BY <7>1
            <7> HIDE DEF Received
            <7> QED BY <7>1, <7>2, <7>3
          <6> QED BY <4>1, <6>1 DEF Intact, MB_SER_PDU_SIZE_MIN
        <5>2. Received[1] \in Byte /\ SubSeq(Received, 2, Len(Received) - 2) \in Seq(Byte)
          <6>1. 1 \in 1 .. Len(Received) /\ Len(Received) - 2 \in 1 .. Len(Received)
            BY <5>1
          <6>2. Received[1] \in Byte
            BY <5>1, <6>1, ElementOfSeq
          <6>3. \A i \in 2 .. Len(Received) - 2 : Received[i] \in Byte
            BY <5>1, ElementOfSeq
          <6> HIDE DEF Received
          <6> QED BY <5>1, <6>2, <6>3
        <5>3. Request(Received) \in Requested
          BY <5>2 DEF Request, Requested
        <5> QED BY <2>1, <3>2, <4>1, <5>3 DEF Lists
      <4>2. CASE ~(eRcvState = "RCV" /\ Intact /\ Ours(ucRTUBuf[0]))
        BY <2>1, <3>2, <4>2 DEF Lists
      <4> QED BY <4>1, <4>2
    <3>7. RtuFrame'
      <4>1. CASE eRcvState = "RCV"
        <5>1. Has(queue', "FRAME_RECEIVED") /\ ~Free(queue')
          <6>1. Has(queue', "FRAME_RECEIVED")
            BY <2>1, <2>2, <4>1, EventPosted
          <6> QED BY <6>1 DEF Free, Handled
        <5>2. expected' = RtuNow
          BY <2>1, <3>2, <4>1 DEF RtuNow
        <5> QED BY <3>3, <3>5, <5>1, <5>2 DEF RtuFrame
      <4>2. CASE eRcvState # "RCV"
        <5>1. ~Has(queue', "FRAME_RECEIVED") /\ expected' = executed'
          BY <2>1, <2>2, <3>2, <4>2, EventPosted
        <5> QED BY <3>3, <5>1 DEF RtuFrame
      <4> QED BY <4>1, <4>2
    <3> QED BY <2>1, <3>3, <3>4, <3>6, <3>7 DEF RtuSafe
  <2> QED BY <2>4, <2>5 DEF RtuInv
<1> QED BY <1>1, <1>2, <1>3 DEF TimerExpires, Aborts, Run

\* The signal handler, with its timer expired.
LEMMA RtuHandled == RtuInv /\ (HandlerStops \/ HandlerIdles) => RtuInv'
<1> SUFFICES ASSUME RtuInv, HandlerStops \/ HandlerIdles PROVE RtuInv'
  OBVIOUS
<1>1. /\ ~aborted
      /\ UNCHANGED <<eSndState, ucRTUBuf, usRcvBufferPos, queue, ucRcvAddress, usLength, executed,
                     tx_check_semaphore, tx, aborted, expected, overrun, rx>>
      /\ \/ /\ handler = "posted" /\ handler' = "stopped" /\ timer' = FALSE
            /\ UNCHANGED eRcvState
         \/ /\ handler = "stopped" /\ handler' = "no" /\ eRcvState' = "IDLE" /\ UNCHANGED timer
  BY DEF HandlerStops, HandlerIdles, Run, buffer, poll_vars, tx_vars, line_vars
<1>2. RtuTypes' /\ Sending' /\ AbortsOnlyEarly'
  BY <1>1 DEF RtuInv, RtuTypes, PortTypes, Sending, AbortsOnlyEarly
<1>3. ASSUME RtuSafe PROVE RtuSafe'
  <2>1. RtuFrame' /\ Lists'
    BY <1>1, <1>3 DEF RtuSafe, RtuFrame, RtuNow, Intact, Received, PDU, Lists
  <2>2. Unsent' /\ RtuTimed' /\ RtuAlone' /\ Alone(queue')
    BY <1>1, <1>3 DEF RtuSafe, Unsent, RtuTimed, RtuAlone
  <2>3. eRcvState' # "IDLE" /\ handler' = "no" => Free(queue')
    BY <1>1
  <2> QED BY <2>1, <2>2, <2>3 DEF RtuSafe
<1> QED BY <1>1, <1>2, <1>3 DEF RtuInv

-----------------------------------------------------------------------------
\* What a frame in the buffer asks for.
LEMMA RequestIs ==
    ASSUME usRcvBufferPos \in 4 .. MB_SER_PDU_SIZE_MAX
    PROVE  Request(Received) = <<ucRTUBuf[0], [i \in 1 .. usRcvBufferPos - 3 |-> ucRTUBuf[i]]>>
<1>1. usRcvBufferPos \in Nat /\ usRcvBufferPos >= 4
  BY FrameAssumption DEF FrameAssumption
<1>2. Len(Received) = usRcvBufferPos
  BY <1>1 DEF Received
<1>3. Received[1] = ucRTUBuf[0]
  BY <1>1 DEF Received
<1>4. SubSeq(Received, 2, usRcvBufferPos - 2)
        = [i \in 1 .. (usRcvBufferPos - 2) - 2 + 1 |-> Received[i + 2 - 1]]
  OBVIOUS
<1>5. (usRcvBufferPos - 2) - 2 + 1 = usRcvBufferPos - 3
  BY <1>1
<1>6. \A i \in 1 .. usRcvBufferPos - 3 : Received[i + 2 - 1] = ucRTUBuf[i]
  BY <1>1 DEF Received
<1> HIDE DEF Received
<1>7. SubSeq(Received, 2, usRcvBufferPos - 2) = [i \in 1 .. usRcvBufferPos - 3 |-> ucRTUBuf[i]]
  BY <1>4, <1>5, <1>6
<1> QED BY <1>2, <1>3, <1>7 DEF Request

\* eMBPoll with nothing to do.
LEMMA RtuPollNothing == RtuInv /\ PollNothing => RtuInv'
<1> SUFFICES ASSUME RtuInv, PollNothing PROVE RtuInv'
  OBVIOUS
<1>1. /\ Run /\ queue # <<>> /\ Head(queue) \notin Handled /\ queue' = Tail(queue)
      /\ UNCHANGED <<eRcvState, eSndState, ucRTUBuf, usRcvBufferPos, timer, handler, ucRcvAddress,
                     usLength, executed, tx_check_semaphore, tx, aborted, expected, overrun, rx>>
  BY DEF PollNothing, Handled, buffer, poll_vars, tx_vars, line_vars
<1>2. queue \in Seq(Events)
  BY DEF RtuInv, RtuTypes, PortTypes
<1>3. /\ queue' \in Seq(Events)
      /\ \A e : Has(queue', e) => Has(queue, e)
      /\ Alone(queue) => Alone(queue')
  BY <1>1, <1>2, EventTaken
<1>4. RtuTypes' /\ Sending' /\ AbortsOnlyEarly'
  BY <1>1, <1>3 DEF RtuInv, RtuTypes, PortTypes, Sending, AbortsOnlyEarly, Run
<1>5. ASSUME RtuSafe PROVE RtuSafe'
  <2>1. Alone(queue') /\ Unsent' /\ RtuTimed' /\ Lists'
    BY <1>1, <1>3, <1>5 DEF RtuSafe, Unsent, RtuTimed, Lists
  <2>2. \A e \in Handled : Has(queue, e) => Has(queue', e)
    BY <1>1, <1>2, OtherTaken
  <2>3. Free(queue) <=> Free(queue')
    BY <1>3, <2>2 DEF Free
  <2>4. RtuNow' = RtuNow /\ PDU' = PDU
    BY <1>1 DEF RtuNow, Intact, Received, PDU
  <2>5. RtuFrame' /\ RtuAlone'
    BY <1>1, <1>3, <1>5, <2>3, <2>4 DEF RtuSafe, RtuFrame, RtuAlone
  <2> QED BY <1>1, <1>5, <2>1, <2>3, <2>5 DEF RtuSafe
<1> QED BY <1>1, <1>4, <1>5 DEF RtuInv

\* The frame is looked at: what is to be executed then is what it asks for.
LEMMA RtuPollReceived == RtuInv /\ PollReceived => RtuInv'
<1> SUFFICES ASSUME RtuInv, PollReceived PROVE RtuInv'
  OBVIOUS
<1>1. /\ Run /\ handler = "no" /\ queue # <<>> /\ Head(queue) = "FRAME_RECEIVED"
      /\ UNCHANGED <<overrun, rx>>
  BY DEF PollReceived, line_vars
<1>2. CASE usRcvBufferPos >= MB_SER_PDU_SIZE_MAX /\ Aborts
  <2>1. usRcvBufferPos = MB_SER_PDU_SIZE_MAX
    BY <1>2, FrameAssumption DEF RtuInv, RtuTypes, PortTypes, FrameAssumption
  <2> QED BY <1>1, <1>2, <2>1, RtuAborts
<1>3. CASE usRcvBufferPos < MB_SER_PDU_SIZE_MAX /\ ~Aborts
  <2>1. /\ Intact => ucRcvAddress' = ucRTUBuf[0] /\ usLength' = usRcvBufferPos - 3
        /\ queue' = IF Intact /\ Ours(ucRTUBuf[0]) THEN Append(Tail(queue), "EXECUTE")
                    ELSE Tail(queue)
        /\ UNCHANGED <<eRcvState, eSndState, ucRTUBuf, usRcvBufferPos, timer, handler, executed,
                       tx_check_semaphore, tx, aborted, expected>>
    BY <1>3 DEF PollReceived, buffer, tx_vars
  <2>2. queue \in Seq(Events) /\ "EXECUTE" \in Events
    BY DEF RtuInv, RtuTypes, PortTypes, Events
  <2>3. /\ Tail(queue) \in Seq(Events) /\ Has(queue, "FRAME_RECEIVED")
        /\ Alone(queue) => Free(Tail(queue)) /\ Alone(Tail(queue))
    BY <1>1, <2>2, EventTaken DEF Handled
  <2>4. queue' \in Seq(Events)
    BY <2>1, <2>2, <2>3, EventPosted
  <2>5. RtuTypes' /\ Sending' /\ AbortsOnlyEarly'
    BY <1>1, <2>1, <2>4 DEF RtuInv, RtuTypes, PortTypes, Sending, AbortsOnlyEarly, Run
  <2>6. ASSUME RtuSafe PROVE RtuSafe'
    <3>1. /\ Free(Tail(queue)) /\ Alone(Tail(queue)) /\ eRcvState = "IDLE" /\ expected = RtuNow
          /\ rx = "no"
      <4>1. ~Free(queue)
        BY <2>3 DEF Free, Handled
      <4> QED BY <1>1, <2>3, <2>6, <4>1 DEF RtuSafe, RtuFrame, RtuAlone
    <3>2. Alone(queue') /\ ~Has(queue', "FRAME_RECEIVED")
      <4>1. CASE Intact /\ Ours(ucRTUBuf[0])
        <5>1. queue' = Append(Tail(queue), "EXECUTE") /\ ~Has(Tail(queue), "FRAME_RECEIVED")
          BY <2>1, <3>1, <4>1 DEF Free, Handled
        <5> QED BY <2>2, <2>3, <3>1, <5>1, EventPosted
      <4>2. CASE ~(Intact /\ Ours(ucRTUBuf[0]))
        BY <2>1, <3>1, <4>2 DEF Free, Handled
      <4> QED BY <4>1, <4>2
    <3>3. Unsent' /\ RtuTimed' /\ RtuAlone' /\ Lists' /\ eRcvState' = "IDLE" /\ rx' = "no"
      BY <1>1, <2>1, <2>6, <3>1 DEF RtuSafe, Unsent, RtuTimed, RtuAlone, Lists
    <3>4. RtuFrame'
      <4>1. CASE Intact /\ Ours(ucRTUBuf[0])
        <5>1. Has(queue', "EXECUTE") /\ ~Free(queue')
          <6>1. Has(queue', "EXECUTE")
            BY <2>1, <2>2, <2>3, <4>1, EventPosted
          <6> QED BY <6>1 DEF Free, Handled
        <5>2. Request(Received) = PDU'
          <6>1. usRcvBufferPos \in 4 .. MB_SER_PDU_SIZE_MAX
            BY <4>1 DEF Intact, MB_SER_PDU_SIZE_MIN, RtuInv, RtuTypes, PortTypes
          <6>2. ucRcvAddress' = ucRTUBuf[0] /\ usLength' = usRcvBufferPos - 3 /\ ucRTUBuf' = ucRTUBuf
            BY <2>1, <4>1
          <6> QED BY <6>1, <6>2, RequestIs DEF PDU
        <5>3. expected' = Append(executed', PDU')
          BY <2>1, <3>1, <4>1, <5>2 DEF RtuNow
        <5> QED BY <3>2, <5>1, <5>3 DEF RtuFrame
      <4>2. CASE ~(Intact /\ Ours(ucRTUBuf[0]))
        <5>1. ~Has(queue', "EXECUTE") /\ expected' = executed'
          BY <2>1, <3>1, <4>2 DEF Free, Handled, RtuNow
        <5> QED BY <3>2, <5>1 DEF RtuFrame
      <4> QED BY <4>1, <4>2
    <3> QED BY <3>2, <3>3, <3>4 DEF RtuSafe
  <2> QED BY <1>1, <2>5, <2>6 DEF RtuInv
<1>4. \/ usRcvBufferPos < MB_SER_PDU_SIZE_MAX /\ aborted' = aborted
      \/ usRcvBufferPos >= MB_SER_PDU_SIZE_MAX /\ Aborts
  BY DEF PollReceived
<1>5. aborted' = aborted => ~Aborts
  BY <1>1 DEF Run, Aborts
<1> QED BY <1>2, <1>3, <1>4, <1>5

\* The frame is executed, whatever the answer.
LEMMA RtuPollExecute == RtuInv /\ PollExecute => RtuInv'
<1> SUFFICES ASSUME RtuInv, PollExecute PROVE RtuInv'
  OBVIOUS
<1>1. /\ Run /\ handler = "no" /\ queue # <<>> /\ Head(queue) = "EXECUTE"
      /\ queue' = Tail(queue) /\ executed' = Append(executed, PDU)
      /\ UNCHANGED <<eRcvState, usRcvBufferPos, timer, handler, tx, aborted, expected, overrun, rx>>
      /\ \/ UNCHANGED <<eSndState, tx_check_semaphore>>
         \/ /\ eRcvState = "IDLE" /\ eSndState' = "TX_XMIT"
            /\ tx_check_semaphore' = tx_check_semaphore + 1
  <2>1. PICK result : /\ Executes(result)
                      /\ \/ Unanswered(result)
                         \/ \E answer : eMBRTUSend(answer.buf, answer.len)
    BY DEF PollExecute
  <2>2. \/ UNCHANGED <<eSndState, tx_check_semaphore>>
        \/ /\ eRcvState = "IDLE" /\ eSndState' = "TX_XMIT"
           /\ tx_check_semaphore' = tx_check_semaphore + 1
    BY <2>1 DEF Unanswered, eMBRTUSend
  <2> QED BY <2>1, <2>2 DEF PollExecute, Executing, Executes, PDU, line_vars
<1>2. queue \in Seq(Events)
  BY DEF RtuInv, RtuTypes, PortTypes
<1>3. /\ queue' \in Seq(Events) /\ Has(queue, "EXECUTE")
      /\ Alone(queue) => Alone(queue') /\ Free(queue')
  BY <1>1, <1>2, EventTaken DEF Handled
<1>4. RtuTypes' /\ Sending' /\ AbortsOnlyEarly'
  BY <1>1, <1>3 DEF RtuInv, RtuTypes, PortTypes, Sending, AbortsOnlyEarly, Run
<1>5. ASSUME RtuSafe PROVE RtuSafe'
  <2>1. Alone(queue') /\ Free(queue') /\ expected = Append(executed, PDU) /\ Lists
    BY <1>3, <1>5 DEF RtuSafe, RtuFrame
  <2>2. Unsent' /\ RtuTimed' /\ RtuAlone'
    <3>1. rx = "no" /\ eRcvState = "IDLE"
      <4>1. ~Free(queue)
        BY <1>3 DEF Free, Handled
      <4> QED BY <1>1, <1>5, <4>1 DEF RtuSafe, RtuAlone
    <3> QED BY <1>1, <1>5, <3>1 DEF RtuSafe, Unsent, RtuTimed, RtuAlone
  <2>3. expected' = executed' /\ Lists'
    BY <1>1, <2>1 DEF Lists
  <2>4. RtuFrame'
    BY <2>1, <2>3 DEF RtuFrame, Free, Handled
  <2> QED BY <2>1, <2>2, <2>3, <2>4 DEF RtuSafe
<1> QED BY <1>1, <1>4, <1>5 DEF RtuInv

-----------------------------------------------------------------------------
\* The transmit thread.
LEMMA RtuTx == RtuInv /\ Tx => RtuInv'
<1> SUFFICES ASSUME RtuInv, Tx PROVE RtuInv'
  OBVIOUS
<1>1. CASE TxAborts
  <2>1. overrun /\ Aborts /\ UNCHANGED <<overrun, rx>>
    BY <1>1 DEF TxAborts, RtuInv, RtuSafe, Unsent, line_vars
  <2> QED BY <2>1, RtuAborts
<1>2. CASE ~TxAborts
  <2>1. /\ Run
        /\ UNCHANGED <<eRcvState, ucRTUBuf, usRcvBufferPos, timer, handler, ucRcvAddress,
                       usLength, executed, aborted, expected, overrun, rx>>
        /\ queue' \in {queue, Append(queue, "FRAME_SENT")}
        /\ \/ /\ tx = "wait" /\ tx' = "loop" /\ UNCHANGED eSndState
              /\ tx_check_semaphore > 0 /\ tx_check_semaphore' = tx_check_semaphore - 1
           \/ /\ tx = "loop" /\ tx' \in {"loop", "posted"}
              /\ UNCHANGED <<eSndState, tx_check_semaphore>>
           \/ /\ tx = "posted" /\ tx' = "write" /\ eSndState' = "TX_IDLE"
              /\ UNCHANGED tx_check_semaphore
           \/ /\ tx = "write" /\ tx' = "wait" /\ UNCHANGED <<eSndState, tx_check_semaphore>>
    BY <1>2 DEF Tx, TxWake, TxByte, TxPosts, TxIdles, TxWrites, TxSpins, buffer, poll_vars, tx_vars,
                line_vars
  <2>2. queue \in Seq(Events) /\ "FRAME_SENT" \in Events /\ "FRAME_SENT" \notin Handled
    BY DEF RtuInv, RtuTypes, PortTypes, Events, Handled
  <2>3. /\ queue' \in Seq(Events)
        /\ Alone(queue) => Alone(queue')
        /\ \A e \in Handled : Has(queue', e) <=> Has(queue, e)
    <3>1. CASE queue' = queue
      BY <2>2, <3>1
    <3>2. CASE queue' = Append(queue, "FRAME_SENT")
      BY <2>2, <3>2, EventPosted
    <3> QED BY <2>1, <3>1, <3>2
  <2>4. RtuTypes' /\ Sending' /\ AbortsOnlyEarly'
    <3>1. tx_check_semaphore' \in Nat
      BY <2>1 DEF RtuInv, RtuTypes, PortTypes
    <3>2. Sending'
      BY <2>1 DEF RtuInv, RtuTypes, PortTypes, Sending
    <3> QED BY <2>1, <2>3, <3>1, <3>2 DEF RtuInv, RtuTypes, PortTypes, AbortsOnlyEarly, Run
  <2>5. ASSUME RtuSafe PROVE RtuSafe'
    <3>1. Unsent'
      BY <2>1, <2>5 DEF RtuSafe, Unsent
    <3>2. Free(queue') <=> Free(queue)
      BY <2>3 DEF Free
    <3>3. RtuTimed' /\ RtuAlone' /\ Lists' /\ Alone(queue')
      BY <2>1, <2>3, <2>5, <3>2 DEF RtuSafe, RtuTimed, RtuAlone, Lists
    <3>4. RtuNow' = RtuNow /\ PDU' = PDU
      BY <2>1 DEF RtuNow, Intact, Received, PDU
    <3>5. RtuFrame'
      BY <2>1, <2>3, <2>5, <3>2, <3>4 DEF RtuSafe, RtuFrame, Handled
    <3> QED BY <2>1, <2>5, <3>1, <3>2, <3>3, <3>5 DEF RtuSafe
  <2> QED BY <2>1, <2>4, <2>5 DEF RtuInv
<1> QED BY <1>1, <1>2

\* Every step keeps the invariant.
LEMMA RtuNext == RtuInv /\ [Next]_vars => RtuInv'
<1> SUFFICES ASSUME RtuInv, [Next]_vars PROVE RtuInv'
  OBVIOUS
<1>1. CASE Receive
  BY <1>1, RtuByte DEF Receive
<1>2. ASSUME NEW f \in Lines, BeginFrame(f) PROVE RtuInv'
  BY <1>2, RtuByte DEF BeginFrame
<1>3. CASE UNCHANGED vars
  <2>1. UNCHANGED <<eRcvState, eSndState, ucRTUBuf, usRcvBufferPos, timer, handler, queue,
                    ucRcvAddress, usLength, executed, tx_check_semaphore, tx, aborted, expected,
                    overrun, rx>>
    BY <1>3 DEF vars, buffer, poll_vars, tx_vars, line_vars
  <2>2. RtuTypes' /\ Sending' /\ AbortsOnlyEarly'
    BY <2>1 DEF RtuInv, RtuTypes, PortTypes, Sending, AbortsOnlyEarly
  <2>3. RtuSafe => RtuSafe'
    BY <2>1 DEF RtuSafe, Unsent, RtuTimed, RtuAlone, RtuFrame, RtuNow, Intact, Received, PDU, Lists
  <2> QED BY <2>1, <2>2, <2>3 DEF RtuInv
<1> QED
  BY <1>1, <1>2, <1>3, RtuReceives, RtuExpires, RtuHandled, RtuPollNothing, RtuPollReceived,
     RtuPollExecute, RtuTx DEF Next, Receiver, Handler, Poll

\* The powers of two that a byte is put together of.
LEMMA Powers == /\ 2^0 = 1 /\ 2^1 = 2 /\ 2^2 = 4 /\ 2^3 = 8 /\ 2^4 = 16 /\ 2^5 = 32 /\ 2^6 = 64 /\ 2^7 = 128
  OBVIOUS

\* The low half of a byte, put in with |, is added.
LEMMA OrIs ==
    /\ \A a, b : Or(a, b) \in Byte
    /\ \A h, d \in Digit : Or((16 * h) % 256, d) = 16 * h + d
<1>1. \A a, b : Or(a, b) \in Byte
  BY Powers DEF Or, Byte
<1>2. \A h, d \in Digit : Or((16 * h) % 256, d) = 16 * h + d
  BY Powers, SMTT(60) DEF Or, Digit
<1> QED BY <1>1, <1>2

-----------------------------------------------------------------------------
\* f holds the sums of the first bytes of s, up to m of them.
NextSum(f, s, n) == IF n = 0 THEN 0 ELSE (f[n - 1] + s[n]) % 256
Adds(f, s, m) == f = [n \in 0 .. m |-> NextSum(f, s, n)]

\* Such a function is one of bytes,
LEMMA AddsIs ==
    ASSUME NEW s \in Seq(Byte), NEW m \in Nat, m <= Len(s), NEW f, Adds(f, s, m)
    PROVE  \A n \in 0 .. m : f[n] = NextSum(f, s, n) /\ f[n] \in Byte
<1> DEFINE T == {n \in Nat : n <= m => f[n] \in Byte}
<1>1. \A n \in 0 .. m : f[n] = NextSum(f, s, n)
  <2> HIDE DEF T
  <2>1. \A n \in 0 .. m : [k \in 0 .. m |-> NextSum(f, s, k)][n] = NextSum(f, s, n)
    OBVIOUS
  <2>2. f = [k \in 0 .. m |-> NextSum(f, s, k)]
    BY DEF Adds
  <2> QED BY <2>1, <2>2
<1>2. 0 \in T
  BY <1>1 DEF NextSum, Byte
<1>3. ASSUME NEW n \in T PROVE n + 1 \in T
  <2> SUFFICES ASSUME n + 1 <= m PROVE f[n + 1] \in Byte
    OBVIOUS
  <2>1. n \in Nat /\ n + 1 \in 0 .. m /\ n + 1 # 0 /\ (n + 1) - 1 = n /\ f[n] \in Byte
    OBVIOUS
  <2>2. n + 1 \in 1 .. Len(s) /\ s[n + 1] \in Byte
    <3>1. n + 1 \in 1 .. Len(s)
      BY <2>1
    <3> QED BY <3>1
  <2>3. f[n + 1] = (f[n] + s[n + 1]) % 256
    BY <1>1, <2>1 DEF NextSum
  <2>4. \A a, b \in Byte : (a + b) % 256 \in Byte
    BY DEF Byte
  <2> QED BY <2>1, <2>2, <2>3, <2>4
<1>4. T = Nat
  <2>1. T \in SUBSET Nat
    OBVIOUS
  <2> HIDE DEF T
  <2> QED BY <1>2, <1>3, <2>1, NatInduction1
<1> QED BY <1>1, <1>4

\* and there is one.
LEMMA AddsExists ==
    ASSUME NEW s PROVE \A m \in Nat : \E f : Adds(f, s, m)
<1> DEFINE S == {m \in Nat : \E f : Adds(f, s, m)}
<1>1. 0 \in S
  <2> DEFINE f == [n \in 0 .. 0 |-> 0]
  <2>1. \A n \in 0 .. 0 : NextSum(f, s, n) = 0
    BY DEF NextSum
  <2>2. Adds(f, s, 0)
    <3> HIDE DEF S
    <3> QED BY <2>1 DEF Adds
  <2> HIDE DEF f
  <2> QED BY <2>2
<1>2. ASSUME NEW m \in S PROVE m + 1 \in S
  <2>1. m \in Nat /\ \E f : Adds(f, s, m)
    OBVIOUS
  <2>2. PICK f : Adds(f, s, m)
    BY <2>1
  <2> DEFINE g == [n \in 0 .. m + 1 |-> NextSum(f, s, n)]
  <2> HIDE DEF S
  <2>3. \A n \in 0 .. m : f[n] = g[n]
    <3>1. \A n \in 0 .. m : n \in 0 .. m + 1
      BY <2>1
    <3>2. \A n \in 0 .. m : [k \in 0 .. m |-> NextSum(f, s, k)][n] = NextSum(f, s, n)
      OBVIOUS
    <3>3. f = [k \in 0 .. m |-> NextSum(f, s, k)]
      BY <2>2 DEF Adds
    <3>4. \A n \in 0 .. m + 1 : g[n] = NextSum(f, s, n)
      OBVIOUS
    <3> HIDE DEF g
    <3> QED BY <3>1, <3>2, <3>3, <3>4
  <2>4. \A n \in 0 .. m + 1 : NextSum(g, s, n) = NextSum(f, s, n)
    <3> HIDE DEF g
    <3>1. \A n \in 0 .. m + 1 : n # 0 => n - 1 \in 0 .. m
      BY <2>1
    <3> QED BY <2>3, <3>1 DEF NextSum
  <2>5. Adds(g, s, m + 1)
    <3>1. [n \in 0 .. m + 1 |-> NextSum(g, s, n)] = [n \in 0 .. m + 1 |-> NextSum(f, s, n)]
      <4> HIDE DEF g
      <4> QED BY <2>4
    <3>2. g = [n \in 0 .. m + 1 |-> NextSum(f, s, n)]
      OBVIOUS
    <3> HIDE DEF g
    <3> QED BY <3>1, <3>2 DEF Adds
  <2> HIDE DEF g
  <2>6. m + 1 \in Nat /\ \E h : Adds(h, s, m + 1)
    BY <2>1, <2>5
  <2> QED BY <2>6 DEF S
<1>3. S = Nat
  <2>1. S \in SUBSET Nat
    OBVIOUS
  <2> HIDE DEF S
  <2> QED BY <1>1, <1>2, <2>1, NatInduction1
<1> QED BY <1>3

\* The sum is the last of them; one more byte is added to it.
LEMMA SumOf == ASSUME NEW s \in Seq(Byte) PROVE \E f : Adds(f, s, Len(s)) /\ Sum(s) = f[Len(s)]
<1> DEFINE sum == CHOOSE f : f = [n \in 0 .. Len(s) |-> NextSum(f, s, n)]
<1>1. Sum(s) = sum[Len(s)]
  BY DEF Sum, NextSum
<1>2. \E f : Adds(f, s, Len(s))
  <2>1. Len(s) \in Nat
    OBVIOUS
  <2> QED BY <2>1, AddsExists
<1>3. sum = [n \in 0 .. Len(s) |-> NextSum(sum, s, n)]
  BY <1>2 DEF Adds
<1> HIDE DEF sum
<1>4. Adds(sum, s, Len(s))
  BY <1>3 DEF Adds
<1> QED BY <1>1, <1>4

\* A byte as a comparison, which the provers take more easily than the range.
LEMMA ByteIs == \A b : b \in Byte <=> b \in Nat /\ b < 256
  BY DEF Byte

\* The sum of bytes with their LRC is 0: the check of eMBASCIIReceive.
LEMMA SumIs ==
    ASSUME NEW s \in Seq(Byte)
    PROVE  /\ Sum(s) \in Byte /\ prvucMBLRC(s) \in Byte
           /\ prvucMBLRC(s) = 0 <=> Sum(s) = 0
           /\ Sum(Append(s, prvucMBLRC(s))) = 0
<1>1. PICK f : Adds(f, s, Len(s)) /\ Sum(s) = f[Len(s)]
  BY SumOf
<1> DEFINE last == prvucMBLRC(s)
           t    == Append(s, last)
<1>2. Len(s) \in Nat /\ Len(s) \in 0 .. Len(s)
  OBVIOUS
<1>3. Sum(s) \in Byte
  BY <1>1, <1>2, AddsIs
<1>4. last \in Byte /\ (last = 0 <=> Sum(s) = 0) /\ (Sum(s) + last) % 256 = 0
  <2>1. \A a \in Nat : a < 256 => /\ (256 - a) % 256 \in Nat /\ (256 - a) % 256 < 256
                                  /\ (256 - a) % 256 = 0 <=> a = 0
                                  /\ (a + ((256 - a) % 256)) % 256 = 0
    OBVIOUS
  <2>2. Sum(s) \in Nat /\ Sum(s) < 256
    BY <1>3, ByteIs
  <2>3. last = (256 - Sum(s)) % 256
    BY DEF prvucMBLRC
  <2> HIDE DEF last
  <2>4. /\ last \in Nat /\ last < 256 /\ (last = 0 <=> Sum(s) = 0) /\ (Sum(s) + last) % 256 = 0
    <3> DEFINE sum == Sum(s)
    <3>1. sum \in Nat /\ sum < 256 /\ last = (256 - sum) % 256
      BY <2>2, <2>3
    <3> HIDE DEF sum
    <3>2. /\ last \in Nat /\ last < 256 /\ (last = 0 <=> sum = 0) /\ (sum + last) % 256 = 0
      BY <2>1, <3>1
    <3> QED BY <3>2 DEF sum
  <2> QED BY <2>4, ByteIs
<1> HIDE DEF last
<1>5. /\ t \in Seq(Byte) /\ Len(t) = Len(s) + 1 /\ t[Len(s) + 1] = last
      /\ \A i \in 1 .. Len(s) : t[i] = s[i]
  BY <1>4, AppendProperties
<1> HIDE DEF t
<1>6. PICK g : Adds(g, t, Len(s) + 1) /\ Sum(t) = g[Len(s) + 1]
  <2>1. \E h : Adds(h, t, Len(t)) /\ Sum(t) = h[Len(t)]
    BY <1>5, SumOf
  <2> QED BY <1>5, <2>1
<1>7. \A n \in 0 .. Len(s) : f[n] = NextSum(f, s, n)
  BY <1>1, <1>2, AddsIs
<1>8. \A n \in 0 .. Len(s) + 1 : g[n] = NextSum(g, t, n)
  <2>1. Len(s) + 1 \in Nat /\ Len(s) + 1 <= Len(t)
    BY <1>2, <1>5
  <2> QED BY <1>5, <1>6, <2>1, AddsIs
<1> DEFINE T == {n \in Nat : n <= Len(s) => g[n] = f[n]}
<1>9. T = Nat
  <2>1. 0 \in T
    <3>1. 0 \in 0 .. Len(s) /\ 0 \in 0 .. Len(s) + 1
      BY <1>2
    <3> QED BY <1>7, <1>8, <3>1 DEF NextSum
  <2>2. ASSUME NEW n \in T PROVE n + 1 \in T
    <3> SUFFICES ASSUME n + 1 <= Len(s) PROVE g[n + 1] = f[n + 1]
      OBVIOUS
    <3>1. /\ n \in Nat /\ n + 1 \in 0 .. Len(s) /\ n + 1 \in 0 .. Len(s) + 1 /\ n + 1 # 0
          /\ (n + 1) - 1 = n /\ g[n] = f[n] /\ n + 1 \in 1 .. Len(s)
      BY <1>2
    <3>2. f[n + 1] = (f[n] + s[n + 1]) % 256 /\ g[n + 1] = (g[n] + t[n + 1]) % 256
      BY <1>7, <1>8, <3>1 DEF NextSum
    <3> QED BY <1>5, <3>1, <3>2
  <2>3. T \in SUBSET Nat
    OBVIOUS
  <2> HIDE DEF T
  <2> QED BY <2>1, <2>2, <2>3, NatInduction1
<1>10. g[Len(s)] = f[Len(s)]
  BY <1>2, <1>9
<1>11. Sum(t) = (Sum(s) + last) % 256
  <2>1. /\ Len(s) + 1 \in 0 .. Len(s) + 1 /\ Len(s) + 1 # 0 /\ (Len(s) + 1) - 1 = Len(s)
    BY <1>2
  <2>2. g[Len(s) + 1] = (g[Len(s)] + t[Len(s) + 1]) % 256
    BY <1>8, <2>1 DEF NextSum
  <2> QED BY <1>1, <1>5, <1>6, <1>10, <2>2
<1> QED BY <1>3, <1>4, <1>11 DEF t, last

-----------------------------------------------------------------------------
(* In ASCII. *)

\* The characters as they are stored, and how many have been.
ReadAs(high, low) == Or((16 * prvucMBCHAR2BIN(high)) % 256, prvucMBCHAR2BIN(low))
Digits == 2 * usRcvBufferPos + (IF eBytePos = "LOW" THEN 1 ELSE 0)
Stored ==
    /\ \A i \in 1 .. usRcvBufferPos : ucRTUBuf[i - 1] = ReadAs(text[2 * i], text[2 * i + 1])
    /\ eBytePos = "LOW" => ucRTUBuf[usRcvBufferPos]
                              = (16 * prvucMBCHAR2BIN(text[2 * usRcvBufferPos + 2])) % 256

\* No text that goes on from t is a frame.
Dead(t) == \/ \E i \in 2 .. Len(t) - 1 : t[i] = CR
           \/ Len(t) = 2 * MB_SER_PDU_SIZE_MAX + 2 /\ t[Len(t)] # CR
           \/ Len(t) > 2 * MB_SER_PDU_SIZE_MAX + 2

\* The text that is being received is in the buffer.  In its last step but one the
\* machine may have set the state that it leaves behind; once it has cleared the
\* buffer for a ':' what the text was does not matter.
Begun(digits) == /\ text[1] = COLON /\ Stored
                 /\ \A i \in 2 .. digits + 1 : text[i] \notin {COLON, CR}
Was == CASE rx = "overflow" -> "RCV" [] rx = "post" -> "WAIT_EOF" [] OTHER -> eRcvState
Cleared == {"begin", "time", "receive"}
Written == /\ Was = "RCV" => Len(text) = Digits + 1 /\ Begun(Digits)
           /\ Was = "WAIT_EOF" => /\ Len(text) = Digits + 2 /\ Begun(Digits)
                                  /\ text[Digits + 2] = CR
           /\ Was = "IDLE" => text = <<>> \/ Dead(text)
Typed == rx \notin Cleared => Written

\* Where the receive machine may be with the character, and in the state.
RxByte == /\ rx \in {"disable", "idle", "post"} => ucByte = LF
          /\ rx \in {"clear", "begin", "time", "start", "reset", "receive"} => ucByte = COLON
          /\ rx = "overflow" => ucByte \notin {COLON, CR}
          /\ rx = "delete" => ucByte \notin {COLON, LF}
RxState == /\ rx \in {"enable", "store", "time"} => eRcvState = "RCV"
           /\ rx \in {"disable", "idle", "clear", "begin", "delete"} => eRcvState = "WAIT_EOF"
           /\ rx \in {"overflow", "post", "start", "reset", "receive"} => eRcvState = "IDLE"
Labels == {"no", "enable", "store", "overflow", "disable", "idle", "post", "clear", "begin",
           "time", "delete", "start", "reset", "receive"}

AsciiTypes ==
    /\ PortTypes
    /\ eRcvState \in {"IDLE", "RCV", "WAIT_EOF"} /\ rx \in Labels /\ ucByte \in Nat /\ RxByte
    /\ eSndState \in {"TX_IDLE", "TX_START", "TX_DATA", "TX_END", "TX_NOTIFY"}
    /\ handler \in {"no", "called", "stopping"} /\ eBytePos \in {"HIGH", "LOW"}
    /\ ucRTUBuf \in [0 .. MB_SER_PDU_SIZE_MAX - 1 -> Byte] /\ regs \in Tables /\ usLength \in Nat
    /\ text \in Seq(Nat) /\ line \in Seq(Nat)

\* There is room for the digits that the machine will store.
Room == /\ usRcvBufferPos <= MB_SER_PDU_SIZE_MAX
        /\ Was # "IDLE" /\ eBytePos = "LOW" => usRcvBufferPos < MB_SER_PDU_SIZE_MAX
        /\ rx \in Cleared => usRcvBufferPos = 0 /\ eBytePos = "HIGH"
        /\ rx = "overflow" => usRcvBufferPos = MB_SER_PDU_SIZE_MAX /\ eBytePos = "HIGH"

AsciiTimed ==
    /\ rx # "no" /\ handler = "called" => "late" \in mishaps
    /\ rx \in {"idle", "post"} => ~timer
    /\ "late" \notin mishaps => RxState
    /\ mishaps \cap {"late", "stray"} = {}
       /\ (handler = "called" \/ (timer /\ handler = "no" /\ rx = "no")) => eRcvState # "IDLE"

\* The frame that is next, as RtuNow.
AsciiNow ==
    IF Accepted /\ Ours(ucRTUBuf[0])
    THEN Append(executed, <<ucRTUBuf[0], [i \in 1 .. usRcvBufferPos - 2 |-> ucRTUBuf[i]]>>)
    ELSE executed
AsciiFrame == /\ Free(queue) => expected = executed
              /\ Has(queue, "FRAME_RECEIVED") => expected = AsciiNow
              /\ Has(queue, "EXECUTE") => expected = Append(executed, PDU)

\* While the answer goes out it is a frame, but for what is still to be put.
AnswerInBuffer ==
    /\ usLength \in 1 .. MB_SER_PDU_SIZE_MAX - 2 /\ ucRTUBuf[0] = ucMBAddress
    /\ ucRTUBuf[usLength + 1] = prvucMBLRC([i \in 1 .. usLength + 1 |-> ucRTUBuf[i - 1]])
Put16(n) == /\ tty_tx_buffer[1] = COLON
            /\ \A i \in 1 .. n : /\ tty_tx_buffer[2 * i] = ucRTUBuf[i - 1] \div 16
                                 /\ tty_tx_buffer[2 * i + 1] = ucRTUBuf[i - 1] % 16
Spelled ==
    /\ tty_tx_buffer \in Seq(Nat) /\ tty_tx_index = Len(tty_tx_buffer)
    /\ pucSndBufferCur \in 0 .. usLength + 2 /\ usSndBufferCount = usLength + 2 - pucSndBufferCur
    /\ Put16(pucSndBufferCur)
    /\ eSndState = "TX_DATA" =>
           IF eBytePos = "LOW"
           THEN /\ tty_tx_index = 2 * pucSndBufferCur + 2 /\ usSndBufferCount > 0
                /\ tty_tx_buffer[tty_tx_index] = ucRTUBuf[pucSndBufferCur] \div 16
           ELSE tty_tx_index = 2 * pucSndBufferCur + 1
    /\ eSndState # "TX_DATA" => /\ usSndBufferCount = 0
                                /\ tty_tx_buffer[2 * pucSndBufferCur + 2] = CR
    /\ eSndState = "TX_END" => tty_tx_index = 2 * pucSndBufferCur + 2
    /\ eSndState = "TX_NOTIFY" => /\ tty_tx_index = 2 * pucSndBufferCur + 3
                                  /\ tty_tx_buffer[tty_tx_index] = LF
Transmits ==
    CASE eSndState = "TX_IDLE" -> tx_check_semaphore = 0 /\ tx # "loop"
      [] eSndState = "TX_START" ->
             /\ AnswerInBuffer
             /\ tty_tx_index = 0 /\ pucSndBufferCur = 0 /\ usSndBufferCount = usLength + 2
             /\ \/ tx = "wait" /\ tx_check_semaphore = 1
                \/ tx = "loop" /\ tx_check_semaphore = 0
      [] OTHER -> AnswerInBuffer /\ Spelled /\ tx = "loop" /\ tx_check_semaphore = 0

\* What waits for eMBPoll, or is being received, finds the transmitter done.
Receiving == eRcvState # "IDLE" \/ rx # "no"
AsciiUnsent == Receiving \/ ~Free(queue) => tx = "wait" /\ tx_check_semaphore = 0

AsciiSafe ==
    /\ Alone(queue) /\ AsciiUnsent /\ Typed /\ Room /\ RxState /\ Transmits
    /\ Receiving => Free(queue)
    /\ Has(queue, "EXECUTE") => usLength \in 1 .. MB_SER_PDU_SIZE_MAX - 3
    /\ "misread" \notin mishaps => AsciiFrame /\ Lists

AsciiInv == AsciiTypes /\ Sending /\ AsciiAborts /\ AsciiTimed /\ (~overrun => AsciiSafe)

\* What the line needs to be ready, said of the queue.
LEMMA ReadyIs ==
    ASSUME queue \in Seq(Events)
    PROVE  Ready <=> tx = "wait" /\ tx_check_semaphore = 0 /\ Free(queue)
<1>1. \A i \in DOMAIN queue : queue[i] \in Events
  OBVIOUS
<1>2. (\A i \in DOMAIN queue : queue[i] \in {"READY", "FRAME_SENT"}) <=> Free(queue)
  BY <1>1 DEF Free, Has, Handled, Events
<1> QED BY <1>2 DEF Ready

\* The invariant holds at the start,
LEMMA AsciiBegins == AsciiInit => AsciiInv
<1> SUFFICES ASSUME AsciiInit PROVE AsciiInv
  OBVIOUS
<1>1. /\ line = <<>> /\ eRcvState = "IDLE" /\ eSndState = "TX_IDLE" /\ usRcvBufferPos = 0
      /\ ucRTUBuf = [i \in 0 .. MB_SER_PDU_SIZE_MAX - 1 |-> 0]
      /\ handler = "no" /\ timer = FALSE /\ queue = <<"READY">> /\ tx_check_semaphore = 0
      /\ tx = "wait" /\ usLength = 0 /\ regs = [coils |-> usRegCoilBuf, holding |-> usRegHoldingBuf]
      /\ aborted = FALSE /\ expected = <<>> /\ executed = <<>>
      /\ eBytePos = "HIGH" /\ text = <<>> /\ mishaps = {} /\ rx = "no" /\ ucByte = 0
  BY DEF AsciiInit, TextInit
<1>2. Free(queue) /\ Alone(queue) /\ queue \in Seq(Events)
  <2>1. DOMAIN queue = {1} /\ queue[1] = "READY"
    BY <1>1
  <2> QED BY <1>1, <2>1 DEF Free, Has, Alone, Handled, Events
<1>3. AsciiTypes
  <2>1. regs \in Tables
    BY <1>1, FilledIs
  <2>2. ucRTUBuf \in [0 .. MB_SER_PDU_SIZE_MAX - 1 -> Byte]
    BY <1>1, ByteIs
  <2> QED BY <1>1, <1>2, <2>1, <2>2 DEF AsciiTypes, PortTypes, RxByte, Labels
<1>4. AsciiSafe
  <2>1. AsciiFrame /\ Lists
    BY <1>1, <1>2 DEF AsciiFrame, Free, Handled, Lists
  <2>2. Typed /\ Transmits /\ AsciiUnsent
    BY <1>1, <1>2 DEF Typed, Written, Was, Transmits, AsciiUnsent, Receiving
  <2>3. ~Has(queue, "EXECUTE")
    BY <1>2 DEF Free, Handled
  <2>4. Room /\ RxState
    BY <1>1, FrameAssumption DEF FrameAssumption, Room, RxState, Was, Cleared
  <2> QED BY <1>1, <1>2, <2>1, <2>2, <2>3, <2>4 DEF AsciiSafe, Receiving
<1> QED BY <1>1, <1>3, <1>4 DEF AsciiInv, Sending, AsciiAborts, AsciiTimed, RxState

\* Steps of which the invariant says nothing.
LEMMA AsciiSame ==
    ASSUME AsciiInv, UNCHANGED <<eRcvState, eSndState, ucRTUBuf, usRcvBufferPos, timer, handler, queue,
                                 ucRcvAddress, usLength, regs, executed, usSndBufferCount,
                                 tx_check_semaphore, tty_tx_index, tx, expected, rx, ucByte, ascii>>,
           line' \in Seq(Nat), overrun => overrun',
           aborted' => \/ aborted \/ overrun' \/ mishaps \cap {"late", "stray"} # {}
                       \/ usRcvBufferPos = MB_SER_PDU_SIZE_MAX
    PROVE  AsciiInv'
<1>1. UNCHANGED <<eBytePos, pucSndBufferCur, tty_tx_buffer, text, mishaps>>
  BY DEF ascii
<1>2. AsciiTypes' /\ Sending'
  BY <1>1 DEF AsciiInv, AsciiTypes, PortTypes, RxByte, Sending
<1>3. AsciiAborts' /\ AsciiTimed'
  BY <1>1 DEF AsciiInv, AsciiAborts, AsciiTimed, RxState
<1>4. AsciiSafe => AsciiSafe'
  <2>1. Typed' <=> Typed
    BY <1>1 DEF Typed, Written, Was, Begun, Stored, Digits
  <2>2. Transmits' <=> Transmits
    BY <1>1 DEF Transmits, AnswerInBuffer, Spelled, Put16
  <2>3. AsciiFrame /\ Lists => AsciiFrame' /\ Lists'
    BY DEF AsciiFrame, AsciiNow, Accepted, Received, PDU, Lists
  <2>4. (Room' <=> Room) /\ (RxState' <=> RxState)
    BY <1>1 DEF Room, RxState, Was
  <2> QED BY <1>1, <2>1, <2>2, <2>3, <2>4 DEF AsciiSafe, AsciiUnsent, Receiving
<1> QED BY <1>2, <1>3, <1>4 DEF AsciiInv

\* A failed assertion that one of its reasons explains.
LEMMA AsciiFails ==
    ASSUME AsciiInv, Aborts, UNCHANGED <<rx, ucByte, ascii>>, line' \in Seq(Nat), overrun => overrun',
           overrun' \/ mishaps \cap {"late", "stray"} # {} \/ usRcvBufferPos = MB_SER_PDU_SIZE_MAX
    PROVE  AsciiInv'
  BY AsciiSame DEF Aborts, buffer, poll_vars, tx_vars

\* The signal handler.
LEMMA AsciiHandled == AsciiInv /\ (AsciiExpires \/ AsciiHandler) => AsciiInv'
<1> SUFFICES ASSUME AsciiInv, AsciiExpires \/ AsciiHandler PROVE AsciiInv'
  OBVIOUS
<1>1. line \in Seq(Nat)
  BY DEF AsciiInv, AsciiTypes
<1>2. CASE GivesUp /\ eRcvState = "IDLE" /\ Aborts
  <2>1. overrun => overrun'
    <3>1. overrun' = (overrun \/ rx # "no")
      BY <1>2 DEF GivesUp
    <3> QED BY <3>1, Zenon
  <2>2. mishaps \cap {"late", "stray"} # {} /\ UNCHANGED <<line, rx, ucByte, ascii>>
    BY <1>2 DEF GivesUp, AsciiInv, AsciiTimed, line_vars
  <2> QED BY <1>1, <1>2, <2>1, <2>2, AsciiFails
<1>3. CASE ~(GivesUp /\ eRcvState = "IDLE" /\ Aborts)
  <2>1. /\ UNCHANGED <<line, rx, ucByte, eSndState, ucRTUBuf, usRcvBufferPos, queue, ucRcvAddress,
                       usLength, regs, executed, usSndBufferCount, tx_check_semaphore, tty_tx_index, tx,
                       aborted, expected, eBytePos, pucSndBufferCur, tty_tx_buffer>>
        /\ \/ /\ timer /\ handler = "no" /\ handler' = "called" /\ UNCHANGED <<eRcvState, text>>
              /\ timer' = FALSE /\ mishaps' = IF rx = "no" THEN mishaps ELSE mishaps \cup {"late"}
           \/ /\ handler = "called" /\ handler' = "stopping" /\ eRcvState' = "IDLE" /\ text' = <<>>
              /\ UNCHANGED <<timer, mishaps>>
           \/ /\ handler = "stopping" /\ handler' = "no" /\ timer' = FALSE
              /\ UNCHANGED <<eRcvState, text, mishaps>>
    BY <1>3 DEF AsciiExpires, AsciiHandler, GivesUp, AsciiStops, buffer, poll_vars, tx_vars, line_vars,
       ascii
  <2>2. ~overrun' => ~overrun /\ (handler = "called" => rx = "no")
    <3>1. \/ handler # "called" /\ overrun' = overrun
          \/ overrun' = (overrun \/ rx # "no")
      BY DEF AsciiExpires, AsciiHandler, GivesUp, AsciiStops
    <3> QED BY <3>1, Zenon
  <2>3. AsciiTypes' /\ Sending'
    <3>1. eRcvState' \in {"IDLE", "RCV", "WAIT_EOF"} /\ handler' \in {"no", "called", "stopping"}
      BY <2>1 DEF AsciiInv, AsciiTypes
    <3>2. text' \in Seq(Nat)
      <4>1. text \in Seq(Nat) /\ <<>> \in Seq(Nat)
        BY DEF AsciiInv, AsciiTypes
      <4> QED BY <2>1, <4>1
    <3> QED BY <2>1, <3>1, <3>2 DEF AsciiInv, AsciiTypes, PortTypes, RxByte, Sending
  <2>4. AsciiAborts' /\ AsciiTimed'
    <3>1. mishaps \subseteq mishaps'
      BY <2>1
    <3>2. AsciiAborts'
      <4>1. overrun => overrun'
        BY <2>2
      <4> QED BY <2>1, <3>1, <4>1 DEF AsciiInv, AsciiAborts
    <3>3. rx' # "no" /\ handler' = "called" => "late" \in mishaps'
      BY <2>1
    <3>4. rx' \in {"idle", "post"} => ~timer'
      BY <2>1 DEF AsciiInv, AsciiTimed
    <3>5. "late" \notin mishaps' => RxState'
      BY <2>1 DEF AsciiInv, AsciiTimed, RxState
    <3>6. mishaps' \cap {"late", "stray"} = {}
             /\ (handler' = "called" \/ (timer' /\ handler' = "no" /\ rx' = "no")) => eRcvState' # "IDLE"
      BY <2>1 DEF AsciiInv, AsciiTimed
    <3> QED BY <3>2, <3>3, <3>4, <3>5, <3>6 DEF AsciiTimed
  <2>5. ASSUME ~overrun' PROVE AsciiSafe'
    <3> USE DEF AsciiSafe
    <3>1. AsciiSafe /\ (handler = "called" => rx = "no")
      BY <2>2, <2>5 DEF AsciiInv
    <3>2. \/ UNCHANGED <<eRcvState, text>>
          \/ rx' = "no" /\ eRcvState' = "IDLE" /\ text' = <<>>
      BY <2>1, <3>1
    <3>3. Typed' /\ Room' /\ RxState'
      <4>1. CASE UNCHANGED <<eRcvState, text>>
        BY <2>1, <3>1, <4>1 DEF Typed, Written, Was, Begun, Stored, Digits, Room, RxState
      <4>2. CASE rx' = "no" /\ eRcvState' = "IDLE" /\ text' = <<>>
        BY <2>1, <3>1, <4>2 DEF Typed, Written, Was, Cleared, Room, RxState
      <4> QED BY <3>2, <4>1, <4>2
    <3>4. Transmits'
      BY <2>1, <3>1 DEF Transmits, AnswerInBuffer, Spelled, Put16
    <3>5. "misread" \notin mishaps' => AsciiFrame' /\ Lists'
      <4>1. "misread" \notin mishaps' => "misread" \notin mishaps
        BY <2>1
      <4> QED BY <2>1, <3>1, <4>1 DEF AsciiFrame, AsciiNow, Accepted, Received, PDU, Lists
    <3>6. AsciiUnsent' /\ (Receiving' => Free(queue'))
      BY <2>1, <3>1, <3>2 DEF AsciiUnsent, Receiving
    <3> QED BY <2>1, <3>1, <3>3, <3>4, <3>5, <3>6
  <2> QED BY <2>3, <2>4, <2>5 DEF AsciiInv
<1> QED BY <1>2, <1>3

-----------------------------------------------------------------------------
\* A text that is dead stays so, and is no frame with any character more.
LEMMA DeadStays ==
    ASSUME NEW t \in Seq(Nat), NEW c \in Nat, Dead(t)
    PROVE  Dead(Append(t, c)) /\ ~IsFrame(Append(t, c))
<1> DEFINE u == Append(t, c)
           n == Len(t)
           max == 2 * MB_SER_PDU_SIZE_MAX
<1>1. /\ n \in Nat /\ Len(u) = n + 1 /\ u[n + 1] = c /\ \A i \in 1 .. n : u[i] = t[i]
      /\ max \in Nat
  BY AppendProperties, FrameAssumption DEF FrameAssumption
<1> HIDE DEF u
<1>2. CASE \E i \in 2 .. n - 1 : t[i] = CR
  <2>1. PICK i \in 2 .. n - 1 : t[i] = CR
    BY <1>2
  <2>2. i \in 2 .. Len(u) - 1 /\ i \in 2 .. Len(u) - 2 /\ i \in 1 .. n
    BY <1>1
  <2>3. u[i] = CR /\ CR \notin Digit
    <3>1. CR \notin Digit
      BY DEF CR, Digit
    <3> QED BY <1>1, <2>1, <2>2, <3>1
  <2> QED BY <2>2, <2>3 DEF Dead, IsFrame, u
<1>3. CASE n = max + 2 /\ t[n] # CR
  <2>1. Len(u) > max + 2 /\ n \in 1 .. n /\ Len(u) - 1 = n
    BY <1>1, <1>3
  <2>2. u[Len(u) - 1] # CR
    BY <1>1, <1>3, <2>1
  <2> QED BY <2>1, <2>2 DEF Dead, IsFrame, u
<1>4. CASE n > max + 2
  <2>1. Len(u) > max + 2 /\ ~(Len(u) <= max + 3)
    BY <1>1, <1>4
  <2>2. Len(u) \notin 9 .. max + 3
    BY <2>1
  <2> QED BY <2>1, <2>2 DEF Dead, IsFrame, u
<1> QED BY <1>2, <1>3, <1>4 DEF Dead

\* What a step of the receiver has in common.
LEMMA StepIs ==
    ASSUME xMBASCIIReceiveFSM
    PROVE  /\ Run /\ rx # "no"
           /\ UNCHANGED <<line, ucByte, eSndState, handler, ucRcvAddress, usLength, regs, executed,
                          usSndBufferCount, tx_check_semaphore, tty_tx_index, tx, aborted, overrun,
                          pucSndBufferCur, tty_tx_buffer>>
           /\ rx' = "no" => Ends(ucByte)
           /\ rx' # "no" => UNCHANGED <<text, expected>>
           /\ mishaps' = mishaps \cup (IF rx = "delete" THEN {"stray"} ELSE {})
                               \cup (IF rx = "post" /\ Misread THEN {"misread"} ELSE {})
  BY DEF xMBASCIIReceiveFSM, Receives, WaitsForEnd, BeginsFrame, Moves, poll_vars, tx_vars

\* The steps, by where the machine is.
Goes(state) == eRcvState' = state /\ UNCHANGED <<ucRTUBuf, usRcvBufferPos, eBytePos>>
Emptied == usRcvBufferPos' = 0 /\ eBytePos' = "HIGH" /\ UNCHANGED ucRTUBuf
Writes1(value) == ucRTUBuf' = [ucRTUBuf EXCEPT ![usRcvBufferPos] = value]
StoresHigh == /\ eBytePos = "HIGH" /\ usRcvBufferPos < MB_SER_PDU_SIZE_MAX
              /\ Writes1((16 * prvucMBCHAR2BIN(ucByte)) % 256)
              /\ eBytePos' = "LOW" /\ UNCHANGED usRcvBufferPos
StoresLow == /\ eBytePos = "LOW" /\ Writes1(Or(ucRTUBuf[usRcvBufferPos], prvucMBCHAR2BIN(ucByte)))
             /\ usRcvBufferPos' = usRcvBufferPos + 1 /\ eBytePos' = "HIGH"
Inner ==
    \/ rx = "enable" /\ rx' = "store" /\ Goes(eRcvState)
    \/ rx = "store" /\ rx' = "overflow" /\ ucByte \notin {COLON, CR} /\ TooMany /\ Goes("IDLE")
    \/ rx = "disable" /\ rx' = "idle" /\ Goes(eRcvState)
    \/ rx = "idle" /\ rx' = "post" /\ Goes("IDLE")
    \/ rx = "clear" /\ rx' = "begin" /\ Emptied /\ UNCHANGED eRcvState
    \/ rx = "begin" /\ rx' = "time" /\ Goes("RCV")
    \/ rx = "start" /\ rx' = "reset" /\ Goes(eRcvState)
    \/ rx = "reset" /\ rx' = "receive" /\ Emptied /\ UNCHANGED eRcvState
Final ==
    \/ rx = "store" /\ ucByte = COLON /\ Emptied /\ UNCHANGED eRcvState
    \/ rx = "store" /\ ucByte = CR /\ Goes("WAIT_EOF")
    \/ /\ rx = "store" /\ ucByte \notin {COLON, CR} /\ UNCHANGED eRcvState
       /\ StoresHigh \/ StoresLow
    \/ rx \in {"overflow", "post", "time"} /\ Goes(eRcvState)
    \/ rx = "delete" /\ Goes("IDLE")
    \/ rx = "receive" /\ Goes("RCV")

\* What xMBASCIIReceiveFSM may do with a character.
LEMMA Branches ==
    ASSUME xMBASCIIReceiveFSM
    PROVE  (Inner /\ rx' # "no") \/ (Final /\ rx' = "no")
<1>1. CASE Receives
  <2> DEFINE value == prvucMBCHAR2BIN(ucByte)
  <2>1. CASE Moves("store", "no") /\ ucByte \notin {COLON, CR} /\ StoresDigit(value)
             /\ UNCHANGED <<eRcvState, timer, queue>>
    <3>1. StoresHigh \/ StoresLow
      <4> HIDE DEF value
      <4>1. StoresDigit(value)
        BY <2>1
      <4> QED BY <4>1, Zenon DEF StoresDigit, Writes1, StoresHigh, StoresLow, value
    <3> QED BY <2>1, <3>1 DEF Final, Moves
  <2> HIDE DEF value
  <2>2. CASE Moves("enable", "store") /\ UNCHANGED <<eRcvState, buffer, eBytePos, queue>>
    BY <2>2 DEF Moves, Inner, Goes, buffer
  <2>3. CASE Moves("store", "no") /\ ucByte = COLON /\ Clears /\ UNCHANGED <<eRcvState, timer, queue>>
    BY <2>3 DEF Moves, Final, Clears, Emptied
  <2>4. CASE Moves("store", "no") /\ ucByte = CR /\ eRcvState' = "WAIT_EOF"
             /\ UNCHANGED <<buffer, eBytePos, timer, queue>>
    BY <2>4 DEF Moves, Final, Goes, buffer
  <2>5. CASE /\ Moves("store", "overflow") /\ ucByte \notin {COLON, CR} /\ TooMany /\ eRcvState' = "IDLE"
             /\ UNCHANGED <<buffer, eBytePos, timer, queue>>
    BY <2>5 DEF Moves, Inner, Goes, buffer
  <2>6. CASE Moves("overflow", "no") /\ UNCHANGED <<eRcvState, buffer, eBytePos, queue>>
    BY <2>6 DEF Moves, Final, Goes, buffer
  <2> QED BY <1>1, <2>1, <2>2, <2>3, <2>4, <2>5, <2>6 DEF Receives, value
<1>2. CASE WaitsForEnd
  BY <1>2 DEF WaitsForEnd, Moves, Inner, Final, Goes, Emptied, Clears, buffer
<1>3. CASE BeginsFrame
  BY <1>3 DEF BeginsFrame, Moves, Inner, Final, Goes, Emptied, Clears, buffer
<1> QED BY <1>1, <1>2, <1>3 DEF xMBASCIIReceiveFSM

\* The event is posted in the last step of a frame that is whole,
LEMMA Posts ==
    ASSUME xMBASCIIReceiveFSM
    PROVE  queue' = IF rx = "post" THEN Append(queue, "FRAME_RECEIVED") ELSE queue
  BY DEF xMBASCIIReceiveFSM, Receives, WaitsForEnd, BeginsFrame, Moves

\* and the timer is off by then, or when there was one digit too many.
LEMMA Disables ==
    ASSUME xMBASCIIReceiveFSM
    PROVE  /\ rx \in {"disable", "overflow"} => ~timer'
           /\ rx \in {"idle", "post"} => timer' = timer
  BY DEF xMBASCIIReceiveFSM, Receives, WaitsForEnd, BeginsFrame, Moves

\* The text when the machine is done with a character.
LEMMA EndsIs ==
    ASSUME AsciiTypes, NEW c \in Nat, Ends(c)
    PROVE  text' \in Seq(Nat)
<1>1. text \in Seq(Nat) /\ <<>> \in Seq(Nat) /\ <<COLON>> \in Seq(Nat) /\ Append(text, c) \in Seq(Nat)
  BY DEF AsciiTypes, COLON
<1> QED BY <1>1 DEF Ends

\* The types after a step.
LEMMA StepTypes ==
    ASSUME AsciiTypes, xMBASCIIReceiveFSM
    PROVE  AsciiTypes'
<1> DEFINE n == usRcvBufferPos
           bufs == [0 .. MB_SER_PDU_SIZE_MAX - 1 -> Byte]
<1>1. n \in Nat /\ ucRTUBuf \in bufs /\ queue \in Seq(Events) /\ "FRAME_RECEIVED" \in Events
  BY DEF AsciiTypes, PortTypes, Events
<1>2. text' \in Seq(Nat)
  BY StepIs, EndsIs DEF AsciiTypes
<1>3. queue' \in Seq(Events)
  BY <1>1, Posts, EventPosted
<1>4. (16 * prvucMBCHAR2BIN(ucByte)) % 256 \in Byte
  <2>1. prvucMBCHAR2BIN(ucByte) \in Nat
    BY DEF prvucMBCHAR2BIN, Digit
  <2>2. \A v \in Nat : (16 * v) % 256 \in Nat /\ (16 * v) % 256 < 256
    OBVIOUS
  <2> QED BY <2>1, <2>2, ByteIs
<1>5. Or(ucRTUBuf[n], prvucMBCHAR2BIN(ucByte)) \in Byte
  BY OrIs
<1>6. \A v \in Byte : Writes1(v) => ucRTUBuf' \in bufs
  BY <1>1 DEF Writes1
<1>7. ucRTUBuf' \in bufs
  <2>1. StoresHigh \/ StoresLow => ucRTUBuf' \in bufs
    <3> HIDE DEF bufs
    <3> QED BY <1>4, <1>5, <1>6, Zenon DEF StoresHigh, StoresLow
  <2>2. ucRTUBuf' = ucRTUBuf \/ StoresHigh \/ StoresLow
    BY Branches DEF Inner, Final, Goes, Emptied
  <2> QED BY <1>1, <2>1, <2>2
<1> HIDE DEF bufs
<1>8. /\ n' \in Nat /\ eRcvState' \in {"IDLE", "RCV", "WAIT_EOF"} /\ eBytePos' \in {"HIGH", "LOW"}
      /\ rx' \in Labels
  BY <1>1, Branches DEF Inner, Final, Goes, Emptied, StoresHigh, StoresLow, AsciiTypes, Labels
<1>9. RxByte'
  BY StepIs, Branches DEF Inner, AsciiTypes, RxByte
<1> QED BY <1>2, <1>3, <1>7, <1>8, <1>9, StepIs DEF AsciiTypes, PortTypes, bufs

\* A step leaves the timer as the state wants it.
LEMMA StepTimed ==
    ASSUME AsciiTypes, AsciiTimed, xMBASCIIReceiveFSM
    PROVE  AsciiTimed'
<1>1. /\ mishaps \subseteq mishaps'
      /\ rx = "delete" => "stray" \in mishaps'
      /\ "late" \in mishaps' => "late" \in mishaps
      /\ handler' = handler /\ rx # "no"
  BY StepIs
<1>2. rx' # "no" /\ handler' = "called" => "late" \in mishaps'
  BY <1>1 DEF AsciiTimed
<1>3. rx' \in {"idle", "post"} => ~timer'
  <2>1. rx' \in {"idle", "post"} => rx \in {"disable", "idle"}
    BY Branches DEF Inner
  <2> QED BY <2>1, Disables DEF AsciiTimed
<1>4. "late" \notin mishaps' => RxState'
  <2> SUFFICES ASSUME "late" \notin mishaps' PROVE RxState'
    OBVIOUS
  <2>1. RxState
    BY <1>1 DEF AsciiTimed
  <2> QED BY <2>1, Branches DEF RxState, Inner, Goes, Emptied
<1>5. ASSUME mishaps' \cap {"late", "stray"} = {},
             handler' = "called" \/ (timer' /\ handler' = "no" /\ rx' = "no")
      PROVE  eRcvState' # "IDLE"
  <2>1. "late" \notin mishaps /\ rx # "delete"
    BY <1>1, <1>5
  <2>2. handler # "called" /\ RxState
    BY <1>1, <2>1 DEF AsciiTimed
  <2>3. timer' /\ rx' = "no"
    BY <1>1, <1>5, <2>2
  <2>4. rx \notin {"post", "overflow"}
    BY <2>3, Disables DEF AsciiTimed
  <2> QED BY <2>1, <2>2, <2>3, <2>4, Branches DEF RxState, Final, Goes, Emptied
<1> QED BY <1>2, <1>3, <1>4, <1>5 DEF AsciiTimed

\* A step keeps the room, and the state that goes with where the machine is.
LEMMA StepRoom ==
    ASSUME AsciiTypes, Room, RxState, xMBASCIIReceiveFSM
    PROVE  Room' /\ RxState'
<1>1. MB_SER_PDU_SIZE_MAX \in Nat /\ MB_SER_PDU_SIZE_MAX > 0 /\ usRcvBufferPos \in Nat
      /\ eBytePos \in {"HIGH", "LOW"} /\ eRcvState \in {"IDLE", "RCV", "WAIT_EOF"}
  BY FrameAssumption DEF FrameAssumption, AsciiTypes, PortTypes, MB_SER_PDU_SIZE_MIN
<1>2. CASE Inner /\ rx' # "no"
  <2>1. RxState'
    BY <1>2 DEF RxState, Inner, Goes, Emptied
  <2>2. Room'
    BY <1>1, <1>2 DEF RxState, Room, Was, Cleared, Inner, Goes, Emptied, TooMany
  <2> QED BY <2>1, <2>2
<1>3. CASE Final /\ rx' = "no"
  <2>1. RxState'
    BY <1>3 DEF RxState
  <2>2. Room'
    BY <1>1, <1>3 DEF RxState, Room, Was, Cleared, Final, Goes, Emptied, StoresHigh, StoresLow
  <2> QED BY <2>1, <2>2
<1> QED BY <1>2, <1>3, Branches

\* The whole of what a character does, when the machine is done with it.
Done(c) ==
    \/ c = COLON /\ usRcvBufferPos' = 0 /\ eBytePos' = "HIGH" /\ eRcvState' = "RCV"
    \/ Was = "RCV" /\ c = CR /\ Goes("WAIT_EOF")
    \/ /\ Was = "RCV" /\ c \notin {COLON, CR} /\ eBytePos = "HIGH"
       /\ usRcvBufferPos < MB_SER_PDU_SIZE_MAX /\ Writes1((16 * prvucMBCHAR2BIN(c)) % 256)
       /\ eBytePos' = "LOW" /\ UNCHANGED usRcvBufferPos /\ eRcvState' = "RCV"
    \/ /\ Was = "RCV" /\ c \notin {COLON, CR} /\ eBytePos = "LOW"
       /\ Writes1(Or(ucRTUBuf[usRcvBufferPos], prvucMBCHAR2BIN(c)))
       /\ usRcvBufferPos' = usRcvBufferPos + 1 /\ eBytePos' = "HIGH" /\ eRcvState' = "RCV"
    \/ /\ Was = "RCV" /\ c \notin {COLON, CR} /\ eBytePos = "HIGH"
       /\ usRcvBufferPos = MB_SER_PDU_SIZE_MAX /\ Goes("IDLE")
    \/ Was = "WAIT_EOF" /\ c # COLON /\ Goes("IDLE")
    \/ Was = "IDLE" /\ c # COLON /\ Goes("IDLE")

\* The last step of the machine completes it.
LEMMA FinalIs ==
    ASSUME AsciiTypes, Room, RxState, xMBASCIIReceiveFSM, rx' = "no"
    PROVE  Done(ucByte) /\ (rx \notin Cleared \/ ucByte = COLON)
<1>1. Final /\ RxByte /\ LF # COLON /\ CR # COLON
  BY Branches DEF AsciiTypes, LF, CR, COLON
<1>2. rx \in Cleared => ucByte = COLON
  BY <1>1 DEF RxByte, Cleared
<1>3. CASE rx = "store"
  <2>1. Was = "RCV" /\ eRcvState = "RCV"
    BY <1>3 DEF Was, RxState
  <2>2. CASE ucByte = COLON
    <3>1. Emptied /\ eRcvState' = "RCV"
      BY <1>1, <1>3, <2>1, <2>2 DEF Final
    <3>2. Done(ucByte)
      BY <2>2, <3>1 DEF Done, Emptied
    <3> QED BY <1>2, <3>2
  <2>3. CASE ucByte = CR
    <3>1. Goes("WAIT_EOF")
      BY <1>1, <1>3, <2>3 DEF Final
    <3>2. Done(ucByte)
      BY <2>1, <2>3, <3>1, Zenon DEF Done
    <3> QED BY <1>2, <3>2
  <2>4. CASE ucByte \notin {COLON, CR}
    <3>1. (StoresHigh \/ StoresLow) /\ eRcvState' = "RCV"
      BY <1>1, <1>3, <2>1, <2>4 DEF Final
    <3>2. StoresHigh => Done(ucByte)
      BY <2>1, <2>4, <3>1, Zenon DEF StoresHigh, Done
    <3>3. StoresLow => Done(ucByte)
      BY <2>1, <2>4, <3>1, Zenon DEF StoresLow, Done
    <3> QED BY <1>2, <3>1, <3>2, <3>3
  <2> QED BY <2>2, <2>3, <2>4
<1>4. CASE rx = "overflow"
  BY <1>1, <1>4 DEF Final, Was, RxState, RxByte, Room, Done, Goes, Cleared
<1>5. CASE rx \in {"post", "delete"}
  BY <1>1, <1>5 DEF Final, Was, RxState, RxByte, Done, Goes, Cleared
<1>6. CASE rx \in {"time", "receive"}
  BY <1>1, <1>6 DEF Final, RxState, RxByte, Room, Done, Goes, Cleared
<1> QED BY <1>1, <1>3, <1>4, <1>5, <1>6 DEF Final

\* What the receiver has of the text, and that the text is a frame with its LF only.
LEMMA CharTyped ==
    ASSUME AsciiTypes, Typed, Room, NEW c \in Nat, Done(c), Ends(c), rx' = "no",
           rx \notin Cleared \/ c = COLON
    PROVE  /\ Typed'
           /\ ~(Was = "WAIT_EOF" /\ c = LF) => ~IsFrame(text')
<1> DEFINE n == usRcvBufferPos
           len == Len(text)
<1>1. /\ n \in Nat /\ len \in Nat /\ text \in Seq(Nat) /\ eBytePos \in {"HIGH", "LOW"}
      /\ MB_SER_PDU_SIZE_MAX \in Nat /\ n <= MB_SER_PDU_SIZE_MAX
      /\ DOMAIN ucRTUBuf = 0 .. MB_SER_PDU_SIZE_MAX - 1
  BY FrameAssumption DEF FrameAssumption, AsciiTypes, PortTypes, Room
<1>0. /\ Was' = eRcvState' /\ rx' \notin Cleared
      /\ c # COLON => Written
  BY DEF Was, Cleared, Typed
<1>2. CASE c = COLON /\ usRcvBufferPos' = 0 /\ eBytePos' = "HIGH" /\ eRcvState' = "RCV"
  <2>1. text' = <<COLON>> /\ Len(text') = 1 /\ text'[1] = COLON
    BY <1>2 DEF Ends
  <2>2. Digits' = 0 /\ n' = 0 /\ eBytePos' = "HIGH" /\ eRcvState' = "RCV"
    BY <1>2 DEF Digits
  <2>3. Begun(0)' /\ Len(text') = Digits' + 1
    BY <2>1, <2>2 DEF Begun, Stored
  <2>4. Typed'
    BY <1>0, <2>2, <2>3 DEF Typed, Written
  <2> QED BY <2>1, <2>4 DEF IsFrame
<1> DEFINE t == Append(text, c)
<1>3. /\ Len(t) = len + 1 /\ t[len + 1] = c /\ t \in Seq(Nat)
      /\ \A i \in 1 .. len : t[i] = text[i]
  BY <1>1, AppendProperties
<1> HIDE DEF t
\* While the frame is received, the last character but one of a text is no CR.
<1>4. ASSUME Was = "RCV", c # COLON
      PROVE  /\ text' = t /\ len = Digits + 1 /\ Begun(Digits) /\ ~IsFrame(text')
             /\ Digits \in Nat /\ Digits = 2 * n + (IF eBytePos = "LOW" THEN 1 ELSE 0)
  <2>1. len = Digits + 1 /\ Begun(Digits) /\ Digits = 2 * n + (IF eBytePos = "LOW" THEN 1 ELSE 0)
    BY <1>0, <1>4 DEF Written, Digits
  <2>2. Digits \in Nat
    BY <1>1, <2>1
  <2>3. text' = t
    <3>1. text # <<>>
      BY <2>1, <2>2
    <3> QED BY <1>4, <3>1 DEF Ends, t
  <2>4. ASSUME IsFrame(t) PROVE FALSE
    <3>1. len + 1 >= 9 /\ t[(len + 1) - 1] = CR
      BY <1>1, <1>3, <2>4 DEF IsFrame
    <3>2. len \in 2 .. Digits + 1 /\ len \in 1 .. len /\ (len + 1) - 1 = len
      BY <1>1, <2>1, <2>2, <3>1
    <3> QED BY <1>3, <2>1, <3>1, <3>2 DEF Begun
  <2> QED BY <2>1, <2>2, <2>3, <2>4
\* A CR.
<1>5. CASE Was = "RCV" /\ c = CR /\ Goes("WAIT_EOF")
  <2>1. CR # COLON /\ CR \in Nat
    BY DEF CR, COLON
  <2>2. /\ text' = t /\ len = Digits + 1 /\ Begun(Digits) /\ ~IsFrame(text') /\ Digits' = Digits
        /\ Digits \in Nat /\ Digits = 2 * n + (IF eBytePos = "LOW" THEN 1 ELSE 0)
    BY <1>4, <1>5, <2>1 DEF Goes, Digits
  <2>3. /\ \A i \in 1 .. n : 2 * i \in 1 .. len /\ 2 * i + 1 \in 1 .. len
        /\ eBytePos = "LOW" => 2 * n + 2 \in 1 .. len
        /\ 1 \in 1 .. len /\ \A i \in 2 .. Digits + 1 : i \in 1 .. len
    BY <1>1, <2>2
  <2>4. Stored'
    <3>1. /\ ucRTUBuf' = ucRTUBuf /\ usRcvBufferPos' = n /\ eBytePos' = eBytePos
          /\ text' = t /\ Stored /\ n = usRcvBufferPos
      BY <1>5, <2>2 DEF Begun, Goes
    <3>2. ASSUME NEW i \in 1 .. n PROVE ucRTUBuf[i - 1] = ReadAs(t[2 * i], t[2 * i + 1])
      <4>1. t[2 * i] = text[2 * i] /\ t[2 * i + 1] = text[2 * i + 1]
        BY <1>3, <2>3
      <4>2. ucRTUBuf[i - 1] = ReadAs(text[2 * i], text[2 * i + 1])
        BY <3>1 DEF Stored
      <4> QED BY <4>1, <4>2, Zenon
    <3>3. ASSUME eBytePos = "LOW"
          PROVE  ucRTUBuf[n] = (16 * prvucMBCHAR2BIN(t[2 * n + 2])) % 256
      <4>1. t[2 * n + 2] = text[2 * n + 2]
        BY <1>3, <2>3, <3>3
      <4>2. ucRTUBuf[n] = (16 * prvucMBCHAR2BIN(text[2 * n + 2])) % 256
        BY <3>1, <3>3 DEF Stored
      <4> QED BY <4>1, <4>2, Zenon
    <3> QED BY <3>1, <3>2, <3>3 DEF Stored
  <2>5. Begun(Digits)'
    BY <1>3, <2>2, <2>3, <2>4 DEF Begun
  <2>6. Len(text') = Digits' + 2 /\ text'[Digits' + 2] = CR
    BY <1>3, <1>5, <2>2
  <2> QED BY <1>0, <1>5, <2>2, <2>5, <2>6 DEF Goes, Typed, Written
\* The high digit.
<1>6. CASE /\ Was = "RCV" /\ c \notin {COLON, CR} /\ eBytePos = "HIGH"
           /\ n < MB_SER_PDU_SIZE_MAX /\ Writes1((16 * prvucMBCHAR2BIN(c)) % 256)
           /\ eBytePos' = "LOW" /\ n' = n /\ eRcvState' = "RCV"
  <2>1. /\ text' = t /\ len = 2 * n + 1 /\ Begun(2 * n) /\ ~IsFrame(text') /\ Digits' = 2 * n + 1
        /\ eRcvState' = "RCV"
    BY <1>1, <1>4, <1>6 DEF Digits
  <2>2. /\ ucRTUBuf'[n] = (16 * prvucMBCHAR2BIN(c)) % 256
        /\ \A i \in 1 .. n : ucRTUBuf'[i - 1] = ucRTUBuf[i - 1]
    <3>1. n \in DOMAIN ucRTUBuf /\ \A i \in 1 .. n : i - 1 \in DOMAIN ucRTUBuf /\ i - 1 # n
      BY <1>1, <1>6
    <3> QED BY <1>6, <3>1 DEF Writes1
  <2>3. /\ \A i \in 1 .. n : 2 * i \in 1 .. len /\ 2 * i + 1 \in 1 .. len
        /\ 2 * n + 2 = len + 1 /\ 1 \in 1 .. len
        /\ \A i \in 2 .. (2 * n + 1) + 1 : (i \in 2 .. 2 * n + 1 /\ i \in 1 .. len) \/ i = len + 1
    BY <1>1, <2>1
  <2>4. Stored'
    BY <1>3, <1>6, <2>1, <2>2, <2>3 DEF Begun, Stored
  <2>5. ASSUME NEW d, d = 2 * n + 1 PROVE Begun(d)'
    BY <1>3, <1>6, <2>1, <2>3, <2>4, <2>5 DEF Begun
  <2>6. Len(text') = Digits' + 1
    BY <1>1, <1>3, <2>1
  <2> QED BY <1>0, <2>1, <2>5, <2>6 DEF Typed, Written, Begun
\* The low digit.
<1>7. CASE /\ Was = "RCV" /\ c \notin {COLON, CR} /\ eBytePos = "LOW"
           /\ Writes1(Or(ucRTUBuf[n], prvucMBCHAR2BIN(c)))
           /\ n' = n + 1 /\ eBytePos' = "HIGH" /\ eRcvState' = "RCV"
  <2>1. /\ text' = t /\ len = 2 * n + 2 /\ Begun(2 * n + 1) /\ ~IsFrame(text') /\ Digits' = 2 * n + 2
        /\ eRcvState' = "RCV" /\ n < MB_SER_PDU_SIZE_MAX
    BY <1>1, <1>4, <1>7 DEF Digits, Room
  <2>2. /\ ucRTUBuf'[n] = ReadAs(text[2 * n + 2], c)
        /\ \A i \in 1 .. n : ucRTUBuf'[i - 1] = ucRTUBuf[i - 1]
    <3>1. n \in DOMAIN ucRTUBuf /\ \A i \in 1 .. n : i - 1 \in DOMAIN ucRTUBuf /\ i - 1 # n
      BY <1>1, <2>1
    <3>2. ucRTUBuf[n] = (16 * prvucMBCHAR2BIN(text[2 * n + 2])) % 256
      BY <1>7, <2>1 DEF Begun, Stored
    <3> QED BY <1>7, <3>1, <3>2 DEF Writes1, ReadAs
  <2>3. /\ \A i \in 1 .. n : 2 * i \in 1 .. len /\ 2 * i + 1 \in 1 .. len
        /\ 2 * (n + 1) = len /\ 2 * (n + 1) + 1 = len + 1 /\ len \in 1 .. len /\ 2 * n + 2 = len
        /\ 1 \in 1 .. len
        /\ \A i \in 2 .. (2 * n + 2) + 1 : (i \in 2 .. (2 * n + 1) + 1 /\ i \in 1 .. len) \/ i = len + 1
        /\ \A i \in 1 .. n + 1 : i \in 1 .. n \/ i = n + 1
        /\ (n + 1) - 1 = n
    BY <1>1, <2>1
  <2>4. \A i \in 1 .. n + 1 : ucRTUBuf'[i - 1] = ReadAs(t[2 * i], t[2 * i + 1])
    <3>1. ASSUME NEW i \in 1 .. n PROVE ucRTUBuf'[i - 1] = ReadAs(t[2 * i], t[2 * i + 1])
      BY <1>3, <2>1, <2>2, <2>3 DEF Begun, Stored
    <3>2. ucRTUBuf'[(n + 1) - 1] = ReadAs(t[2 * (n + 1)], t[2 * (n + 1) + 1])
      <4>1. t[2 * (n + 1)] = text[2 * n + 2] /\ t[2 * (n + 1) + 1] = c
        BY <1>3, <2>3
      <4> QED BY <2>2, <2>3, <4>1
    <3> QED BY <2>3, <3>1, <3>2
  <2>5. Stored'
    BY <1>7, <2>1, <2>4 DEF Stored, ReadAs
  <2>6. ASSUME NEW d, d = 2 * n + 2 PROVE Begun(d)'
    BY <1>3, <1>7, <2>1, <2>3, <2>5, <2>6 DEF Begun
  <2>7. Len(text') = Digits' + 1
    BY <1>1, <1>3, <2>1
  <2> QED BY <1>0, <2>1, <2>6, <2>7 DEF Typed, Written, Begun
\* One digit too many.
<1>8. CASE /\ Was = "RCV" /\ c \notin {COLON, CR} /\ eBytePos = "HIGH"
           /\ n = MB_SER_PDU_SIZE_MAX /\ Goes("IDLE")
  <2>1. text' = t /\ len = 2 * MB_SER_PDU_SIZE_MAX + 1 /\ ~IsFrame(text') /\ eRcvState' = "IDLE"
    BY <1>1, <1>4, <1>8 DEF Goes
  <2>2. Len(text') = 2 * MB_SER_PDU_SIZE_MAX + 2 /\ text'[Len(text')] # CR
    BY <1>1, <1>3, <1>8, <2>1
  <2> QED BY <1>0, <2>1, <2>2 DEF Typed, Written, Dead
\* After the CR.
<1>9. CASE Was = "WAIT_EOF" /\ c # COLON /\ Goes("IDLE")
  <2>1. len = Digits + 2 /\ text[Digits + 2] = CR /\ Digits \in Nat
    BY <1>0, <1>1, <1>9 DEF Written, Digits
  <2>2. text' = t /\ eRcvState' = "IDLE"
    <3>1. text # <<>>
      BY <2>1
    <3> QED BY <1>9, <3>1 DEF Ends, t, Goes
  <2>3. len \in 2 .. Len(t) - 1 /\ t[len] = CR
    <3>1. len \in 1 .. len /\ len \in 2 .. (len + 1) - 1
      BY <2>1
    <3> QED BY <1>3, <2>1, <3>1
  <2>4. Dead(t)
    BY <2>3 DEF Dead
  <2>5. c # LF => ~IsFrame(t)
    BY <1>3 DEF IsFrame
  <2> QED BY <1>0, <1>9, <2>2, <2>4, <2>5 DEF Typed, Written
\* Between two frames.
<1>10. CASE Was = "IDLE" /\ c # COLON /\ Goes("IDLE")
  <2>1. CASE text = <<>>
    <3>1. text' = <<>> /\ eRcvState' = "IDLE"
      BY <1>10, <2>1 DEF Ends, Goes
    <3> QED BY <1>0, <3>1 DEF Typed, Written, IsFrame
  <2>2. CASE text # <<>>
    <3>1. text' = t /\ eRcvState' = "IDLE" /\ Dead(text)
      BY <1>0, <1>10, <2>2 DEF Ends, Goes, Written, t
    <3>2. Dead(t) /\ ~IsFrame(t)
      BY <1>1, <3>1, DeadStays DEF t
    <3> QED BY <1>0, <3>1, <3>2 DEF Typed, Written
  <2> QED BY <2>1, <2>2
<1>11. LF # COLON
  BY DEF LF, COLON
<1> HIDE DEF len
<1> QED BY <1>2, <1>5, <1>6, <1>7, <1>8, <1>9, <1>10, <1>11 DEF Done

-----------------------------------------------------------------------------
\* The bytes in the buffer are those that digits say.
LEMMA BytesReceived ==
    ASSUME AsciiTypes, Stored, Len(text) = Digits + 2, text \in Seq(Nat),
           \A i \in 2 .. Digits + 1 : text[i] \in Digit
    PROVE  BytesOf(Append(text, LF)) = Received
<1> DEFINE n == usRcvBufferPos
           t == Append(text, LF)
<1>1. /\ n \in Nat /\ eBytePos \in {"HIGH", "LOW"} /\ LF \in Nat
      /\ Digits = 2 * n + (IF eBytePos = "LOW" THEN 1 ELSE 0)
  BY DEF AsciiTypes, PortTypes, Digits, LF
<1>2. /\ Digits \in Nat /\ Digits \div 2 = n /\ (Digits + 3) - 3 = Digits
  <2>1. \A k \in Nat : (2 * k) \div 2 = k /\ (2 * k + 1) \div 2 = k
    OBVIOUS
  <2>2. Digits \in {2 * n, 2 * n + 1}
    BY <1>1
  <2>3. Digits \in Nat
    BY <1>1, <2>2
  <2>4. Digits \div 2 = n
    BY <1>1, <2>1, <2>2
  <2> QED BY <2>3, <2>4
<1>3. /\ Len(t) = Digits + 3 /\ \A i \in 1 .. Digits + 2 : t[i] = text[i]
  BY <1>1, <1>2, AppendProperties
<1> HIDE DEF t
<1>4. BytesOf(t) = [i \in 1 .. n |-> 16 * t[2 * i] + t[2 * i + 1]]
  BY <1>2, <1>3 DEF BytesOf
<1>5. ASSUME NEW i \in 1 .. n PROVE ucRTUBuf[i - 1] = 16 * t[2 * i] + t[2 * i + 1]
  <2>1. /\ 2 * i \in 2 .. Digits + 1 /\ 2 * i + 1 \in 2 .. Digits + 1
        /\ 2 * i \in 1 .. Digits + 2 /\ 2 * i + 1 \in 1 .. Digits + 2
    BY <1>1, <1>2
  <2>2. /\ text[2 * i] \in Digit /\ text[2 * i + 1] \in Digit
        /\ t[2 * i] = text[2 * i] /\ t[2 * i + 1] = text[2 * i + 1]
    BY <1>3, <2>1
  <2>3. ucRTUBuf[i - 1] = ReadAs(text[2 * i], text[2 * i + 1])
    BY DEF Stored
  <2>4. ReadAs(text[2 * i], text[2 * i + 1]) = 16 * text[2 * i] + text[2 * i + 1]
    <3>1. \A h, d \in Digit : ReadAs(h, d) = 16 * h + d
      BY OrIs DEF ReadAs, prvucMBCHAR2BIN
    <3> QED BY <2>2, <3>1
  <2> QED BY <2>2, <2>3, <2>4
<1> QED BY <1>4, <1>5 DEF Received, t

\* The bytes of the buffer that eMBASCIIReceive sums.
LEMMA ReceivedIs ==
    ASSUME AsciiTypes, usRcvBufferPos <= MB_SER_PDU_SIZE_MAX
    PROVE  /\ Received \in Seq(Byte) /\ Len(Received) = usRcvBufferPos
           /\ usRcvBufferPos > 0 => Received[1] = ucRTUBuf[0] /\ ucRTUBuf[0] \in Byte
           /\ usRcvBufferPos >= 3 => /\ SubSeq(Received, 2, Len(Received) - 1)
                                          = [i \in 1 .. usRcvBufferPos - 2 |-> ucRTUBuf[i]]
                                     /\ [i \in 1 .. usRcvBufferPos - 2 |-> ucRTUBuf[i]] \in Seq(Byte)
<1> DEFINE n == usRcvBufferPos
           s == Received
<1>1. /\ n \in Nat /\ MB_SER_PDU_SIZE_MAX \in Nat /\ n <= MB_SER_PDU_SIZE_MAX
      /\ ucRTUBuf \in [0 .. MB_SER_PDU_SIZE_MAX - 1 -> Byte]
  BY FrameAssumption DEF FrameAssumption, AsciiTypes, PortTypes
<1>2. \A i \in 1 .. n : i - 1 \in 0 .. MB_SER_PDU_SIZE_MAX - 1 /\ ucRTUBuf[i - 1] \in Byte
  <2>1. \A i \in 1 .. n : i - 1 \in 0 .. MB_SER_PDU_SIZE_MAX - 1
    BY <1>1
  <2> QED BY <1>1, <2>1
<1>3. s \in Seq(Byte) /\ Len(s) = n /\ \A i \in 1 .. n : s[i] = ucRTUBuf[i - 1]
  BY <1>1, <1>2 DEF Received
<1> HIDE DEF s
<1>4. ASSUME n > 0 PROVE s[1] = ucRTUBuf[0] /\ ucRTUBuf[0] \in Byte
  <2>1. 1 \in 1 .. n
    BY <1>1, <1>4
  <2> QED BY <1>2, <1>3, <2>1
<1>5. ASSUME n >= 3
      PROVE  /\ SubSeq(s, 2, n - 1) = [i \in 1 .. n - 2 |-> ucRTUBuf[i]]
             /\ [i \in 1 .. n - 2 |-> ucRTUBuf[i]] \in Seq(Byte)
  <2> DEFINE r == SubSeq(s, 2, n - 1)
  <2>1. 2 \in 1 .. Len(s) + 1 /\ n - 1 \in 2 - 1 .. Len(s) /\ (n - 1) - 2 + 1 = n - 2 /\ n - 2 \in Nat
    BY <1>1, <1>3, <1>5
  <2>2. r \in Seq(Byte) /\ Len(r) = n - 2 /\ \A i \in 1 .. n - 2 : r[i] = s[2 + i - 1]
    BY <1>3, <2>1, SubSeqProperties
  <2> HIDE DEF r
  <2>3. \A i \in 1 .. n - 2 : r[i] = ucRTUBuf[i]
    <3>1. \A i \in 1 .. n - 2 : 2 + i - 1 \in 1 .. n /\ (2 + i - 1) - 1 = i
      BY <1>1
    <3> QED BY <1>3, <2>2, <3>1
  <2>4. r = [i \in 1 .. n - 2 |-> ucRTUBuf[i]]
    BY <2>1, <2>2, <2>3
  <2> QED BY <2>2, <2>4 DEF r
<1> QED BY <1>3, <1>4, <1>5 DEF s

\* The end of a frame: what is in the buffer is what the text says, or the
\* checksum gives it away.
LEMMA FrameIs ==
    ASSUME AsciiTypes, Typed, Room, rx = "post", Ends(LF), ~Misread, expected \in Seq(Requested)
    PROVE  /\ expected' = IF Accepted /\ Ours(ucRTUBuf[0])
                          THEN Append(expected, <<ucRTUBuf[0], [i \in 1 .. usRcvBufferPos - 2 |-> ucRTUBuf[i]]>>)
                          ELSE expected
           /\ expected' \in Seq(Requested)
<1> DEFINE n == usRcvBufferPos
           t == Append(text, LF)
           request == <<ucRTUBuf[0], [i \in 1 .. n - 2 |-> ucRTUBuf[i]]>>
<1>1. /\ n \in Nat /\ MB_SER_PDU_SIZE_MAX \in Nat /\ n <= MB_SER_PDU_SIZE_MAX
      /\ text \in Seq(Nat) /\ LF \in Nat /\ eBytePos \in {"HIGH", "LOW"}
      /\ eBytePos = "LOW" => n < MB_SER_PDU_SIZE_MAX
      /\ Digits = 2 * n + (IF eBytePos = "LOW" THEN 1 ELSE 0)
  BY FrameAssumption DEF FrameAssumption, AsciiTypes, PortTypes, LF, Digits, Room, Was
<1>2. /\ Len(text) = Digits + 2 /\ text[1] = COLON /\ Stored /\ text[Digits + 2] = CR
      /\ Digits \in Nat
  <2>1. Was = "WAIT_EOF" /\ Written
    BY DEF Typed, Was, Cleared
  <2>2. Len(text) = Digits + 2 /\ Begun(Digits) /\ text[Digits + 2] = CR
    BY <2>1 DEF Written
  <2>3. Digits \in Nat
    BY <1>1
  <2> QED BY <2>2, <2>3 DEF Begun
<1>3. /\ Len(t) = Digits + 3 /\ t[Digits + 3] = LF
      /\ \A i \in 1 .. Digits + 2 : t[i] = text[i]
  BY <1>1, <1>2, AppendProperties
<1>4. /\ text' = t
      /\ expected' = IF IsFrame(t) /\ Ours(BytesOf(t)[1]) THEN Append(expected, AsciiRequest(t))
                     ELSE expected
  <2>1. LF # COLON /\ text # <<>>
    BY <1>2 DEF LF, COLON
  <2>2. text' = t
    BY <2>1 DEF Ends
  <2> QED BY <2>2 DEF Ends
<1> HIDE DEF t
<1>5. CASE \A i \in 2 .. Digits + 1 : text[i] \in Digit
  <2>1. BytesOf(t) = Received
    BY <1>1, <1>2, <1>5, BytesReceived DEF t
  <2>2. IsFrame(t) <=> Accepted
    <3>1. Len(t) \in 9 .. 2 * MB_SER_PDU_SIZE_MAX + 3 <=> n >= 3
      BY <1>1, <1>3
    <3>2. t[1] = COLON /\ t[Len(t) - 1] = CR /\ t[Len(t)] = LF
      <4>1. 1 \in 1 .. Digits + 2 /\ Digits + 2 \in 1 .. Digits + 2 /\ (Digits + 3) - 1 = Digits + 2
        BY <1>2
      <4> QED BY <1>2, <1>3, <4>1
    <3>3. \A i \in 2 .. Len(t) - 2 : t[i] \in Digit
      <4>1. \A i \in 2 .. (Digits + 3) - 2 : i \in 2 .. Digits + 1 /\ i \in 1 .. Digits + 2
        BY <1>2
      <4> QED BY <1>3, <1>5, <4>1
    <3>4. Sum(BytesOf(t)) = 0 <=> prvucMBLRC(Received) = 0
      BY <1>1, <2>1, ReceivedIs, SumIs
    <3> QED BY <3>1, <3>2, <3>3, <3>4 DEF IsFrame, Accepted, MB_ASCII_PDU_SIZE_MIN
  <2>3. CASE Accepted
    <3>1. n >= 3 /\ n > 0
      BY <1>1, <2>3 DEF Accepted, MB_ASCII_PDU_SIZE_MIN
    <3>2. /\ BytesOf(t)[1] = ucRTUBuf[0] /\ AsciiRequest(t) = request /\ request \in Requested
      BY <1>1, <2>1, <3>1, ReceivedIs DEF AsciiRequest, Requested
    <3> HIDE DEF request
    <3>3. Append(expected, request) \in Seq(Requested)
      BY <3>2
    <3> QED BY <1>4, <2>2, <2>3, <3>2, <3>3 DEF request
  <2>4. CASE ~Accepted
    BY <1>4, <2>2, <2>4
  <2> QED BY <2>3, <2>4
<1>6. CASE \E i \in 2 .. Digits + 1 : text[i] \notin Digit
  <2>1. PICK i \in 2 .. Digits + 1 : text[i] \notin Digit
    BY <1>6
  <2>2. i \in 2 .. Len(text) - 1 /\ i \in 2 .. Len(t) - 2 /\ t[i] = text[i]
    <3>1. i \in 2 .. (Digits + 2) - 1 /\ i \in 2 .. (Digits + 3) - 2 /\ i \in 1 .. Digits + 2
      BY <1>2
    <3> QED BY <1>2, <1>3, <3>1
  <2>3. ~Accepted
    BY <2>1, <2>2 DEF Misread
  <2>4. ~IsFrame(t)
    BY <2>1, <2>2 DEF IsFrame
  <2> QED BY <1>4, <2>3, <2>4
<1> QED BY <1>5, <1>6

\* The character is read: nothing has happened to any frame.
LEMMA CharRead ==
    ASSUME AsciiInv, Run, rx = "no", NEW c \in Nat, ReadsChar(c), line' \in Seq(Nat),
           overrun => overrun',
           ~overrun' => tx = "wait" /\ tx_check_semaphore = 0 /\ Free(queue)
    PROVE  AsciiInv'
<1>1. /\ eSndState = "TX_IDLE" /\ ucByte' = c
      /\ mishaps' = mishaps \cup (IF handler = "called" THEN {"late"} ELSE {})
      /\ UNCHANGED <<eRcvState, eSndState, ucRTUBuf, usRcvBufferPos, timer, handler, queue, ucRcvAddress,
                     usLength, regs, executed, usSndBufferCount, tx_check_semaphore, tty_tx_index, tx,
                     aborted, eBytePos, pucSndBufferCur, tty_tx_buffer>>
      /\ rx' = "no" => Ends(c)
      /\ rx' # "no" => UNCHANGED <<text, expected>>
  BY DEF ReadsChar, buffer, poll_vars, tx_vars
<1>2. \/ eRcvState = "RCV" /\ rx' = "enable"
      \/ eRcvState = "WAIT_EOF" /\ c = LF /\ rx' = "disable"
      \/ eRcvState = "WAIT_EOF" /\ c = COLON /\ rx' = "clear"
      \/ eRcvState = "WAIT_EOF" /\ c \notin {LF, COLON} /\ rx' = "delete"
      \/ eRcvState = "IDLE" /\ c = COLON /\ rx' = "start"
      \/ eRcvState = "IDLE" /\ c # COLON /\ rx' = "no"
  BY DEF ReadsChar, AsciiInv, AsciiTypes
<1>3. AsciiTypes /\ AsciiTimed /\ COLON # LF /\ mishaps \subseteq mishaps'
  BY <1>1 DEF AsciiInv, COLON, LF
<1>4. AsciiTypes'
  <2>1. text' \in Seq(Nat)
    BY <1>1, <1>3, EndsIs DEF AsciiTypes
  <2>2. RxByte' /\ rx' \in Labels
    BY <1>1, <1>2, <1>3 DEF RxByte, Labels
  <2> QED BY <1>1, <1>3, <2>1, <2>2 DEF AsciiTypes, PortTypes
<1>5. RxState'
  BY <1>1, <1>2 DEF RxState
<1>6. AsciiTimed'
  <2>1. handler' = "called" => "late" \in mishaps'
    BY <1>1
  <2>2. rx' \notin {"idle", "post"}
    BY <1>2
  <2>3. ASSUME mishaps' \cap {"late", "stray"} = {},
               handler' = "called" \/ (timer' /\ handler' = "no" /\ rx' = "no")
        PROVE  eRcvState' # "IDLE"
    <3>1. mishaps \cap {"late", "stray"} = {} /\ handler # "called"
      BY <1>1, <1>3, <2>1, <2>3
    <3> QED BY <1>1, <1>3, <2>3, <3>1 DEF AsciiTimed
  <2> QED BY <1>5, <2>1, <2>2, <2>3 DEF AsciiTimed
<1>7. Sending' /\ AsciiAborts'
  BY <1>1 DEF Sending, AsciiAborts, Run
<1>8. ASSUME ~overrun' PROVE AsciiSafe'
  <2>1. AsciiSafe /\ tx = "wait" /\ tx_check_semaphore = 0 /\ Free(queue) /\ Was = eRcvState
    BY <1>8 DEF AsciiInv, Was
  <2>2. Room'
    BY <1>1, <1>2, <2>1 DEF AsciiSafe, Room, Was, Cleared
  <2>3. CASE rx' # "no"
    <3>1. Typed'
      BY <1>1, <1>2, <2>1, <2>3 DEF AsciiSafe, Typed, Written, Was, Cleared, Begun, Stored, Digits
    <3>2. Transmits'
      BY <1>1, <2>1 DEF Transmits
    <3>3. "misread" \notin mishaps' => AsciiFrame' /\ Lists'
      BY <1>1, <1>3, <2>1, <2>3 DEF AsciiSafe, AsciiFrame, AsciiNow, Accepted, Received, PDU, Lists
    <3> QED BY <1>1, <1>5, <2>1, <2>2, <3>1, <3>2, <3>3 DEF AsciiSafe, AsciiUnsent, Receiving
  <2>4. CASE rx' = "no"
    <3>1. eRcvState = "IDLE" /\ c # COLON /\ Ends(c)
      BY <1>1, <1>2, <2>4
    <3>2. Done(c)
      BY <1>1, <2>1, <3>1 DEF Done, Goes
    <3>3. Typed' /\ ~IsFrame(text')
      <4>1. rx \notin Cleared /\ Was # "WAIT_EOF"
        BY <2>1, <3>1 DEF Cleared
      <4> QED BY <1>3, <2>1, <2>4, <3>1, <3>2, <4>1, CharTyped DEF AsciiSafe
    <3>4. Transmits'
      BY <1>1, <2>1 DEF Transmits
    <3>5. "misread" \notin mishaps' => AsciiFrame' /\ Lists'
      <4>1. expected' = expected
        BY <3>1, <3>3 DEF Ends
      <4> QED BY <1>1, <1>3, <2>1, <4>1 DEF AsciiSafe, AsciiFrame, AsciiNow, Accepted, Received, PDU, Lists
    <3> QED BY <1>1, <1>5, <2>1, <2>2, <3>3, <3>4, <3>5 DEF AsciiSafe, AsciiUnsent, Receiving
  <2> QED BY <2>3, <2>4
<1> QED BY <1>4, <1>6, <1>7, <1>8 DEF AsciiInv

\* A character: if it does not come too early there is no frame that it could disturb.
LEMMA AsciiChar ==
    ASSUME AsciiInv, Run, NEW rest \in Seq(Nat), rest # <<>>, NextChar(rest)
    PROVE  AsciiInv'
<1> DEFINE c == Head(rest)
<1>1. /\ c \in Nat /\ line' \in Seq(Nat) /\ rx = "no" /\ queue \in Seq(Events)
      /\ overrun' = (overrun \/ ~Ready)
  BY DEF NextChar, AsciiInv, AsciiTypes, PortTypes
<1>2. Ready <=> tx = "wait" /\ tx_check_semaphore = 0 /\ Free(queue)
  BY <1>1, ReadyIs
<1>3. (overrun => overrun') /\ (~Ready => overrun')
  BY <1>1, Zenon
<1>4. CASE eSndState # "TX_IDLE" /\ Aborts /\ UNCHANGED <<rx, ucByte, ascii>>
  <2>1. ~Ready
    BY <1>2, <1>4 DEF AsciiInv, Sending
  <2> QED BY <1>1, <1>3, <1>4, <2>1, AsciiFails
<1> HIDE DEF c
<1>5. CASE ReadsChar(c)
  BY <1>1, <1>2, <1>3, <1>5, CharRead
<1> QED BY <1>4, <1>5 DEF NextChar, c

\* A step of the receive machine: a frame is received when its LF is there and the
\* event is posted.
LEMMA AsciiReceives == AsciiInv /\ xMBASCIIReceiveFSM => AsciiInv'
<1> SUFFICES ASSUME AsciiInv, xMBASCIIReceiveFSM PROVE AsciiInv'
  OBVIOUS
<1>1. /\ AsciiTypes /\ queue \in Seq(Events) /\ rx # "no"
      /\ UNCHANGED <<eSndState, ucRcvAddress, usLength, executed, tx_check_semaphore, tx, aborted, overrun>>
      /\ mishaps \subseteq mishaps' /\ Run
  BY StepIs DEF AsciiInv, AsciiTypes, PortTypes
<1>2. AsciiTypes' /\ AsciiTimed'
  BY StepTypes, StepTimed DEF AsciiInv
<1>3. Sending' /\ AsciiAborts'
  BY <1>1 DEF AsciiInv, Sending, AsciiAborts, Run
<1>4. ASSUME ~overrun' PROVE AsciiSafe'
  <2>1. /\ AsciiSafe /\ Typed /\ Room /\ RxState
        /\ tx = "wait" /\ tx_check_semaphore = 0 /\ Free(queue)
    <3>1. AsciiSafe
      BY <1>1, <1>4 DEF AsciiInv
    <3> QED BY <1>1, <3>1 DEF AsciiSafe, AsciiUnsent, Receiving
  <2>2. Room' /\ RxState'
    BY <1>1, <2>1, StepRoom
  <2>3. Transmits'
    BY <1>1, <2>1 DEF AsciiSafe, Transmits
  <2>4. ~Has(queue, "FRAME_RECEIVED") /\ ~Has(queue, "EXECUTE") /\ Alone(queue) /\ eSndState = "TX_IDLE"
    BY <1>1, <2>1 DEF AsciiInv, AsciiSafe, Free, Handled, Sending
  <2>5. Typed' /\ (rx' = "no" /\ rx # "post" => ~IsFrame(text'))
    <3>1. CASE rx' # "no"
      <4>1. \/ rx' \in Cleared
            \/ /\ rx \notin Cleared /\ UNCHANGED <<text, ucRTUBuf, usRcvBufferPos, eBytePos>>
               /\ Was' = Was
        BY <2>1, <3>1, StepIs, Branches DEF Inner, Goes, Was, RxState, Cleared
      <4>2. CASE rx' \in Cleared
        BY <3>1, <4>2 DEF Typed
      <4>3. CASE rx \notin Cleared /\ UNCHANGED <<text, ucRTUBuf, usRcvBufferPos, eBytePos>> /\ Was' = Was
        BY <2>1, <3>1, <4>3 DEF Typed, Written, Begun, Stored, Digits
      <4> QED BY <3>1, <4>1, <4>2, <4>3
    <3>2. CASE rx' = "no"
      <4>1. Done(ucByte) /\ Ends(ucByte) /\ ucByte \in Nat /\ (rx \notin Cleared \/ ucByte = COLON)
        BY <1>1, <2>1, <3>2, FinalIs, StepIs DEF AsciiTypes
      <4>2. Typed' /\ (~(Was = "WAIT_EOF" /\ ucByte = LF) => ~IsFrame(text'))
        BY <1>1, <2>1, <3>2, <4>1, CharTyped
      <4>3. ~(rx # "post" /\ Was = "WAIT_EOF" /\ ucByte = LF)
        <5>1. Final /\ RxByte /\ LF # COLON
          BY <1>1, <3>2, Branches DEF AsciiTypes, LF, COLON
        <5> QED BY <2>1, <5>1 DEF Final, RxByte, RxState, Was
      <4> QED BY <4>2, <4>3
    <3> QED BY <3>1, <3>2
  <2>6. CASE rx # "post"
    <3>1. queue' = queue
      BY <2>6, Posts
    <3>2. "misread" \notin mishaps' => AsciiFrame' /\ Lists'
      <4>1. expected' = expected
        <5>1. rx' = "no" => Ends(ucByte) /\ ~IsFrame(text')
          BY <2>5, <2>6, StepIs
        <5> QED BY <5>1, StepIs DEF Ends
      <4>2. "misread" \notin mishaps' => AsciiFrame /\ Lists
        BY <1>1, <2>1 DEF AsciiSafe
      <4> QED BY <1>1, <2>4, <3>1, <4>1, <4>2 DEF AsciiFrame, Lists
    <3> QED BY <1>1, <2>1, <2>2, <2>3, <2>4, <2>5, <3>1, <3>2 DEF AsciiSafe, AsciiUnsent
  <2>7. CASE rx = "post"
    <3>1. queue' = Append(queue, "FRAME_RECEIVED") /\ "FRAME_RECEIVED" \in Events
      BY <2>7, Posts DEF Events
    <3>2. /\ Alone(queue') /\ ~Has(queue', "EXECUTE") /\ Has(queue', "FRAME_RECEIVED")
      BY <1>1, <2>1, <2>4, <3>1, EventPosted
    <3>3. rx' = "no" /\ eRcvState' = "IDLE" /\ UNCHANGED <<ucRTUBuf, usRcvBufferPos>>
      BY <2>1, <2>7, Branches DEF Inner, Final, Goes, RxState
    <3>4. ASSUME "misread" \notin mishaps' PROVE AsciiFrame' /\ Lists'
      <4>1. AsciiFrame /\ Lists /\ expected = executed
        BY <1>1, <2>1, <3>4 DEF AsciiSafe, AsciiFrame
      <4>2. Ends(LF) /\ ~Misread
        <5>1. ucByte = LF
          BY <1>1, <2>7 DEF AsciiTypes, RxByte
        <5> QED BY <2>7, <3>3, <3>4, <5>1, StepIs
      <4>3. expected' = AsciiNow /\ expected' \in Seq(Requested)
        BY <1>1, <2>1, <2>7, <4>1, <4>2, FrameIs DEF AsciiNow, Lists
      <4>4. AsciiNow' = AsciiNow
        BY <1>1, <3>3 DEF AsciiNow, Accepted, Received
      <4>5. ~Free(queue')
        BY <3>2 DEF Free, Handled
      <4> QED BY <1>1, <3>2, <4>1, <4>3, <4>4, <4>5 DEF AsciiFrame, Lists
    <3> QED BY <1>1, <2>1, <2>2, <2>3, <2>5, <3>2, <3>3, <3>4 DEF AsciiSafe, AsciiUnsent, Receiving
  <2> QED BY <2>6, <2>7
<1> QED BY <1>2, <1>3, <1>4 DEF AsciiInv

-----------------------------------------------------------------------------
\* Steps of the transmit thread, and of eMBPoll with nothing to do.
LEMMA AsciiMoves ==
    ASSUME AsciiInv,
           UNCHANGED <<eRcvState, ucRTUBuf, usRcvBufferPos, timer, handler, ucRcvAddress, usLength,
                       regs, executed, aborted, expected, overrun, text, mishaps, line, rx, ucByte>>,
           eBytePos' = eBytePos \/ (eRcvState = "IDLE" /\ tx = "loop" /\ eBytePos' \in {"HIGH", "LOW"}),
           queue' = queue \/ queue' = Append(queue, "FRAME_SENT")
           \/ (queue # <<>> /\ Head(queue) \notin Handled /\ queue' = Tail(queue)),
           tx' \in {"wait", "loop", "posted", "write"}, tx_check_semaphore' \in Nat,
           eSndState' \in {"TX_IDLE", "TX_START", "TX_DATA", "TX_END", "TX_NOTIFY"}, Sending',
           AsciiSafe => (Receiving \/ ~Free(queue) => tx' = "wait" /\ tx_check_semaphore' = 0)
                        /\ Transmits'
    PROVE  AsciiInv'
<1>1. queue \in Seq(Events) /\ "FRAME_SENT" \in Events /\ "FRAME_SENT" \notin Handled
  BY DEF AsciiInv, AsciiTypes, PortTypes, Events, Handled
<1>2. /\ queue' \in Seq(Events) /\ (Alone(queue) => Alone(queue'))
      /\ \A e \in Handled : Has(queue', e) <=> Has(queue, e)
  <2>1. CASE queue' = Append(queue, "FRAME_SENT")
    BY <1>1, <2>1, EventPosted
  <2>2. CASE queue # <<>> /\ Head(queue) \notin Handled /\ queue' = Tail(queue)
    BY <1>1, <2>2, EventTaken, OtherTaken
  <2> QED BY <1>1, <2>1, <2>2
<1>3. AsciiTypes'
  <2>1. eBytePos' \in {"HIGH", "LOW"}
    BY DEF AsciiInv, AsciiTypes
  <2> QED BY <1>2, <2>1 DEF AsciiInv, AsciiTypes, PortTypes, RxByte
<1>4. AsciiAborts' /\ AsciiTimed'
  BY DEF AsciiInv, AsciiAborts, AsciiTimed, RxState
<1>5. ASSUME AsciiSafe PROVE AsciiSafe'
  <2>1. Free(queue') <=> Free(queue)
    BY <1>2 DEF Free
  <2>2. Has(queue', "EXECUTE") <=> Has(queue, "EXECUTE")
    BY <1>2 DEF Handled
  <2>3. Has(queue', "FRAME_RECEIVED") <=> Has(queue, "FRAME_RECEIVED")
    BY <1>2 DEF Handled
  <2>4. Typed' /\ Room' /\ RxState'
    <3>1. CASE eBytePos' = eBytePos
      BY <1>5, <3>1 DEF AsciiSafe, Typed, Written, Was, Begun, Stored, Digits, Room, RxState
    <3>2. CASE eRcvState = "IDLE" /\ tx = "loop"
      <4>1. rx = "no"
        BY <1>5, <3>2 DEF AsciiSafe, AsciiUnsent, Receiving
      <4> QED BY <1>5, <3>2, <4>1 DEF AsciiSafe, Typed, Written, Was, Cleared, Room, RxState
    <3> QED BY <3>1, <3>2
  <2>5. AsciiNow' = AsciiNow /\ PDU' = PDU
    BY DEF AsciiNow, Accepted, Received, PDU
  <2>6. "misread" \notin mishaps' => AsciiFrame' /\ Lists'
    BY <1>5, <2>1, <2>2, <2>3, <2>5 DEF AsciiSafe, AsciiFrame, Lists
  <2>7. Alone(queue') /\ Transmits' /\ AsciiUnsent'
    BY <1>2, <1>5, <2>1 DEF AsciiSafe, AsciiUnsent, Receiving
  <2>8. /\ Receiving' => Free(queue')
        /\ Has(queue', "EXECUTE") => usLength' \in 1 .. MB_SER_PDU_SIZE_MAX - 3
    BY <1>5, <2>1, <2>2 DEF AsciiSafe, Receiving
  <2> QED BY <2>4, <2>6, <2>7, <2>8 DEF AsciiSafe
<1> QED BY <1>3, <1>4, <1>5 DEF AsciiInv

\* eMBPoll with nothing to do.
LEMMA AsciiPollNothing == AsciiInv /\ PollNothing /\ UNCHANGED ascii => AsciiInv'
<1> SUFFICES ASSUME AsciiInv, PollNothing, UNCHANGED ascii PROVE AsciiInv'
  OBVIOUS
<1>1. /\ queue # <<>> /\ Head(queue) \notin Handled /\ queue' = Tail(queue)
      /\ UNCHANGED <<eRcvState, eSndState, ucRTUBuf, usRcvBufferPos, timer, handler, ucRcvAddress,
                     usLength, regs, executed, aborted, expected, overrun, line, rx, ucByte>>
      /\ UNCHANGED <<usSndBufferCount, tx_check_semaphore, tty_tx_index, tx>>
  BY DEF PollNothing, Handled, buffer, poll_vars, tx_vars, line_vars
<1>2. UNCHANGED <<eBytePos, pucSndBufferCur, tty_tx_buffer, text, mishaps>>
  BY DEF ascii
<1>3. /\ tx' \in {"wait", "loop", "posted", "write"} /\ tx_check_semaphore' \in Nat
      /\ eSndState' \in {"TX_IDLE", "TX_START", "TX_DATA", "TX_END", "TX_NOTIFY"} /\ Sending'
  BY <1>1 DEF AsciiInv, AsciiTypes, PortTypes, Sending
<1>4. AsciiSafe => (Receiving \/ ~Free(queue) => tx' = "wait" /\ tx_check_semaphore' = 0)
  BY <1>1 DEF AsciiSafe, AsciiUnsent
<1>5. AsciiSafe => Transmits'
  BY <1>1, <1>2 DEF AsciiSafe, Transmits, AnswerInBuffer, Spelled, Put16
<1> QED BY <1>1, <1>2, <1>3, <1>4, <1>5, AsciiMoves

-----------------------------------------------------------------------------
(* The transmit thread. *)

\* A character put into the transmit buffer.
LEMMA PutsIs ==
    ASSUME NEW c \in Nat, tty_tx_buffer \in Seq(Nat), tty_tx_index = Len(tty_tx_buffer), Puts(c)
    PROVE  /\ tty_tx_buffer' \in Seq(Nat) /\ tty_tx_index' = Len(tty_tx_buffer')
           /\ tty_tx_index \in Nat /\ tty_tx_index' = tty_tx_index + 1
           /\ tty_tx_buffer'[tty_tx_index'] = c
           /\ \A i \in 1 .. tty_tx_index : tty_tx_buffer'[i] = tty_tx_buffer[i]
<1>1. SubSeq(tty_tx_buffer, 1, Len(tty_tx_buffer)) = tty_tx_buffer /\ Len(tty_tx_buffer) \in Nat
  OBVIOUS
<1>2. tty_tx_buffer' = Append(tty_tx_buffer, c) /\ tty_tx_index' = tty_tx_index + 1
  BY <1>1 DEF Puts
<1> QED BY <1>1, <1>2, AppendProperties

\* The answer's bytes, and its length.
LEMMA AnswerBytes ==
    ASSUME AsciiTypes, AnswerInBuffer
    PROVE  /\ usLength \in Nat /\ usLength > 0 /\ MB_SER_PDU_SIZE_MAX \in Nat
           /\ usLength + 2 <= MB_SER_PDU_SIZE_MAX
           /\ \A i \in 0 .. usLength + 1 : /\ ucRTUBuf[i] \in Byte
                                           /\ ucRTUBuf[i] \div 16 \in Digit /\ ucRTUBuf[i] % 16 \in Digit
                                           /\ 16 * (ucRTUBuf[i] \div 16) + (ucRTUBuf[i] % 16) = ucRTUBuf[i]
<1>1. /\ MB_SER_PDU_SIZE_MAX \in Nat /\ usLength \in Nat /\ usLength > 0
      /\ usLength + 2 <= MB_SER_PDU_SIZE_MAX
  BY FrameAssumption DEF FrameAssumption, AnswerInBuffer
<1>2. \A i \in 0 .. usLength + 1 : i \in 0 .. MB_SER_PDU_SIZE_MAX - 1
  BY <1>1
<1>3. \A i \in 0 .. usLength + 1 : ucRTUBuf[i] \in Byte
  BY <1>2 DEF AsciiTypes
<1>4. \A b \in Byte : b \div 16 \in Digit /\ b % 16 \in Digit /\ 16 * (b \div 16) + (b % 16) = b
  <2>1. \A b \in Nat : b < 256 => /\ b \div 16 \in Nat /\ b \div 16 < 16 /\ b % 16 \in Nat /\ b % 16 < 16
                                /\ 16 * (b \div 16) + (b % 16) = b
    <3>1. \A b \in Nat : b < 256 => b \div 16 \in Nat /\ b \div 16 < 16
      OBVIOUS
    <3>2. \A b \in Nat : b % 16 \in Nat /\ b % 16 < 16
      OBVIOUS
    <3>3. \A b \in Nat : 16 * (b \div 16) + (b % 16) = b
      OBVIOUS
    <3> QED BY <3>1, <3>2, <3>3
  <2>2. \A d \in Nat : d < 16 => d \in Digit
    BY DEF Digit
  <2> QED BY <2>1, <2>2, ByteIs
<1> QED BY <1>1, <1>3, <1>4

\* A step of the transmit machine puts the next character of the answer.
LEMMA Spells ==
    ASSUME AsciiTypes, Transmits, xMBASCIITransmitFSM
    PROVE  eSndState' # "TX_IDLE" /\ eSndState' # "TX_START" /\ tx = "loop" /\ AnswerInBuffer' /\ Spelled'
<1> DEFINE cur == pucSndBufferCur
           b   == tty_tx_buffer
<1>1. /\ tx = "loop" /\ UNCHANGED <<ucRTUBuf, usLength, tx, tx_check_semaphore>>
      /\ eSndState \in {"TX_START", "TX_DATA", "TX_END"} /\ eSndState' \in {"TX_DATA", "TX_END", "TX_NOTIFY"}
  BY DEF xMBASCIITransmitFSM, buffer, poll_vars
<1>2. AnswerInBuffer /\ AnswerInBuffer'
  BY <1>1 DEF Transmits, AnswerInBuffer
<1>3. /\ usLength \in Nat /\ usLength > 0
      /\ \A i \in 0 .. usLength + 1 : ucRTUBuf[i] \div 16 \in Digit /\ ucRTUBuf[i] % 16 \in Digit
      /\ \A d \in Digit : d \in Nat
      /\ COLON \in Nat /\ CR \in Nat /\ LF \in Nat
  BY <1>2, AnswerBytes DEF Digit, COLON, CR, LF
<1>4. CASE eSndState = "TX_START"
  <2>1. /\ Puts(COLON) /\ eSndState' = "TX_DATA" /\ eBytePos' = "HIGH"
        /\ UNCHANGED <<usSndBufferCount, pucSndBufferCur>>
    BY <1>4 DEF xMBASCIITransmitFSM
  <2>2. tty_tx_index = 0 /\ cur = 0 /\ usSndBufferCount = usLength + 2
    BY <1>4 DEF Transmits
  <2>3. tty_tx_buffer' = <<COLON>> /\ tty_tx_index' = 1
    <3>1. SubSeq(b, 1, 0) = <<>>
      OBVIOUS
    <3>2. Append(<<>>, COLON) = <<COLON>> /\ 0 + 1 = 1
      OBVIOUS
    <3>3. tty_tx_buffer' = Append(SubSeq(b, 1, tty_tx_index), COLON) /\ tty_tx_index' = tty_tx_index + 1
      BY <2>1 DEF Puts
    <3> QED BY <2>2, <3>1, <3>2, <3>3
  <2> QED BY <1>1, <1>2, <1>3, <2>1, <2>2, <2>3 DEF Spelled, Put16
<1>5. CASE eSndState # "TX_START"
  <2>1. Spelled
    BY <1>1, <1>5 DEF Transmits
  <2>2. /\ b \in Seq(Nat) /\ tty_tx_index = Len(b) /\ cur \in Nat /\ cur <= usLength + 2
        /\ usSndBufferCount = usLength + 2 - cur /\ Put16(cur) /\ tty_tx_index \in Nat
    BY <1>3, <2>1 DEF Spelled
  <2> DEFINE Longer(c) == /\ tty_tx_buffer' \in Seq(Nat) /\ tty_tx_index' = Len(tty_tx_buffer')
                          /\ tty_tx_index' = tty_tx_index + 1 /\ tty_tx_buffer'[tty_tx_index + 1] = c
                          /\ \A i \in 1 .. tty_tx_index : tty_tx_buffer'[i] = tty_tx_buffer[i]
  <2>3. \A c \in Nat : Puts(c) => Longer(c)
    BY <2>2, PutsIs
  <2> HIDE DEF Longer
  <2>4. \A c : Longer(c) /\ tty_tx_index >= 2 * cur + 1 =>
            /\ tty_tx_buffer'[1] = COLON
            /\ \A i \in 1 .. cur : /\ tty_tx_buffer'[2 * i] = ucRTUBuf[i - 1] \div 16
                                   /\ tty_tx_buffer'[2 * i + 1] = ucRTUBuf[i - 1] % 16
    <3> SUFFICES ASSUME NEW c, Longer(c), tty_tx_index >= 2 * cur + 1
                 PROVE  /\ tty_tx_buffer'[1] = COLON
                        /\ \A i \in 1 .. cur : /\ tty_tx_buffer'[2 * i] = ucRTUBuf[i - 1] \div 16
                                               /\ tty_tx_buffer'[2 * i + 1] = ucRTUBuf[i - 1] % 16
      OBVIOUS
    <3>1. 1 \in 1 .. tty_tx_index /\ \A i \in 1 .. cur : /\ 2 * i \in 1 .. tty_tx_index
                                                         /\ 2 * i + 1 \in 1 .. tty_tx_index
      BY <2>2, SMTT(30)
    <3> QED BY <2>2, <3>1 DEF Longer, Put16
  <2>5. CASE eSndState = "TX_DATA" /\ usSndBufferCount > 0 /\ eBytePos = "HIGH"
    <3>1. /\ Puts(ucRTUBuf[cur] \div 16) /\ eBytePos' = "LOW" /\ eSndState' = "TX_DATA"
          /\ UNCHANGED <<pucSndBufferCur, usSndBufferCount>>
      BY <2>5 DEF xMBASCIITransmitFSM, PutsDigit
    <3>2. tty_tx_index = 2 * cur + 1
      BY <2>1, <2>5 DEF Spelled
    <3>3. cur \in 0 .. usLength + 1 /\ tty_tx_index >= 2 * cur + 1 /\ tty_tx_index + 1 = 2 * cur + 2
      BY <1>3, <2>2, <2>5, <3>2
    <3>4. Longer(ucRTUBuf[cur] \div 16)
      <4>1. ucRTUBuf[cur] \div 16 \in Nat
        BY <1>3, <3>3
      <4> QED BY <2>3, <3>1, <4>1
    <3>5. Put16(cur)'
      BY <1>1, <2>4, <3>1, <3>3, <3>4 DEF Put16
    <3>6. tty_tx_index' = 2 * cur + 2 /\ tty_tx_buffer'[tty_tx_index'] = ucRTUBuf[cur] \div 16
      BY <3>3, <3>4 DEF Longer
    <3>7. tty_tx_buffer' \in Seq(Nat) /\ tty_tx_index' = Len(tty_tx_buffer')
      BY <3>4 DEF Longer
    <3> QED BY <1>1, <1>2, <1>3, <2>2, <2>5, <3>1, <3>5, <3>6, <3>7 DEF Spelled
  <2>6. CASE eSndState = "TX_DATA" /\ usSndBufferCount > 0 /\ eBytePos = "LOW"
    <3>1. /\ Puts(ucRTUBuf[cur] % 16) /\ eBytePos' = "HIGH" /\ eSndState' = "TX_DATA"
          /\ pucSndBufferCur' = cur + 1 /\ usSndBufferCount' = usSndBufferCount - 1
      BY <2>6 DEF xMBASCIITransmitFSM, PutsDigit
    <3>2. tty_tx_index = 2 * cur + 2 /\ tty_tx_buffer[tty_tx_index] = ucRTUBuf[cur] \div 16
      BY <2>1, <2>6 DEF Spelled
    <3>3. /\ cur \in 0 .. usLength + 1 /\ tty_tx_index >= 2 * cur + 1
          /\ tty_tx_index \in 1 .. tty_tx_index /\ 2 * (cur + 1) = tty_tx_index
          /\ 2 * (cur + 1) + 1 = tty_tx_index + 1 /\ (cur + 1) - 1 = cur
          /\ \A i \in 1 .. cur + 1 : i \in 1 .. cur \/ i = cur + 1
          /\ cur + 1 \in 0 .. usLength + 2 /\ usSndBufferCount' = usLength + 2 - (cur + 1)
      BY <1>3, <2>2, <2>6, <3>1, <3>2
    <3>4. Longer(ucRTUBuf[cur] % 16)
      <4>1. ucRTUBuf[cur] % 16 \in Nat
        BY <1>3, <3>3
      <4> QED BY <2>3, <3>1, <4>1
    <3>5. /\ tty_tx_buffer'[2 * (cur + 1)] = ucRTUBuf[cur] \div 16
          /\ tty_tx_buffer'[2 * (cur + 1) + 1] = ucRTUBuf[cur] % 16
      BY <3>2, <3>3, <3>4 DEF Longer
    <3>6. /\ tty_tx_buffer'[1] = COLON
          /\ \A i \in 1 .. cur + 1 : /\ tty_tx_buffer'[2 * i] = ucRTUBuf[i - 1] \div 16
                                     /\ tty_tx_buffer'[2 * i + 1] = ucRTUBuf[i - 1] % 16
      <4>1. /\ tty_tx_buffer'[1] = COLON
            /\ \A i \in 1 .. cur : /\ tty_tx_buffer'[2 * i] = ucRTUBuf[i - 1] \div 16
                                   /\ tty_tx_buffer'[2 * i + 1] = ucRTUBuf[i - 1] % 16
        BY <2>4, <3>3, <3>4
      <4> QED BY <3>3, <3>5, <4>1
    <3>7. ASSUME NEW n, n = cur + 1 PROVE Put16(n)'
      BY <1>1, <3>6, <3>7 DEF Put16
    <3>8. Put16(pucSndBufferCur)'
      BY <1>1, <3>1, <3>6 DEF Put16
    <3>9. tty_tx_buffer' \in Seq(Nat) /\ tty_tx_index' = Len(tty_tx_buffer') /\ tty_tx_index' = 2 * (cur + 1) + 1
      BY <3>3, <3>4 DEF Longer
    <3> QED BY <1>1, <1>2, <3>1, <3>3, <3>8, <3>9 DEF Spelled
  <2>7. CASE eSndState = "TX_DATA" /\ usSndBufferCount = 0
    <3>1. /\ Puts(CR) /\ eSndState' = "TX_END" /\ UNCHANGED <<usSndBufferCount, pucSndBufferCur>>
      BY <2>7 DEF xMBASCIITransmitFSM
    <3>2. tty_tx_index = 2 * cur + 1
      BY <2>1, <2>7 DEF Spelled
    <3>3. /\ tty_tx_index >= 2 * cur + 1 /\ tty_tx_index + 1 = 2 * cur + 2 /\ cur \in 0 .. usLength + 2
      BY <1>3, <2>2, <2>7, <3>2
    <3>4. Longer(CR)
      BY <1>3, <2>3, <3>1
    <3>5. Put16(cur)'
      BY <1>1, <2>4, <3>1, <3>3, <3>4 DEF Put16
    <3>6. /\ tty_tx_index' = 2 * cur + 2 /\ tty_tx_buffer'[2 * cur + 2] = CR
          /\ tty_tx_buffer' \in Seq(Nat) /\ tty_tx_index' = Len(tty_tx_buffer')
      BY <3>3, <3>4 DEF Longer
    <3> QED BY <1>1, <1>2, <2>2, <2>7, <3>1, <3>3, <3>5, <3>6 DEF Spelled
  <2>8. CASE eSndState = "TX_END"
    <3>1. /\ Puts(LF) /\ eSndState' = "TX_NOTIFY" /\ UNCHANGED <<usSndBufferCount, pucSndBufferCur>>
      BY <2>8 DEF xMBASCIITransmitFSM
    <3>2. tty_tx_index = 2 * cur + 2 /\ usSndBufferCount = 0 /\ tty_tx_buffer[2 * cur + 2] = CR
      BY <2>1, <2>8 DEF Spelled
    <3>3. /\ tty_tx_index >= 2 * cur + 1 /\ tty_tx_index + 1 = 2 * cur + 3 /\ cur \in 0 .. usLength + 2
          /\ 2 * cur + 2 \in 1 .. tty_tx_index
      BY <1>3, <2>2, <3>2
    <3>4. Longer(LF)
      BY <1>3, <2>3, <3>1
    <3>5. Put16(cur)'
      BY <1>1, <2>4, <3>1, <3>3, <3>4 DEF Put16
    <3>6. /\ tty_tx_index' = 2 * cur + 3 /\ tty_tx_buffer'[tty_tx_index'] = LF
          /\ tty_tx_buffer'[2 * cur + 2] = CR
          /\ tty_tx_buffer' \in Seq(Nat) /\ tty_tx_index' = Len(tty_tx_buffer')
      BY <3>2, <3>3, <3>4 DEF Longer
    <3> QED BY <1>1, <1>2, <2>2, <3>1, <3>2, <3>3, <3>5, <3>6 DEF Spelled
  <2>9. usSndBufferCount > 0 \/ usSndBufferCount = 0
    BY <1>3, <2>2
  <2> QED BY <1>1, <1>5, <2>5, <2>6, <2>7, <2>8, <2>9 DEF AsciiTypes
<1> QED BY <1>4, <1>5

\* The transmit thread.
LEMMA AsciiTransmits == AsciiInv /\ AsciiTx => AsciiInv'
<1> SUFFICES ASSUME AsciiInv, AsciiTx PROVE AsciiInv'
  OBVIOUS
<1>1. AsciiTypes /\ Sending /\ line \in Seq(Nat)
  BY DEF AsciiInv, AsciiTypes
<1>2. CASE TxAborts /\ UNCHANGED ascii
  <2>1. Aborts /\ UNCHANGED <<line, rx, ucByte, overrun>> /\ tx = "loop" /\ eRcvState # "IDLE"
    BY <1>2 DEF TxAborts, line_vars
  <2>2. overrun
    BY <2>1 DEF AsciiInv, AsciiSafe, AsciiUnsent, Receiving
  <2> QED BY <1>1, <1>2, <2>1, <2>2, AsciiFails
<1>3. CASE xMBASCIITransmitFSM
  <2>1. /\ UNCHANGED <<eRcvState, ucRTUBuf, usRcvBufferPos, timer, handler, ucRcvAddress, usLength,
                       regs, executed, aborted, expected, overrun, text, mishaps, line, rx, ucByte,
                       queue, tx, tx_check_semaphore>>
        /\ tx = "loop" /\ eRcvState = "IDLE" /\ eBytePos' \in {eBytePos, "HIGH", "LOW"}
        /\ eSndState' \in {"TX_IDLE", "TX_START", "TX_DATA", "TX_END", "TX_NOTIFY"}
    BY <1>3 DEF xMBASCIITransmitFSM, PutsDigit, buffer, poll_vars, line_vars
  <2>2. Sending' /\ tx_check_semaphore' \in Nat
    BY <1>1, <2>1 DEF Sending, AsciiTypes, PortTypes
  <2>3. ASSUME AsciiSafe PROVE Transmits' /\ Free(queue) /\ ~Receiving
    <3>1. AnswerInBuffer' /\ Spelled' /\ eSndState' # "TX_IDLE" /\ eSndState' # "TX_START"
      BY <1>1, <1>3, <2>3, Spells DEF AsciiSafe
    <3>2. tx_check_semaphore = 0
      BY <1>3, <2>3 DEF AsciiSafe, Transmits, xMBASCIITransmitFSM
    <3>3. Transmits'
      BY <2>1, <3>1, <3>2 DEF Transmits
    <3> QED BY <2>1, <2>3, <3>3 DEF AsciiSafe, AsciiUnsent
  <2> QED BY <1>1, <2>1, <2>2, <2>3, AsciiMoves DEF AsciiTypes
<1>4. CASE Notifies \/ (~TxAborts /\ (TxWake \/ TxIdles \/ TxWrites \/ TxSpins) /\ UNCHANGED ascii)
  <2>1. /\ UNCHANGED <<eRcvState, ucRTUBuf, usRcvBufferPos, timer, handler, ucRcvAddress, usLength,
                       regs, executed, aborted, expected, overrun, text, mishaps, line, rx, ucByte,
                       eBytePos, pucSndBufferCur, tty_tx_buffer, usSndBufferCount>>
        /\ queue' = queue \/ queue' = Append(queue, "FRAME_SENT")
    BY <1>4 DEF Notifies, TxWake, TxIdles, TxWrites, TxSpins, buffer, poll_vars, line_vars, ascii
  <2>2. \/ /\ tx = "wait" /\ tx' = "loop" /\ UNCHANGED <<eSndState, tty_tx_index>>
           /\ tx_check_semaphore > 0 /\ tx_check_semaphore' = tx_check_semaphore - 1
        \/ /\ tx = "loop" /\ tx' = "posted" /\ eSndState = "TX_NOTIFY" /\ eSndState' = "TX_IDLE"
           /\ UNCHANGED tx_check_semaphore
        \/ tx = "posted" /\ tx' = "write" /\ eSndState' = "TX_IDLE" /\ UNCHANGED tx_check_semaphore
        \/ /\ tx = "write" /\ tx' = "wait" /\ UNCHANGED <<eSndState, tx_check_semaphore, tty_tx_index>>
        \/ tx = "loop" /\ eSndState = "TX_IDLE" /\ UNCHANGED <<tx, eSndState, tx_check_semaphore>>
    BY <1>4 DEF Notifies, TxWake, TxIdles, TxWrites, TxSpins
  <2>3. /\ tx' \in {"wait", "loop", "posted", "write"} /\ tx_check_semaphore' \in Nat
        /\ eSndState' \in {"TX_IDLE", "TX_START", "TX_DATA", "TX_END", "TX_NOTIFY"} /\ Sending'
    BY <1>1, <2>2 DEF AsciiTypes, PortTypes, Sending
  <2>4. ASSUME AsciiSafe
        PROVE  /\ Transmits'
               /\ Receiving \/ ~Free(queue) => tx' = "wait" /\ tx_check_semaphore' = 0
    <3>1. /\ Receiving \/ ~Free(queue) => tx = "wait" /\ tx_check_semaphore = 0
          /\ Transmits /\ tx_check_semaphore \in Nat
          /\ eSndState \in {"TX_IDLE", "TX_START", "TX_DATA", "TX_END", "TX_NOTIFY"}
      BY <1>1, <2>4 DEF AsciiSafe, AsciiUnsent, AsciiTypes, PortTypes
    <3>2. CASE /\ tx = "wait" /\ tx' = "loop" /\ UNCHANGED <<eSndState, tty_tx_index>>
               /\ tx_check_semaphore > 0 /\ tx_check_semaphore' = tx_check_semaphore - 1
      <4>1. /\ eSndState = "TX_START" /\ AnswerInBuffer /\ tty_tx_index = 0 /\ pucSndBufferCur = 0
            /\ usSndBufferCount = usLength + 2 /\ tx_check_semaphore = 1
        BY <3>1, <3>2 DEF Transmits
      <4>2. AnswerInBuffer'
        BY <2>1, <4>1 DEF AnswerInBuffer
      <4> QED BY <2>1, <3>1, <3>2, <4>1, <4>2 DEF Transmits
    <3>3. CASE /\ tx = "loop" /\ tx' = "posted" /\ eSndState = "TX_NOTIFY" /\ eSndState' = "TX_IDLE"
               /\ UNCHANGED tx_check_semaphore
      <4>1. tx_check_semaphore = 0
        BY <3>1, <3>3 DEF Transmits
      <4> QED BY <3>1, <3>3, <4>1 DEF Transmits
    <3>4. CASE tx = "posted" /\ tx' = "write" /\ eSndState' = "TX_IDLE" /\ UNCHANGED tx_check_semaphore
      <4>1. eSndState = "TX_IDLE" /\ tx_check_semaphore = 0
        BY <3>1, <3>4 DEF Transmits
      <4> QED BY <3>1, <3>4, <4>1 DEF Transmits
    <3>5. CASE tx = "write" /\ tx' = "wait" /\ UNCHANGED <<eSndState, tx_check_semaphore, tty_tx_index>>
      <4>1. eSndState = "TX_IDLE" /\ tx_check_semaphore = 0
        BY <3>1, <3>5 DEF Transmits
      <4> QED BY <3>1, <3>5, <4>1 DEF Transmits
    <3>6. ~(tx = "loop" /\ eSndState = "TX_IDLE")
      BY <3>1 DEF Transmits
    <3> QED BY <2>2, <3>2, <3>3, <3>4, <3>5, <3>6
  <2> QED BY <2>1, <2>3, <2>4, AsciiMoves
<1> QED BY <1>2, <1>3, <1>4 DEF AsciiTx

-----------------------------------------------------------------------------
\* The frame is looked at: what is to be executed then is what it asks for.
LEMMA AsciiPollReceives == AsciiInv /\ AsciiPollReceived => AsciiInv'
<1> SUFFICES ASSUME AsciiInv, AsciiPollReceived PROVE AsciiInv'
  OBVIOUS
<1>1. /\ Run /\ handler = "no" /\ queue # <<>> /\ Head(queue) = "FRAME_RECEIVED"
      /\ UNCHANGED <<overrun, line, rx, ucByte, ascii>>
  BY DEF AsciiPollReceived, line_vars
<1>2. /\ AsciiTypes /\ line \in Seq(Nat) /\ queue \in Seq(Events) /\ usRcvBufferPos \in Nat
      /\ MB_SER_PDU_SIZE_MAX \in Nat
  BY FrameAssumption DEF FrameAssumption, AsciiInv, AsciiTypes, PortTypes
<1>3. CASE usRcvBufferPos >= MB_SER_PDU_SIZE_MAX /\ Aborts
  <2>1. ~overrun => usRcvBufferPos = MB_SER_PDU_SIZE_MAX
    BY <1>2, <1>3 DEF AsciiInv, AsciiSafe, Room
  <2> QED BY <1>1, <1>2, <1>3, <2>1, AsciiFails
<1>4. CASE usRcvBufferPos < MB_SER_PDU_SIZE_MAX /\ ~Aborts
  <2>1. /\ Accepted => ucRcvAddress' = ucRTUBuf[0] /\ usLength' = usRcvBufferPos - 2
        /\ ~Accepted => UNCHANGED usLength
        /\ queue' = IF Accepted /\ Ours(ucRTUBuf[0]) THEN Append(Tail(queue), "EXECUTE")
                    ELSE Tail(queue)
        /\ UNCHANGED <<eRcvState, eSndState, ucRTUBuf, usRcvBufferPos, timer, handler, regs, executed,
                       usSndBufferCount, tx_check_semaphore, tty_tx_index, tx, aborted, expected>>
    BY <1>4 DEF AsciiPollReceived, buffer, tx_vars
  <2>2. UNCHANGED <<eBytePos, pucSndBufferCur, tty_tx_buffer, text, mishaps>>
    BY <1>1 DEF ascii
  <2>3. Accepted => usLength' \in 1 .. MB_SER_PDU_SIZE_MAX - 3
    BY <1>2, <1>4, <2>1 DEF Accepted, MB_ASCII_PDU_SIZE_MIN
  <2>4. usLength' \in Nat
    BY <1>2, <2>1, <2>3 DEF AsciiTypes
  <2>5. /\ Tail(queue) \in Seq(Events) /\ Has(queue, "FRAME_RECEIVED") /\ "EXECUTE" \in Events
        /\ Alone(queue) => Free(Tail(queue)) /\ Alone(Tail(queue))
    BY <1>1, <1>2, EventTaken DEF Handled, Events
  <2>6. queue' \in Seq(Events)
    BY <2>1, <2>5, EventPosted
  <2>7. AsciiTypes' /\ Sending' /\ AsciiAborts' /\ AsciiTimed'
    <3>1. AsciiTypes'
      BY <1>1, <1>2, <2>1, <2>2, <2>4, <2>6 DEF AsciiTypes, PortTypes, RxByte
    <3>2. Sending' /\ AsciiAborts' /\ AsciiTimed'
      BY <1>1, <2>1, <2>2 DEF AsciiInv, Sending, AsciiAborts, AsciiTimed, RxState
    <3> QED BY <3>1, <3>2
  <2>8. ASSUME AsciiSafe PROVE AsciiSafe'
    <3>1. /\ Free(Tail(queue)) /\ Alone(Tail(queue)) /\ eRcvState = "IDLE" /\ rx = "no" /\ tx = "wait"
          /\ tx_check_semaphore = 0
      <4>1. ~Free(queue)
        BY <2>5 DEF Free, Handled
      <4> QED BY <2>5, <2>8, <4>1 DEF AsciiSafe, AsciiUnsent, Receiving
    <3>2. /\ Alone(queue') /\ ~Has(queue', "FRAME_RECEIVED")
          /\ Has(queue', "EXECUTE") <=> Accepted /\ Ours(ucRTUBuf[0])
          /\ Free(queue') <=> ~(Accepted /\ Ours(ucRTUBuf[0]))
      <4>1. ~Has(Tail(queue), "FRAME_RECEIVED") /\ ~Has(Tail(queue), "EXECUTE")
        BY <3>1 DEF Free, Handled
      <4>2. CASE Accepted /\ Ours(ucRTUBuf[0])
        <5>1. queue' = Append(Tail(queue), "EXECUTE")
          BY <2>1, <4>2
        <5>2. Alone(queue') /\ ~Has(queue', "FRAME_RECEIVED") /\ Has(queue', "EXECUTE")
          BY <2>5, <3>1, <4>1, <5>1, EventPosted
        <5> QED BY <4>2, <5>2 DEF Free, Handled
      <4>3. CASE ~(Accepted /\ Ours(ucRTUBuf[0]))
        BY <2>1, <3>1, <4>1, <4>3
      <4> QED BY <4>2, <4>3
    <3>3. Typed' /\ Room' /\ RxState'
      BY <1>1, <2>1, <2>2, <2>8 DEF AsciiSafe, Typed, Written, Was, Begun, Stored, Digits, Room, RxState
    <3>4. Transmits'
      <4>1. eSndState = "TX_IDLE"
        BY <2>8, <3>1 DEF AsciiSafe, Transmits
      <4> QED BY <2>1, <3>1, <4>1 DEF Transmits
    <3>5. ASSUME "misread" \notin mishaps' PROVE AsciiFrame' /\ Lists'
      <4>1. expected = AsciiNow /\ Lists
        BY <2>2, <2>5, <2>8, <3>5 DEF AsciiSafe, AsciiFrame
      <4>2. Lists'
        BY <2>1, <4>1 DEF Lists
      <4>3. CASE Accepted /\ Ours(ucRTUBuf[0])
        <5>1. PDU' = <<ucRTUBuf[0], [i \in 1 .. usRcvBufferPos - 2 |-> ucRTUBuf[i]]>>
          BY <2>1, <4>3 DEF PDU
        <5>2. expected' = Append(executed', PDU')
          BY <2>1, <4>1, <4>3, <5>1 DEF AsciiNow
        <5> QED BY <3>2, <4>2, <4>3, <5>2 DEF AsciiFrame
      <4>4. CASE ~(Accepted /\ Ours(ucRTUBuf[0]))
        <5>1. expected' = executed'
          BY <2>1, <4>1, <4>4 DEF AsciiNow
        <5> QED BY <3>2, <4>2, <4>4, <5>1 DEF AsciiFrame
      <4> QED BY <4>3, <4>4
    <3>6. Has(queue', "EXECUTE") => usLength' \in 1 .. MB_SER_PDU_SIZE_MAX - 3
      BY <2>3, <3>2
    <3> QED BY <1>1, <2>1, <3>1, <3>2, <3>3, <3>4, <3>5, <3>6 DEF AsciiSafe, AsciiUnsent, Receiving
  <2> QED BY <1>1, <2>7, <2>8 DEF AsciiInv
<1>5. \/ usRcvBufferPos < MB_SER_PDU_SIZE_MAX /\ aborted' = aborted
      \/ usRcvBufferPos >= MB_SER_PDU_SIZE_MAX /\ Aborts
  BY DEF AsciiPollReceived
<1>6. aborted' = aborted => ~Aborts
  BY <1>1 DEF Run, Aborts
<1> QED BY <1>3, <1>4, <1>5, <1>6

-----------------------------------------------------------------------------
\* The answer with its address and its checksum.
Addressed(buf) == [buf EXCEPT ![0] = ucMBAddress]
Summed(buf, len) ==
    [Addressed(buf) EXCEPT ![len + 1] = prvucMBLRC([i \in 1 .. len + 1 |-> Addressed(buf)[i - 1]])]

\* Where the address and the checksum of an answer are.
LEMMA SummedIs ==
    ASSUME NEW buf \in [0 .. MB_SER_PDU_SIZE_MAX - 1 -> Byte], NEW len \in Nat
    PROVE  /\ Summed(buf, len) \in [0 .. MB_SER_PDU_SIZE_MAX - 1 -> Byte]
           /\ len + 2 <= MB_SER_PDU_SIZE_MAX =>
                  /\ Summed(buf, len)[0] = ucMBAddress
                  /\ Summed(buf, len)[len + 1]
                         = prvucMBLRC([i \in 1 .. len + 1 |-> Summed(buf, len)[i - 1]])
<1> DEFINE D == 0 .. MB_SER_PDU_SIZE_MAX - 1
           a == Addressed(buf)
           s == [i \in 1 .. len + 1 |-> a[i - 1]]
           f == Summed(buf, len)
<1>1. /\ MB_SER_PDU_SIZE_MAX \in Nat /\ MB_SER_PDU_SIZE_MAX > 4 /\ ucMBAddress \in Byte
  <2>1. MB_SER_PDU_SIZE_MAX \in Nat /\ MB_SER_PDU_SIZE_MAX > 4
    BY FrameAssumption DEF FrameAssumption, MB_SER_PDU_SIZE_MIN
  <2>2. ucMBAddress \in Nat /\ ucMBAddress < 256
    BY FrameAssumption DEF FrameAssumption
  <2> QED BY <2>1, <2>2, ByteIs
<1>2. a \in [D -> Byte] /\ a[0] = ucMBAddress /\ 0 \in D
  BY <1>1 DEF Addressed
<1>3. f = [a EXCEPT ![len + 1] = prvucMBLRC(s)]
  BY DEF Summed
<1>4. ASSUME len + 2 <= MB_SER_PDU_SIZE_MAX
      PROVE  /\ f \in [D -> Byte] /\ f[0] = ucMBAddress
             /\ f[len + 1] = prvucMBLRC([i \in 1 .. len + 1 |-> f[i - 1]])
  <2>1. len + 1 \in D /\ \A i \in 1 .. len + 1 : i - 1 \in D /\ i - 1 # len + 1
    BY <1>1, <1>4
  <2> HIDE DEF a, f, D
  <2>2. s \in Seq(Byte)
    <3>1. \A i \in 1 .. len + 1 : a[i - 1] \in Byte
      BY <1>2, <2>1
    <3> QED BY <3>1
  <2> HIDE DEF s
  <2>3. prvucMBLRC(s) \in Byte
    BY <2>2, SumIs
  <2>4. f \in [D -> Byte] /\ f[len + 1] = prvucMBLRC(s) /\ \A i \in 1 .. len + 1 : f[i - 1] = a[i - 1]
    BY <1>2, <1>3, <2>1, <2>3
  <2>5. [i \in 1 .. len + 1 |-> f[i - 1]] = s
    BY <2>4 DEF s
  <2>6. f[0] = a[0]
    BY <1>2, <1>3
  <2> QED BY <1>2, <2>4, <2>5, <2>6
<1>5. ASSUME ~(len + 2 <= MB_SER_PDU_SIZE_MAX) PROVE f \in [D -> Byte]
  <2>1. len + 1 \notin D
    BY <1>1, <1>5
  <2> HIDE DEF a, f, D, s
  <2>2. f = a
    BY <1>2, <1>3, <2>1
  <2> QED BY <1>2, <2>2
<1> QED BY <1>4, <1>5

\* The answer fits into the buffer, its address and checksum too.
LEMMA AnswerIs ==
    ASSUME AsciiTypes, NEW result, Served(ucRTUBuf, usLength, result)
    PROVE  /\ Answer(result).buf \in [0 .. MB_SER_PDU_SIZE_MAX - 1 -> Byte] /\ Answer(result).len \in Nat
           /\ usLength \in 1 .. MB_SER_PDU_SIZE_MAX - 3
                  => Answer(result).len \in 1 .. MB_SER_PDU_SIZE_MAX - 2
<1> DEFINE D == 0 .. MB_SER_PDU_SIZE_MAX - 1
           error == <<128 + (ucRTUBuf[1] % 128), result.exception>>
<1>1. /\ MB_SER_PDU_SIZE_MAX \in Nat /\ MB_SER_PDU_SIZE_MAX > 4 /\ usLength \in Nat
      /\ BIT_NREGS \in Nat /\ WORD_NREGS \in Nat
  BY FrameAssumption, TableAssumption DEF FrameAssumption, TableAssumption, MB_SER_PDU_SIZE_MIN, AsciiTypes
<1>2. ucRTUBuf \in [D -> Byte] /\ DOMAIN ucRTUBuf = D /\ 1 \in D
  BY <1>1 DEF AsciiTypes
<1>3. /\ result.exception \in 0 .. 3 /\ result.buf \in [D -> Byte] /\ result.len \in Nat
      /\ (usLength > 0 => result.len > 0)
      /\ (result.exception = NONE => Fits(result.len, usLength))
  BY <1>2 DEF Served
<1>4. CASE result.exception = NONE
  <2>1. Answer(result) = result
    BY <1>4 DEF Answer
  <2>2. ASSUME usLength \in 1 .. MB_SER_PDU_SIZE_MAX - 3
        PROVE  result.len \in 1 .. MB_SER_PDU_SIZE_MAX - 2
    <3>1. /\ result.len > 0 /\ result.len <= 252
          /\ result.len <= usLength \/ result.len <= 2 + BIT_NREGS \/ result.len <= 2 + 2 * WORD_NREGS
      BY <1>3, <1>4, <2>2 DEF Fits
    <3>2. \/ MB_SER_PDU_SIZE_MAX >= 254
          \/ 4 + BIT_NREGS <= MB_SER_PDU_SIZE_MAX /\ 4 + 2 * WORD_NREGS <= MB_SER_PDU_SIZE_MAX
      <4>1. \/ MB_SER_PDU_SIZE_MAX >= 254
            \/ /\ 4 + BIT_NREGS \in 0 .. MB_SER_PDU_SIZE_MAX
               /\ 4 + 2 * WORD_NREGS \in 0 .. MB_SER_PDU_SIZE_MAX
        BY AnswerAssumption DEF AnswerAssumption
      <4> QED BY <1>1, <4>1
    <3> QED BY <1>1, <1>3, <2>2, <3>1, <3>2
  <2> QED BY <1>3, <2>1, <2>2
<1>5. CASE result.exception # NONE
  <2>1. Answer(result) = [result EXCEPT !.len = 2, !.buf = Put(@, 1, error)]
    BY <1>5 DEF Answer
  <2>2. error \in Seq(Byte)
    <3>1. ucRTUBuf[1] \in Nat
      BY <1>2, ByteIs
    <3>2. 128 + (ucRTUBuf[1] % 128) \in Nat /\ 128 + (ucRTUBuf[1] % 128) < 256
      BY <3>1
    <3>3. result.exception \in Nat /\ result.exception < 256
      BY <1>3
    <3>4. 128 + (ucRTUBuf[1] % 128) \in Byte /\ result.exception \in Byte
      BY <3>2, <3>3, ByteIs
    <3> QED BY <3>4
  <2> HIDE DEF error, D
  <2>3. Put(result.buf, 1, error) \in [D -> Byte]
    BY <1>3, <2>2, PutIs
  <2> DEFINE new == Put(result.buf, 1, error)
  <2> HIDE DEF new
  <2>4. Answer(result) = [result EXCEPT !.len = 2, !.buf = new]
    BY <2>1 DEF new
  <2>5. new \in [D -> Byte]
    BY <2>3 DEF new
  <2>6. Answer(result).len = 2 /\ Answer(result).buf = new
    BY <2>4
  <2> QED BY <1>1, <2>5, <2>6 DEF D
<1> QED BY <1>4, <1>5

\* The frame is executed, and answered, unless it is a broadcast.
LEMMA AsciiExecutes == AsciiInv /\ AsciiPollExecute => AsciiInv'
<1> SUFFICES ASSUME AsciiInv, AsciiPollExecute PROVE AsciiInv'
  OBVIOUS
<1>1. AsciiTypes /\ queue \in Seq(Events) /\ ucRTUBuf \in [DOMAIN ucRTUBuf -> Byte]
      /\ usLength \in Nat /\ regs \in Tables /\ DOMAIN ucRTUBuf = 0 .. MB_SER_PDU_SIZE_MAX - 1
  BY DEF AsciiInv, AsciiTypes, PortTypes
<1> DEFINE result == Handle(ucRTUBuf, usLength, regs)
           answer == Answer(result)
<1>2. Served(ucRTUBuf, usLength, result)
  BY <1>1, HandleIs
<1>3. /\ Executing /\ Executes(result)
      /\ \/ Unanswered(result)
         \/ Answered(answer) /\ eMBASCIISend(answer.buf, answer.len)
      /\ pucSndBufferCur' = IF eSndState' = "TX_START" THEN 0 ELSE pucSndBufferCur
      /\ UNCHANGED <<eBytePos, tty_tx_buffer, text, mishaps>>
  BY DEF AsciiPollExecute
<1>4. /\ answer.buf \in [0 .. MB_SER_PDU_SIZE_MAX - 1 -> Byte] /\ answer.len \in Nat
      /\ usLength \in 1 .. MB_SER_PDU_SIZE_MAX - 3 => answer.len \in 1 .. MB_SER_PDU_SIZE_MAX - 2
      /\ result.buf \in [0 .. MB_SER_PDU_SIZE_MAX - 1 -> Byte] /\ result.len \in Nat
      /\ result.regs \in Tables
  BY <1>1, <1>2, AnswerIs DEF Served
<1> HIDE DEF result, answer
<1>5. /\ Run /\ handler = "no" /\ queue # <<>> /\ Head(queue) = "EXECUTE"
      /\ queue' = Tail(queue) /\ executed' = Append(executed, PDU) /\ regs' = result.regs
      /\ UNCHANGED <<line, rx, ucByte, eRcvState, usRcvBufferPos, timer, handler, ucRcvAddress, tx,
                     aborted, expected, overrun>>
  BY <1>3 DEF Executing, Executes, PDU, line_vars
<1>6. \/ /\ usLength' = result.len /\ ucRTUBuf' = result.buf
         /\ UNCHANGED <<usSndBufferCount, eSndState, tty_tx_index, tx_check_semaphore>>
      \/ /\ eRcvState = "IDLE" /\ usLength' = answer.len /\ ucRTUBuf' = Summed(answer.buf, answer.len)
         /\ usSndBufferCount' = answer.len + 2 /\ eSndState' = "TX_START" /\ tty_tx_index' = 0
         /\ tx_check_semaphore' = tx_check_semaphore + 1
      \/ /\ eRcvState # "IDLE" /\ usLength' = answer.len /\ ucRTUBuf' = answer.buf
         /\ UNCHANGED <<usSndBufferCount, eSndState, tty_tx_index, tx_check_semaphore>>
  BY <1>3 DEF Unanswered, Answered, eMBASCIISend, Summed, Addressed
<1>7. /\ queue' \in Seq(Events) /\ Has(queue, "EXECUTE")
      /\ Alone(queue) => Alone(queue') /\ Free(queue')
  BY <1>1, <1>5, EventTaken DEF Handled
<1>8. AsciiTypes'
  <2>1. /\ ucRTUBuf' \in [0 .. MB_SER_PDU_SIZE_MAX - 1 -> Byte] /\ usLength' \in Nat
    BY <1>4, <1>6, SummedIs
  <2>2. /\ eSndState' \in {"TX_IDLE", "TX_START", "TX_DATA", "TX_END", "TX_NOTIFY"}
        /\ tx_check_semaphore' \in Nat
    BY <1>1, <1>6 DEF AsciiTypes, PortTypes
  <2> QED BY <1>1, <1>3, <1>4, <1>5, <1>7, <2>1, <2>2 DEF AsciiTypes, PortTypes, RxByte
<1>9. Sending' /\ AsciiAborts' /\ AsciiTimed'
  <2>1. Sending'
    BY <1>1, <1>5, <1>6 DEF AsciiInv, Sending, AsciiTypes, PortTypes
  <2> QED BY <1>3, <1>5, <2>1 DEF AsciiInv, AsciiAborts, AsciiTimed, RxState
<1>10. ASSUME AsciiSafe PROVE AsciiSafe'
  <2>1. /\ Alone(queue') /\ Free(queue') /\ eRcvState = "IDLE" /\ rx = "no" /\ tx = "wait"
        /\ tx_check_semaphore = 0 /\ usLength \in 1 .. MB_SER_PDU_SIZE_MAX - 3
    <3>1. ~Free(queue)
      BY <1>7 DEF Free, Handled
    <3> QED BY <1>7, <1>10, <3>1 DEF AsciiSafe, AsciiUnsent, Receiving
  <2>2. Typed' /\ Room' /\ RxState'
    BY <1>3, <1>5, <1>10, <2>1 DEF AsciiSafe, Typed, Written, Was, Cleared, Room, RxState
  <2>3. eSndState = "TX_IDLE"
    BY <1>10, <2>1 DEF AsciiSafe, Transmits
  <2>4. Transmits'
    <3>1. CASE eSndState' = eSndState /\ tx_check_semaphore' = tx_check_semaphore
      BY <1>5, <2>1, <2>3, <3>1 DEF Transmits
    <3>2. CASE /\ usLength' = answer.len /\ ucRTUBuf' = Summed(answer.buf, answer.len)
               /\ usSndBufferCount' = answer.len + 2 /\ eSndState' = "TX_START" /\ tty_tx_index' = 0
               /\ tx_check_semaphore' = tx_check_semaphore + 1
      <4>1. /\ answer.len \in 1 .. MB_SER_PDU_SIZE_MAX - 2 /\ MB_SER_PDU_SIZE_MAX \in Nat
            /\ answer.len + 2 <= MB_SER_PDU_SIZE_MAX
        BY <1>4, <2>1, FrameAssumption DEF FrameAssumption
      <4>2. /\ Summed(answer.buf, answer.len)[0] = ucMBAddress
            /\ Summed(answer.buf, answer.len)[answer.len + 1]
                   = prvucMBLRC([i \in 1 .. answer.len + 1 |-> Summed(answer.buf, answer.len)[i - 1]])
        BY <1>4, <4>1, SummedIs
      <4>3. AnswerInBuffer'
        BY <3>2, <4>1, <4>2 DEF AnswerInBuffer
      <4>4. pucSndBufferCur' = 0 /\ tx_check_semaphore' = 1 /\ tx' = "wait"
        BY <1>3, <1>5, <2>1, <3>2
      <4> QED BY <3>2, <4>3, <4>4 DEF Transmits
    <3> QED BY <1>6, <3>1, <3>2
  <2>5. ASSUME "misread" \notin mishaps' PROVE AsciiFrame' /\ Lists'
    <3>1. expected = Append(executed, PDU) /\ Lists
      BY <1>3, <1>7, <1>10, <2>5 DEF AsciiSafe, AsciiFrame
    <3>2. expected' = executed' /\ Lists'
      BY <1>5, <3>1 DEF Lists
    <3> QED BY <2>1, <3>2 DEF AsciiFrame, Free, Handled
  <2>6. ~Has(queue', "EXECUTE")
    BY <2>1 DEF Free, Handled
  <2> QED BY <1>5, <2>1, <2>2, <2>4, <2>5, <2>6 DEF AsciiSafe, AsciiUnsent, Receiving
<1> QED BY <1>5, <1>8, <1>9, <1>10 DEF AsciiInv

\* Every step keeps the invariant.
LEMMA AsciiSteps == AsciiInv /\ [AsciiNext]_asciiVars => AsciiInv'
<1> SUFFICES ASSUME AsciiInv, [AsciiNext]_asciiVars PROVE AsciiInv'
  OBVIOUS
<1>1. CASE AsciiReceiver
  <2>1. line \in Seq(Nat)
    BY DEF AsciiInv, AsciiTypes
  <2> QED BY <1>1, <2>1, AsciiChar, AsciiReceives DEF AsciiReceiver, AsciiReceive
<1>2. ASSUME NEW t \in Texts, BeginText(t) PROVE AsciiInv'
  <2>1. t \in Seq(Nat) /\ t # <<>>
    <3>1. Digit \cup {COLON, CR, LF, STRAY} \subseteq Nat
      BY DEF Digit, COLON, CR, LF, STRAY
    <3> DEFINE S == Digit \cup {COLON, CR, LF, STRAY}
    <3>2. t \in Seq(S) /\ t # <<>>
      BY TextAssumption DEF TextAssumption
    <3> HIDE DEF S
    <3>3. Len(t) \in Nat /\ DOMAIN t = 1 .. Len(t) /\ \A i \in 1 .. Len(t) : t[i] \in S
      BY <3>2
    <3>4. t = [i \in 1 .. Len(t) |-> t[i]]
      BY <3>2
    <3>5. [i \in 1 .. Len(t) |-> t[i]] \in Seq(Nat)
      BY <3>1, <3>3 DEF S
    <3> QED BY <3>2, <3>4, <3>5
  <2> QED BY <1>2, <2>1, AsciiChar DEF BeginText
<1>3. CASE UNCHANGED asciiVars
  <2>1. UNCHANGED <<line, eRcvState, eSndState, ucRTUBuf, usRcvBufferPos, timer, handler, queue,
                    ucRcvAddress, usLength, regs, executed, usSndBufferCount, tx_check_semaphore,
                    tty_tx_index, tx, aborted, expected, overrun, rx, ucByte, ascii>>
    BY <1>3 DEF asciiVars, vars, buffer, poll_vars, tx_vars, line_vars
  <2>2. line' \in Seq(Nat)
    BY <2>1 DEF AsciiInv, AsciiTypes
  <2> QED BY <2>1, <2>2, AsciiSame
<1>4. CASE PollNothing /\ UNCHANGED ascii
  BY <1>4, AsciiPollNothing
<1> QED
  BY <1>1, <1>2, <1>3, <1>4, AsciiHandled, AsciiPollReceives, AsciiExecutes, AsciiTransmits
  DEF AsciiNext, AsciiPoll

-----------------------------------------------------------------------------
\* ExecutedInOrder of either serial mode.
LEMMA AsciiInOrder == AsciiInv /\ "misread" \notin mishaps => ExecutedInOrder
<1> SUFFICES ASSUME AsciiInv, "misread" \notin mishaps, ~overrun
             PROVE  Len(executed) <= Len(expected) /\ executed = SubSeq(expected, 1, Len(executed))
  BY DEF ExecutedInOrder
<1>1. AsciiFrame /\ Lists
  BY DEF AsciiInv, AsciiSafe
<1>2. expected = executed \/ \E x : expected = Append(executed, x)
  BY <1>1 DEF AsciiFrame, Free, Handled, AsciiNow
<1> QED BY <1>1, <1>2, Beginning DEF Lists

LEMMA RtuInOrder == RtuInv => ExecutedInOrder
<1> SUFFICES ASSUME RtuInv, ~overrun
             PROVE  Len(executed) <= Len(expected) /\ executed = SubSeq(expected, 1, Len(executed))
  BY DEF ExecutedInOrder
<1>1. RtuFrame /\ Lists
  BY DEF RtuInv, RtuSafe
<1>2. expected = executed \/ \E x : expected = Append(executed, x)
  BY <1>1 DEF RtuFrame, Free, Handled, RtuNow
<1> QED BY <1>1, <1>2, Beginning DEF Lists

\* What has been spelled when the transmitter is done.
LEMMA AnswerSpelled == AsciiInv => AsciiAnswerIsFrame
<1> DEFINE sent == SubSeq(tty_tx_buffer, 1, tty_tx_index)
           n    == usLength
           s    == [i \in 1 .. n + 1 |-> ucRTUBuf[i - 1]]
           all  == [i \in 1 .. n + 2 |-> ucRTUBuf[i - 1]]
<1> SUFFICES ASSUME AsciiInv, eSndState = "TX_NOTIFY", ~overrun
             PROVE  /\ IsFrame(sent) /\ BytesOf(sent)[1] = ucMBAddress
                    /\ AsciiRequest(sent)[2] = [i \in 1 .. n |-> ucRTUBuf[i]]
  BY DEF AsciiAnswerIsFrame
<1>1. AsciiTypes /\ AnswerInBuffer /\ Spelled
  BY DEF AsciiInv, AsciiSafe, Transmits
<1>2. /\ n \in Nat /\ n > 0 /\ MB_SER_PDU_SIZE_MAX \in Nat /\ n + 2 <= MB_SER_PDU_SIZE_MAX
      /\ \A i \in 0 .. n + 1 : /\ ucRTUBuf[i] \in Byte
                               /\ ucRTUBuf[i] \div 16 \in Digit /\ ucRTUBuf[i] % 16 \in Digit
                               /\ 16 * (ucRTUBuf[i] \div 16) + (ucRTUBuf[i] % 16) = ucRTUBuf[i]
  BY <1>1, AnswerBytes
<1>3. /\ pucSndBufferCur = n + 2 /\ tty_tx_index = 2 * n + 7 /\ tty_tx_buffer \in Seq(Nat)
      /\ tty_tx_index = Len(tty_tx_buffer) /\ Put16(n + 2)
      /\ tty_tx_buffer[2 * n + 6] = CR /\ tty_tx_buffer[2 * n + 7] = LF
  <2>1. pucSndBufferCur \in 0 .. n + 2 /\ 0 = n + 2 - pucSndBufferCur
    BY <1>1 DEF Spelled
  <2>2. pucSndBufferCur = n + 2
    BY <1>2, <2>1
  <2>3. 2 * (n + 2) + 2 = 2 * n + 6 /\ 2 * (n + 2) + 3 = 2 * n + 7
    BY <1>2
  <2>4. /\ tty_tx_index = 2 * (n + 2) + 3 /\ tty_tx_buffer[tty_tx_index] = LF
        /\ tty_tx_buffer[2 * (n + 2) + 2] = CR /\ Put16(n + 2)
        /\ tty_tx_buffer \in Seq(Nat) /\ tty_tx_index = Len(tty_tx_buffer)
    BY <1>1, <2>2 DEF Spelled
  <2> QED BY <2>2, <2>3, <2>4
<1>4. sent = tty_tx_buffer
  BY <1>3
<1> HIDE DEF sent
<1>5. /\ Len(sent) = 2 * n + 7 /\ sent[1] = COLON /\ sent[2 * n + 6] = CR /\ sent[2 * n + 7] = LF
      /\ \A i \in 1 .. n + 2 : /\ sent[2 * i] = ucRTUBuf[i - 1] \div 16
                               /\ sent[2 * i + 1] = ucRTUBuf[i - 1] % 16
  BY <1>3, <1>4 DEF Put16
<1>6. \A i \in 1 .. n + 2 : i - 1 \in 0 .. n + 1
  BY <1>2
<1>7. BytesOf(sent) = all
  <2>1. ((2 * n + 7) - 3) \div 2 = n + 2
    BY <1>2
  <2>2. BytesOf(sent) = [i \in 1 .. n + 2 |-> 16 * sent[2 * i] + sent[2 * i + 1]]
    BY <1>5, <2>1 DEF BytesOf
  <2>3. \A i \in 1 .. n + 2 : 16 * sent[2 * i] + sent[2 * i + 1] = ucRTUBuf[i - 1]
    BY <1>2, <1>5, <1>6
  <2> QED BY <2>2, <2>3
<1>8. \A i \in 2 .. 2 * n + 5 : sent[i] \in Digit
  <2> SUFFICES ASSUME NEW i \in 2 .. 2 * n + 5 PROVE sent[i] \in Digit
    OBVIOUS
  <2>1. PICK k \in 1 .. n + 2 : i = 2 * k \/ i = 2 * k + 1
    <3>1. i \in Nat /\ i >= 2 /\ i <= 2 * n + 5
      BY <1>2
    <3>2. i \div 2 \in 1 .. n + 2 /\ (i = 2 * (i \div 2) \/ i = 2 * (i \div 2) + 1)
      BY <1>2, <3>1
    <3> QED BY <3>2
  <2> QED BY <1>2, <1>5, <1>6, <2>1
<1>9. /\ s \in Seq(Byte) /\ Len(s) = n + 1 /\ all \in Seq(Byte) /\ Len(all) = n + 2
      /\ \A i \in 1 .. n + 1 : s[i] = ucRTUBuf[i - 1]
      /\ \A i \in 1 .. n + 2 : all[i] = ucRTUBuf[i - 1]
  <2>1. \A i \in 1 .. n + 2 : ucRTUBuf[i - 1] \in Byte
    BY <1>2, <1>6
  <2> QED BY <1>2, <2>1
<1>10. Sum(all) = 0
  <2>1. ucRTUBuf[n + 1] = prvucMBLRC(s)
    BY <1>1 DEF AnswerInBuffer
  <2> HIDE DEF s, all
  <2>2. prvucMBLRC(s) \in Byte /\ Sum(Append(s, prvucMBLRC(s))) = 0
    BY <1>9, SumIs
  <2> DEFINE a == Append(s, prvucMBLRC(s))
  <2>3. a \in Seq(Byte) /\ Len(a) = n + 2
    BY <1>2, <1>9, <2>2
  <2>4. ASSUME NEW i \in 1 .. n + 2 PROVE a[i] = all[i]
    <3>1. CASE i \in 1 .. n + 1
      BY <1>9, <2>2, <3>1, AppendProperties
    <3>2. CASE i = n + 2
      <4>1. i - 1 = n + 1 /\ i = Len(s) + 1
        BY <1>2, <1>9, <3>2
      <4> QED BY <1>9, <2>1, <2>2, <4>1, AppendProperties
    <3>3. i \in 1 .. n + 1 \/ i = n + 2
      BY <1>2
    <3> QED BY <3>1, <3>2, <3>3
  <2> HIDE DEF a
  <2>5. a = all
    BY <1>9, <2>3, <2>4, SeqEqual
  <2> QED BY <2>2, <2>5 DEF a
<1>11. IsFrame(sent)
  <2>1. Len(sent) \in 9 .. 2 * MB_SER_PDU_SIZE_MAX + 3 /\ Len(sent) - 1 = 2 * n + 6 /\ Len(sent) - 2 = 2 * n + 5
    BY <1>2, <1>5
  <2> HIDE DEF all
  <2> QED BY <1>5, <1>7, <1>8, <1>10, <2>1 DEF IsFrame
<1>12. all[1] = ucMBAddress
  <2>1. 1 \in 1 .. n + 2 /\ 1 - 1 = 0
    BY <1>2
  <2>2. ucRTUBuf[0] = ucMBAddress
    BY <1>1 DEF AnswerInBuffer
  <2> HIDE DEF all
  <2> QED BY <1>9, <2>1, <2>2
<1>13. SubSeq(all, 2, Len(all) - 1) = [i \in 1 .. n |-> ucRTUBuf[i]]
  <2> DEFINE r == SubSeq(all, 2, n + 1)
  <2>1. 2 \in 1 .. n + 3 /\ n + 1 \in 1 .. n + 2 /\ (n + 1) - 2 + 1 = n /\ (n + 2) - 1 = n + 1
    BY <1>2
  <2> HIDE DEF all
  <2>2. r \in Seq(Byte) /\ Len(r) = n /\ \A i \in 1 .. n : r[i] = all[2 + i - 1]
    BY <1>2, <1>9, <2>1, SubSeqProperties
  <2> HIDE DEF r
  <2>3. \A i \in 1 .. n : r[i] = ucRTUBuf[i]
    <3>1. \A i \in 1 .. n : 2 + i - 1 \in 1 .. n + 2 /\ (2 + i - 1) - 1 = i
      BY <1>2
    <3> QED BY <1>9, <2>2, <3>1
  <2>4. r = [i \in 1 .. n |-> ucRTUBuf[i]]
    BY <1>2, <2>2, <2>3
  <2> QED BY <1>9, <2>1, <2>4 DEF r
<1> HIDE DEF all
<1> QED BY <1>7, <1>11, <1>12, <1>13 DEF AsciiRequest

\* ModbusTcp has the functions of its own instance of ModbusRegisters: they are the same.
LEMMA SameFunctions ==
    /\ \A buf, len, tables : Tcp!Handle(buf, len, tables) = Handle(buf, len, tables)
    /\ \A buf, i : Tcp!Word(buf, i) = Word(buf, i)
    /\ \A buf, i, s : Tcp!Put(buf, i, s) = Put(buf, i, s)
    /\ Tcp!Byte = Byte
  BY DEF
    Tcp!Handle, Tcp!Result, Tcp!NONE, Tcp!ILLEGAL_FUNCTION, Tcp!ILLEGAL_DATA_ADDRESS,
    Tcp!ILLEGAL_DATA_VALUE, Tcp!At, Tcp!Word, Tcp!Put, Tcp!Byte, Tcp!Window, Tcp!Bytes,
    Tcp!xMBUtilGetBits, Tcp!xMBUtilSetBits, Tcp!CopyBits, Tcp!RegAddress, Tcp!InTable,
    Tcp!BitsAt, Tcp!WordsAt, Tcp!WordsFrom, Tcp!Headed, Tcp!Reading, Tcp!Writing, Tcp!Filled,
    Tcp!usRegDiscreateBuf, Tcp!usRegInputBuf, Tcp!usRegHoldingBuf,
    Tcp!eMBFuncReadCoils, Tcp!eMBFuncReadDiscreteInputs, Tcp!eMBFuncReadHoldingRegister,
    Tcp!eMBFuncReadInputRegister, Tcp!eMBFuncWriteCoil, Tcp!eMBFuncWriteMultipleCoils,
    Tcp!eMBFuncWriteHoldingRegister, Tcp!eMBFuncWriteMultipleHoldingRegister,
    Tcp!eMBFuncReadWriteMultipleHoldingRegister, Tcp!eMBFuncReportSlaveID,
    Handle, Result, NONE, ILLEGAL_FUNCTION, ILLEGAL_DATA_ADDRESS,
    ILLEGAL_DATA_VALUE, At, Word, Put, Byte, Window, Bytes,
    xMBUtilGetBits, xMBUtilSetBits, CopyBits, RegAddress, InTable,
    BitsAt, WordsAt, WordsFrom, Headed, Reading, Writing, Filled,
    usRegDiscreateBuf, usRegInputBuf, usRegHoldingBuf,
    eMBFuncReadCoils, eMBFuncReadDiscreteInputs, eMBFuncReadHoldingRegister,
    eMBFuncReadInputRegister, eMBFuncWriteCoil, eMBFuncWriteMultipleCoils,
    eMBFuncWriteHoldingRegister, eMBFuncWriteMultipleHoldingRegister,
    eMBFuncReadWriteMultipleHoldingRegister, eMBFuncReportSlaveID

\* A history is a sequence, of whatever.
Listed(s) == \E S : s \in Seq(S)

\* Lists of anything, and what Append does to them.
LEMMA ListedIs ==
    ASSUME NEW s, Listed(s)
    PROVE  /\ Len(s) \in Nat /\ DOMAIN s = 1 .. Len(s)
           /\ \A x : /\ Listed(Append(s, x)) /\ Len(Append(s, x)) = Len(s) + 1
                     /\ DOMAIN Append(s, x) = 1 .. Len(s) + 1
                     /\ Append(s, x)[Len(s) + 1] = x
                     /\ \A i \in 1 .. Len(s) : Append(s, x)[i] = s[i]
<1>1. PICK S : s \in Seq(S)
  BY DEF Listed
<1>2. ASSUME NEW x
      PROVE  /\ Listed(Append(s, x)) /\ Len(Append(s, x)) = Len(s) + 1
             /\ DOMAIN Append(s, x) = 1 .. Len(s) + 1
             /\ Append(s, x)[Len(s) + 1] = x
             /\ \A i \in 1 .. Len(s) : Append(s, x)[i] = s[i]
  <2> DEFINE T == S \cup {x}
  <2>1. s \in Seq(T) /\ x \in T
    BY <1>1
  <2> HIDE DEF T
  <2>2. Append(s, x) \in Seq(T)
    BY <2>1
  <2> QED BY <2>1, <2>2, AppendProperties DEF Listed
<1> QED BY <1>1, <1>2

LEMMA EmptyListed == Listed(<<>>)
<1>1. <<>> \in Seq({})
  OBVIOUS
<1> QED BY <1>1 DEF Listed

-----------------------------------------------------------------------------
(* Over TCP. *)

TcpTypes ==
    /\ clients \in Nat /\ link \in {0, clients}
    /\ net \in {"wait", "size", "post"} /\ poll \in {"event", "send"}
    /\ stream \in Seq(Tcp!Segments)
    /\ segment \in Tcp!Segments \cup {<<>>}
    /\ rx_tcp_buffer \in [0 .. RX_SIZE - 1 -> Byte] /\ rx_tcp_size \in 0 .. RX_SIZE
    /\ queue \in Seq({"FRAME_RECEIVED", "EXECUTE"})
    /\ usLength \in Nat /\ (poll = "send" => usLength <= 252) /\ regs \in Tables
    /\ early \in BOOLEAN
    /\ Listed(asked) /\ Listed(answered) /\ Listed(done)

\* While no segment comes too early, each is where its turn is: nothing is asked; it
\* is copied, posted, accepted; the answer is left to send.
Counts(unexecuted, unanswered) == /\ Len(asked) = Len(answered) + unexecuted
                                  /\ Len(answered) = Len(done) + unanswered
LastAsked == asked[Len(asked)].frame = segment
InBuffer  == /\ segment \in Requests
             /\ \A i \in 1 .. Len(segment) : rx_tcp_buffer[i - 1] = segment[i]

Resting  == net = "wait" /\ queue = <<>> /\ poll = "event" /\ Counts(0, 0)
Copied   == /\ net \in {"size", "post"} /\ queue = <<>> /\ poll = "event" /\ Counts(0, 0)
            /\ InBuffer /\ (net = "post" => rx_tcp_size = Len(segment))
Posted   == /\ net = "wait" /\ queue = <<"FRAME_RECEIVED">> /\ poll = "event"
            /\ InBuffer /\ rx_tcp_size = Len(segment)
            /\ IF Tcp!IsModbus(segment) THEN Counts(1, 0) /\ LastAsked ELSE Counts(0, 0)
Taken    == /\ net = "wait" /\ queue = <<"EXECUTE">> /\ poll = "event"
            /\ InBuffer /\ Counts(1, 0) /\ LastAsked /\ usLength = Len(segment) - 7
Replying == /\ net = "wait" /\ queue = <<>> /\ poll = "send" /\ Counts(0, 1) /\ usLength > 0
            /\ \A i \in {0, 1, 2, 3, 6} : rx_tcp_buffer[i] = asked[Len(asked)].frame[i + 1]
            /\ rx_tcp_buffer[7] % 128 = asked[Len(asked)].frame[8] % 128

Asked == \A n \in 1 .. Len(asked) : asked[n].from \in 0 .. clients /\ asked[n].frame \in Requests
Executed == \A n \in 1 .. Len(answered) :
                answered[n] = SubSeq(asked[n].frame, 8, Len(asked[n].frame))
Replied(request, answer) ==
    /\ \A i \in {1, 2, 3, 4, 7} : answer[i] = request[i]
    /\ 256 * answer[5] + answer[6] = Len(answer) - 6
    /\ answer[8] % 128 = request[8] % 128
ReplyTo(to, from) == to = from \/ to \in {0} \cup from + 1 .. clients
AnswersSent == \A n \in 1 .. Len(done) : /\ Replied(asked[n].frame, done[n].frame)
                                         /\ ReplyTo(done[n].to, asked[n].from)

TcpSafe == /\ Resting \/ Copied \/ Posted \/ Taken \/ Replying
           /\ Asked /\ Executed /\ AnswersSent
TcpInv  == TcpTypes /\ (~early => TcpSafe)

\* What the assumptions say of the segments.
LEMMA TcpAssumed ==
    /\ Tcp!Segments \subseteq Seq(Byte) /\ Requests \subseteq Tcp!Segments
    /\ RX_SIZE \in Nat /\ RX_SIZE > 7 /\ RX_SIZE < 65536
    /\ \A s \in Tcp!Segments : Len(s) \in 1 .. RX_SIZE /\ DOMAIN s = 1 .. Len(s)
    /\ \A s \in Requests : Len(s) > 7
<1>1. Tcp!Segments \subseteq Seq(Byte)
  BY TcpAssumption, SameFunctions DEF Tcp!Assumption
<1>2. \A s \in Seq(Byte) : DOMAIN s = 1 .. Len(s)
  OBVIOUS
<1> QED BY TcpAssumption, <1>1, <1>2 DEF Tcp!Assumption, Tcp!Segments, Tcp!MB_TCP_FUNC

\* The invariant holds at the start,
LEMMA TcpInit == Tcp!ServerInit /\ queue = <<>> /\ usLength = 0
                 /\ regs = [coils |-> usRegCoilBuf, holding |-> usRegHoldingBuf] => TcpInv
<1> SUFFICES ASSUME Tcp!ServerInit, queue = <<>>, usLength = 0,
                    regs = [coils |-> usRegCoilBuf, holding |-> usRegHoldingBuf]
             PROVE  TcpInv
  OBVIOUS
<1>1. /\ link = 0 /\ stream = <<>> /\ net = "wait" /\ segment = <<>>
      /\ rx_tcp_buffer = [i \in 0 .. RX_SIZE - 1 |-> 0] /\ rx_tcp_size = 0
      /\ poll = "event" /\ clients = 0
      /\ asked = <<>> /\ answered = <<>> /\ done = <<>> /\ early = FALSE
  BY DEF Tcp!ServerInit
<1>2. regs \in Tables
  BY FilledIs
<1>3. rx_tcp_buffer \in [0 .. RX_SIZE - 1 -> Byte]
  BY <1>1 DEF Byte
<1>4. TcpTypes
  BY <1>1, <1>2, <1>3, EmptyListed, TcpAssumed DEF TcpTypes
<1>5. Resting /\ Asked /\ Executed /\ AnswersSent
  BY <1>1 DEF Resting, Counts, Asked, Executed, AnswersSent
<1> QED BY <1>4, <1>5 DEF TcpInv, TcpSafe

\* The clients: what they do changes no phase.
LEMMA TcpClients ==
    ASSUME TcpInv, Tcp!Connect \/ Tcp!Leave \/ \E s \in Tcp!Segments : Tcp!Send(s)
    PROVE  TcpInv'
<1>1. /\ UNCHANGED <<net, segment, rx_tcp_buffer, rx_tcp_size, queue, usLength, poll, regs, asked,
                     answered, done, early>>
      /\ \/ clients' = clients + 1 /\ link' = clients' /\ stream' = <<>>
         \/ UNCHANGED <<clients, stream>> /\ link' = 0
         \/ UNCHANGED <<clients, link>> /\ \E s \in Tcp!Segments : stream' = Append(stream, s)
  BY DEF Tcp!Connect, Tcp!Leave, Tcp!Send, Tcp!net_vars, Tcp!buffer, Tcp!poll_vars
<1>2. clients \in Nat /\ clients' \in Nat /\ clients <= clients'
  BY <1>1 DEF TcpInv, TcpTypes
<1>3. TcpTypes'
  <2>1. link' \in {0, clients'}
    BY <1>1, <1>2 DEF TcpInv, TcpTypes
  <2>2. stream' \in Seq(Tcp!Segments)
    <3>1. stream \in Seq(Tcp!Segments)
      BY DEF TcpInv, TcpTypes
    <3>2. <<>> \in Seq(Tcp!Segments) /\ \A s \in Tcp!Segments : Append(stream, s) \in Seq(Tcp!Segments)
      BY <3>1
    <3> QED BY <1>1, <3>1, <3>2
  <2> QED BY <1>1, <1>2, <2>1, <2>2 DEF TcpInv, TcpTypes, Tcp!Segments
<1>4. ASSUME TcpSafe PROVE TcpSafe'
  <2>1. (Resting \/ Copied \/ Posted \/ Taken \/ Replying)'
    BY <1>1, <1>4 DEF TcpSafe, Resting, Copied, Posted, Taken, Replying, Counts, LastAsked, InBuffer,
       Tcp!IsModbus
  <2>2. Asked'
    <3>1. \A n \in 0 .. clients : n \in 0 .. clients'
      BY <1>2
    <3> QED BY <1>1, <1>4, <3>1 DEF TcpSafe, Asked
  <2>3. Executed'
    BY <1>1, <1>4 DEF TcpSafe, Executed
  <2>4. AnswersSent'
    <3>1. \A n \in 1 .. Len(done) : asked[n].from \in 0 .. clients
      <4>1. Len(done) <= Len(asked) /\ Len(done) \in Nat /\ Len(asked) \in Nat
        BY <1>4, ListedIs DEF TcpInv, TcpTypes, TcpSafe, Resting, Copied, Posted, Taken, Replying, Counts
      <4> QED BY <1>4, <4>1 DEF TcpSafe, Asked
    <3>2. \A to : \A from \in 0 .. clients : ReplyTo(to, from) => ReplyTo(to, from)'
      BY <1>2 DEF ReplyTo
    <3>3. \A n \in 1 .. Len(done) : /\ Replied(asked[n].frame, done[n].frame)
                                    /\ ReplyTo(done[n].to, asked[n].from)'
      BY <1>1, <1>4, <3>1, <3>2 DEF TcpSafe, AnswersSent
    <3> QED BY <1>1, <3>3 DEF AnswersSent
  <2> QED BY <2>1, <2>2, <2>3, <2>4 DEF TcpSafe
<1> QED BY <1>1, <1>3, <1>4 DEF TcpInv

\* How many have been asked, executed and answered.
LEMMA TcpCounted ==
    ASSUME TcpInv
    PROVE  /\ Len(asked) \in Nat /\ Len(answered) \in Nat /\ Len(done) \in Nat
           /\ DOMAIN asked = 1 .. Len(asked) /\ DOMAIN answered = 1 .. Len(answered)
           /\ DOMAIN done = 1 .. Len(done)
           /\ TcpSafe => Len(done) <= Len(answered) /\ Len(answered) <= Len(asked)
<1>1. /\ Len(asked) \in Nat /\ Len(answered) \in Nat /\ Len(done) \in Nat
      /\ DOMAIN asked = 1 .. Len(asked) /\ DOMAIN answered = 1 .. Len(answered)
      /\ DOMAIN done = 1 .. Len(done)
  BY ListedIs DEF TcpInv, TcpTypes
<1>2. TcpSafe => Counts(0, 0) \/ Counts(1, 0) \/ Counts(0, 1)
  BY DEF TcpSafe, Resting, Copied, Posted, Taken, Replying
<1>3. Counts(0, 0) \/ Counts(1, 0) \/ Counts(0, 1)
        => Len(done) <= Len(answered) /\ Len(answered) <= Len(asked)
  <2>1. \A a, b, c \in Nat : \A x, y \in {0, 1} : a = b + x /\ b = c + y => c <= b /\ b <= a
    OBVIOUS
  <2>2. \A x, y \in {0, 1} : Counts(x, y) => Len(done) <= Len(answered) /\ Len(answered) <= Len(asked)
    BY <1>1, <2>1 DEF Counts
  <2> QED BY <2>2
<1> QED BY <1>1, <1>2, <1>3

\* The server's thread reads a segment,
LEMMA TcpReads == TcpInv /\ Tcp!ServerReads => TcpInv'
<1> SUFFICES ASSUME TcpInv, Tcp!ServerReads PROVE TcpInv'
  OBVIOUS
<1>1. /\ net = "wait" /\ stream # <<>>
      /\ segment' = Head(stream) /\ stream' = Tail(stream) /\ net' = "size"
      /\ rx_tcp_buffer' = Put(rx_tcp_buffer, 0, segment')
      /\ early' = (early \/ poll = "send" \/ queue # <<>> \/ segment' \notin Requests)
      /\ UNCHANGED <<link, clients, rx_tcp_size, queue, usLength, poll, regs, answered, done, asked>>
  BY SameFunctions DEF Tcp!ServerReads, Tcp!Busy, Tcp!poll_vars
<1>2. segment' \in Tcp!Segments /\ stream' \in Seq(Tcp!Segments)
  BY <1>1 DEF TcpInv, TcpTypes
<1>3. segment' \in Seq(Byte) /\ Len(segment') \in 1 .. RX_SIZE /\ RX_SIZE \in Nat
  BY <1>2, TcpAssumed
<1>4. rx_tcp_buffer' \in [0 .. RX_SIZE - 1 -> Byte]
  BY <1>1, <1>3, PutIs DEF TcpInv, TcpTypes
<1>5. TcpTypes'
  BY <1>1, <1>2, <1>4 DEF TcpInv, TcpTypes, Tcp!Segments
<1>6. ASSUME ~early' PROVE TcpSafe'
  <2>1. TcpSafe /\ Resting /\ segment' \in Requests
    <3>1. ~early /\ poll # "send" /\ queue = <<>> /\ segment' \in Requests
      BY <1>1, <1>6 DEF TcpInv, TcpTypes
    <3>2. queue # <<"FRAME_RECEIVED">> /\ queue # <<"EXECUTE">>
      BY <3>1
    <3>3. TcpSafe
      BY <3>1 DEF TcpInv
    <3> QED BY <1>1, <3>1, <3>2, <3>3 DEF TcpSafe, Copied, Posted, Taken, Replying
  <2>2. InBuffer'
    <3> SUFFICES ASSUME NEW i \in 1 .. Len(segment') PROVE rx_tcp_buffer'[i - 1] = segment'[i]
      BY <2>1 DEF InBuffer
    <3>1. i - 1 \in 0 .. RX_SIZE - 1 /\ i - 1 \in 0 .. 0 + Len(segment') - 1 /\ (i - 1) - 0 + 1 = i
      BY <1>3
    <3>2. DOMAIN rx_tcp_buffer = 0 .. RX_SIZE - 1
      BY DEF TcpInv, TcpTypes
    <3> QED BY <1>1, <3>1, <3>2 DEF Put
  <2>3. Copied'
    BY <1>1, <2>1, <2>2 DEF Copied, Resting, Counts
  <2> QED BY <1>1, <2>1, <2>3 DEF TcpSafe, Asked, Executed, AnswersSent, ReplyTo
<1> QED BY <1>5, <1>6 DEF TcpInv

\* says how long it is,
LEMMA TcpSizes == TcpInv /\ Tcp!ServerSizes => TcpInv'
<1> SUFFICES ASSUME TcpInv, Tcp!ServerSizes PROVE TcpInv'
  OBVIOUS
<1>1. /\ net = "size" /\ net' = "post" /\ rx_tcp_size' = Len(segment)
      /\ UNCHANGED <<link, clients, stream, segment, rx_tcp_buffer, queue, usLength, poll, regs,
                     answered, done, asked, early>>
  BY DEF Tcp!ServerSizes, Tcp!poll_vars
<1>2. rx_tcp_size' \in 0 .. RX_SIZE
  BY <1>1, TcpAssumed DEF TcpInv, TcpTypes
<1>3. TcpTypes'
  BY <1>1, <1>2 DEF TcpInv, TcpTypes, Tcp!Segments
<1>4. ASSUME TcpSafe PROVE TcpSafe'
  <2>1. Copied'
    BY <1>1, <1>4 DEF TcpSafe, Resting, Copied, Posted, Taken, Replying, Counts, InBuffer
  <2> QED BY <1>1, <1>4, <2>1 DEF TcpSafe, Asked, Executed, AnswersSent, ReplyTo
<1> QED BY <1>1, <1>3, <1>4 DEF TcpInv

\* and posts its event.
LEMMA TcpPosts == TcpInv /\ Tcp!ServerPosts => TcpInv'
<1> SUFFICES ASSUME TcpInv, Tcp!ServerPosts PROVE TcpInv'
  OBVIOUS
<1> DEFINE new == [from |-> link, frame |-> segment]
           one == segment \in Requests /\ Tcp!IsModbus(segment)
<1>1. /\ net = "post" /\ net' = "wait" /\ queue' = Append(queue, "FRAME_RECEIVED")
      /\ asked' = IF one THEN Append(asked, new) ELSE asked
      /\ UNCHANGED <<link, clients, stream, segment, rx_tcp_buffer, rx_tcp_size, usLength, poll, regs,
                     answered, done, early>>
  BY DEF Tcp!ServerPosts, Tcp!buffer, Tcp!poll_vars
<1>2. Listed(asked') /\ queue' \in Seq({"FRAME_RECEIVED", "EXECUTE"})
  BY <1>1, ListedIs DEF TcpInv, TcpTypes
<1>3. TcpTypes'
  BY <1>1, <1>2 DEF TcpInv, TcpTypes, Tcp!Segments
<1>4. ASSUME TcpSafe PROVE TcpSafe'
  <2>1. Copied /\ queue' = <<"FRAME_RECEIVED">> /\ Asked /\ Executed /\ AnswersSent
    BY <1>1, <1>4 DEF TcpSafe, Resting, Copied, Posted, Taken, Replying
  <2>2. /\ Len(asked) \in Nat /\ Len(asked) = Len(answered) /\ Len(answered) = Len(done)
        /\ link \in 0 .. clients /\ segment \in Requests
    BY <2>1, TcpCounted DEF Copied, Counts, InBuffer, TcpInv, TcpTypes
  <2>3. CASE ~one
    <3>1. Posted'
      BY <1>1, <2>1, <2>2, <2>3 DEF Copied, Posted, Counts, InBuffer, Tcp!IsModbus
    <3> QED BY <1>1, <2>1, <2>3, <3>1 DEF TcpSafe, Asked, Executed, AnswersSent, ReplyTo
  <2>4. CASE one
    <3>1. /\ Len(asked') = Len(asked) + 1 /\ asked'[Len(asked) + 1] = new
          /\ \A i \in 1 .. Len(asked) : asked'[i] = asked[i]
      BY <1>1, <2>4, ListedIs DEF TcpInv, TcpTypes
    <3>2. Posted'
      <4>1. LastAsked' /\ InBuffer'
        BY <1>1, <2>1, <3>1 DEF LastAsked, InBuffer, Copied
      <4>2. Counts(1, 0)' /\ Tcp!IsModbus(segment)'
        BY <1>1, <2>2, <2>4, <3>1 DEF Counts, Tcp!IsModbus
      <4> QED BY <1>1, <2>1, <4>1, <4>2 DEF Copied, Posted
    <3>3. Asked'
      <4>1. \A n \in 1 .. Len(asked') : n \in 1 .. Len(asked) \/ n = Len(asked) + 1
        BY <2>2, <3>1
      <4> QED BY <1>1, <2>1, <2>2, <3>1, <4>1 DEF Asked
    <3>4. Executed' /\ AnswersSent'
      BY <1>1, <2>1, <2>2, <3>1 DEF Executed, AnswersSent, ReplyTo
    <3> QED BY <3>2, <3>3, <3>4 DEF TcpSafe
  <2> QED BY <2>3, <2>4
<1> QED BY <1>1, <1>3, <1>4 DEF TcpInv

\* A request in the buffer is looked at: its length is that of its PDU.
LEMMA TcpPollReceived == TcpInv /\ Tcp!PollReceived => TcpInv'
<1> SUFFICES ASSUME TcpInv, Tcp!PollReceived PROVE TcpInv'
  OBVIOUS
<1> DEFINE one == Word(rx_tcp_buffer, 2) = 0
           wide == 65536
<1>1. /\ poll = "event" /\ queue # <<>> /\ Head(queue) = "FRAME_RECEIVED"
      /\ usLength' = IF one THEN (rx_tcp_size + wide - 7) % wide ELSE usLength
      /\ queue' = IF one THEN Append(Tail(queue), "EXECUTE") ELSE Tail(queue)
      /\ UNCHANGED <<link, clients, stream, net, segment, rx_tcp_buffer, rx_tcp_size, poll, regs,
                     answered, done, asked, early>>
  BY SameFunctions DEF Tcp!PollReceived, Tcp!net_vars, Tcp!buffer, Tcp!MB_TCP_PID, Tcp!MB_TCP_FUNC,
     Tcp!MB_TCP_PROTOCOL_ID
<1>2. /\ RX_SIZE \in Nat /\ RX_SIZE > 7 /\ RX_SIZE < wide
      /\ rx_tcp_size \in Nat /\ rx_tcp_size < wide /\ wide \in Nat /\ wide > 7
  BY TcpAssumed DEF TcpInv, TcpTypes
<1>3. rx_tcp_size >= 7 => (rx_tcp_size + wide - 7) % wide = rx_tcp_size - 7
  <2>1. \A n \in Nat : n >= 7 /\ n < 65536 => (n + 65536 - 7) % 65536 = n - 7
    OBVIOUS
  <2> QED BY <1>2, <2>1
<1>4. TcpTypes'
  <2>1. queue' \in Seq({"FRAME_RECEIVED", "EXECUTE"})
    BY <1>1 DEF TcpInv, TcpTypes
  <2>2. usLength' \in Nat
    <3>1. (rx_tcp_size + wide - 7) % wide \in Nat
      BY <1>2
    <3> HIDE DEF wide, one
    <3> QED BY <1>1, <3>1 DEF TcpInv, TcpTypes
  <2> HIDE DEF wide, one
  <2> QED BY <1>1, <2>1, <2>2 DEF TcpInv, TcpTypes, Tcp!Segments
<1>5. ASSUME TcpSafe PROVE TcpSafe'
  <2>1. Posted /\ Asked /\ Executed /\ AnswersSent
    BY <1>1, <1>5 DEF TcpSafe, Resting, Copied, Posted, Taken, Replying
  <2>2. /\ segment \in Requests /\ Len(segment) > 7 /\ Len(segment) \in Nat
        /\ rx_tcp_size = Len(segment) /\ Len(segment) <= RX_SIZE
        /\ \A i \in 1 .. Len(segment) : segment[i] \in Byte /\ rx_tcp_buffer[i - 1] = segment[i]
    <3>1. segment \in Requests /\ segment \in Seq(Byte)
      BY <2>1, TcpAssumed DEF Posted, InBuffer
    <3> QED BY <2>1, <3>1, TcpAssumed DEF Posted, InBuffer
  <2>3. one <=> Tcp!IsModbus(segment)
    <3>1. DOMAIN rx_tcp_buffer = 0 .. RX_SIZE - 1
      BY DEF TcpInv, TcpTypes
    <3>2. At(rx_tcp_buffer, 2) = segment[3] /\ At(rx_tcp_buffer, 3) = segment[4]
      BY <1>2, <2>2, <3>1 DEF At
    <3>3. segment[3] \in Nat /\ segment[4] \in Nat
      <4>1. 3 \in 1 .. Len(segment) /\ 4 \in 1 .. Len(segment)
        BY <2>2
      <4>2. segment[3] \in Byte /\ segment[4] \in Byte
        BY <2>2, <4>1
      <4> QED BY <4>2 DEF Byte
    <3>4. Word(rx_tcp_buffer, 2) = 256 * segment[3] + segment[4]
      BY <3>2 DEF Word
    <3>5. \A a, b \in Nat : 256 * a + b = 0 <=> a = 0 /\ b = 0
      OBVIOUS
    <3> QED BY <3>3, <3>4, <3>5 DEF Tcp!IsModbus, Tcp!MB_TCP_PID
  <2>4. Resting' \/ Taken'
    <3>1. CASE one
      <4>1. queue' = <<"EXECUTE">> /\ usLength' = Len(segment) - 7
        BY <1>1, <1>2, <1>3, <2>1, <2>2, <3>1 DEF Posted
      <4>2. Counts(1, 0) /\ LastAsked /\ InBuffer /\ net = "wait"
        BY <2>1, <2>3, <3>1 DEF Posted
      <4>3. UNCHANGED <<net, poll, segment, rx_tcp_buffer, asked, answered, done>>
        BY <1>1
      <4>4. LastAsked' /\ InBuffer' /\ Counts(1, 0)'
        BY <4>2, <4>3 DEF LastAsked, InBuffer, Counts
      <4>5. poll = "event"
        BY <1>1
      <4> HIDE DEF one, wide
      <4> QED BY <4>1, <4>2, <4>3, <4>4, <4>5 DEF Taken
    <3>2. CASE ~one
      <4>1. queue' = <<>>
        BY <1>1, <2>1, <3>2 DEF Posted
      <4>2. Counts(0, 0) /\ net = "wait"
        BY <2>1, <2>3, <3>2 DEF Posted
      <4> QED BY <1>1, <4>1, <4>2 DEF Resting, Counts
    <3> QED BY <3>1, <3>2
  <2> HIDE DEF one, wide
  <2> QED BY <1>1, <2>1, <2>4 DEF TcpSafe, Asked, Executed, AnswersSent, ReplyTo
<1> HIDE DEF one, wide
<1> QED BY <1>1, <1>4, <1>5 DEF TcpInv

\* What is executed is what was asked; the answer keeps the unit and the function.
LEMMA TcpPollExecute == TcpInv /\ Tcp!PollExecute => TcpInv'
<1> SUFFICES ASSUME TcpInv, Tcp!PollExecute PROVE TcpInv'
  OBVIOUS
<1> DEFINE frame == Tcp!ucMBFrame
           r == Handle(frame, usLength, regs)
           code == 128 + (frame[1] % 128)
           answer == IF r.exception = NONE THEN r.buf ELSE Put(r.buf, 1, <<code, r.exception>>)
<1>1. /\ poll = "event" /\ queue # <<>> /\ Head(queue) = "EXECUTE"
      /\ queue' = Tail(queue) /\ poll' = "send" /\ answered' = Append(answered, Tcp!PDU)
      /\ regs' = r.regs /\ usLength' = IF r.exception = NONE THEN r.len ELSE 2
      /\ rx_tcp_buffer' = [i \in DOMAIN rx_tcp_buffer |->
                              IF i < 6 THEN rx_tcp_buffer[i] ELSE answer[i - 6]]
      /\ UNCHANGED <<link, clients, stream, net, segment, rx_tcp_size, done, asked, early>>
  <2>1. /\ r = Tcp!Handle(frame, usLength, regs)
        /\ \A i, s : Put(r.buf, i, s) = Tcp!Put(r.buf, i, s)
    BY SameFunctions
  <2>2. /\ poll = "event" /\ queue # <<>> /\ Head(queue) = "EXECUTE"
        /\ queue' = Tail(queue) /\ poll' = "send" /\ answered' = Append(answered, Tcp!PDU)
        /\ UNCHANGED <<link, clients, stream, net, segment, rx_tcp_size, done, asked, early>>
    BY DEF Tcp!PollExecute, Tcp!net_vars
  <2> HIDE DEF r
  <2>3. LET a == IF r.exception = 0 THEN r.buf
                 ELSE Tcp!Put(r.buf, 1, <<128 + (frame[1] % 128), r.exception>>)
        IN  /\ regs' = r.regs /\ usLength' = IF r.exception = 0 THEN r.len ELSE 2
            /\ rx_tcp_buffer' = [i \in DOMAIN rx_tcp_buffer |->
                                    IF i < 6 THEN rx_tcp_buffer[i] ELSE a[i - 6]]
    BY <2>1 DEF Tcp!PollExecute, Tcp!MB_TCP_UID, Tcp!NONE
  <2> QED BY <2>1, <2>2, <2>3 DEF NONE
<1>2. /\ RX_SIZE \in Nat /\ RX_SIZE > 7 /\ DOMAIN rx_tcp_buffer = 0 .. RX_SIZE - 1
      /\ usLength \in Nat /\ regs \in Tables
      /\ \A i \in 0 .. RX_SIZE - 1 : rx_tcp_buffer[i] \in Byte
  BY TcpAssumed DEF TcpInv, TcpTypes
<1>3. /\ frame = [i \in 0 .. RX_SIZE - 7 |-> rx_tcp_buffer[6 + i]]
      /\ \A i \in 0 .. RX_SIZE - 7 : 6 + i \in 0 .. RX_SIZE - 1
      /\ 0 \in 0 .. RX_SIZE - 7 /\ 1 \in 0 .. RX_SIZE - 7
  BY <1>2 DEF Tcp!ucMBFrame, Tcp!MB_TCP_FUNC, Tcp!MB_TCP_UID
<1>4. frame \in [0 .. RX_SIZE - 7 -> Byte] /\ DOMAIN frame = 0 .. RX_SIZE - 7
  BY <1>2, <1>3
<1> HIDE DEF frame
<1>5. Served(frame, usLength, r)
  BY <1>2, <1>4, HandleIs
<1> HIDE DEF r
<1>6. /\ r.exception \in 0 .. 3 /\ r.buf \in [0 .. RX_SIZE - 7 -> Byte] /\ r.regs \in Tables
      /\ r.len \in Nat /\ (r.exception = NONE => r.len <= 252) /\ (usLength > 0 => r.len > 0)
      /\ r.buf[0] = frame[0] /\ (r.exception = NONE => r.buf[1] = frame[1])
  BY <1>3, <1>4, <1>5 DEF Served, Fits
<1>7. /\ frame[1] \in Byte /\ code \in Byte /\ code % 128 = frame[1] % 128
  <2>1. \A b \in Nat : b < 256 => 128 + (b % 128) \in Nat /\ 128 + (b % 128) < 256
                                  /\ (128 + (b % 128)) % 128 = b % 128
    OBVIOUS
  <2>2. frame[1] \in Byte
    BY <1>3, <1>4
  <2> QED BY <2>1, <2>2 DEF Byte
<1> HIDE DEF code
<1>8. /\ answer \in [0 .. RX_SIZE - 7 -> Byte] /\ answer[0] = frame[0]
      /\ answer[1] % 128 = frame[1] % 128
  <2>1. CASE r.exception = NONE
    BY <1>6, <2>1
  <2>2. CASE r.exception # NONE
    <3> DEFINE two == <<code, r.exception>>
    <3>1. two \in Seq(Byte) /\ Len(two) = 2 /\ two[1] = code
      BY <1>6, <1>7 DEF Byte
    <3>2. answer = Put(r.buf, 1, two)
      BY <2>2
    <3> HIDE DEF two
    <3>3. answer \in [0 .. RX_SIZE - 7 -> Byte]
      BY <1>6, <3>1, <3>2, PutIs
    <3>4. DOMAIN r.buf = 0 .. RX_SIZE - 7
      BY <1>6
    <3>5. 0 \notin 1 .. 1 + Len(two) - 1 /\ 1 \in 1 .. 1 + Len(two) - 1
      BY <3>1
    <3>6. answer[0] = r.buf[0] /\ answer[1] = two[1 - 1 + 1]
      BY <1>3, <3>2, <3>4, <3>5 DEF Put
    <3>7. 1 - 1 + 1 = 1
      OBVIOUS
    <3>8. answer[1] = code
      BY <3>1, <3>6, <3>7, Zenon
    <3>9. answer[1] % 128 = frame[1] % 128
      BY <1>7, <3>8, Zenon
    <3>10. answer[0] = frame[0]
      BY <1>6, <3>6, Zenon
    <3> QED BY <3>3, <3>9, <3>10, Zenon
  <2> QED BY <2>1, <2>2
<1> HIDE DEF answer
<1>9. rx_tcp_buffer' \in [0 .. RX_SIZE - 1 -> Byte]
  <2>1. \A i \in 0 .. RX_SIZE - 1 : i >= 6 => i - 6 \in 0 .. RX_SIZE - 7
    BY <1>2
  <2>2. \A i \in 0 .. RX_SIZE - 1 : (IF i < 6 THEN rx_tcp_buffer[i] ELSE answer[i - 6]) \in Byte
    BY <1>2, <1>8, <2>1
  <2> QED BY <1>1, <1>2, <2>2
<1>10. TcpTypes'
  <2>1. queue' \in Seq({"FRAME_RECEIVED", "EXECUTE"})
    BY <1>1 DEF TcpInv, TcpTypes
  <2>2. usLength' \in Nat /\ usLength' <= 252
    BY <1>1, <1>6
  <2>3. Listed(answered')
    BY <1>1, ListedIs DEF TcpInv, TcpTypes
  <2> QED BY <1>1, <1>6, <1>9, <2>1, <2>2, <2>3 DEF TcpInv, TcpTypes, Tcp!Segments
<1>11. ASSUME TcpSafe PROVE TcpSafe'
  <2>1. Taken /\ Asked /\ Executed /\ AnswersSent
    BY <1>1, <1>11 DEF TcpSafe, Resting, Copied, Posted, Taken, Replying
  <2>2. /\ segment \in Seq(Byte) /\ Len(segment) > 7 /\ Len(segment) \in Nat
        /\ Len(segment) <= RX_SIZE /\ usLength = Len(segment) - 7
        /\ \A i \in 1 .. Len(segment) : rx_tcp_buffer[i - 1] = segment[i]
    <3>1. segment \in Requests /\ segment \in Seq(Byte)
      BY <2>1, TcpAssumed DEF Taken, InBuffer
    <3> QED BY <2>1, <3>1, TcpAssumed DEF Taken, InBuffer
  <2>3. /\ Len(asked) = Len(answered) + 1 /\ Len(answered) = Len(done)
        /\ Len(asked) \in Nat /\ Len(answered) \in Nat /\ Len(done) \in Nat
        /\ asked[Len(asked)].frame = segment
    BY <2>1, TcpCounted DEF Taken, Counts, LastAsked
  <2>4. Tcp!PDU = SubSeq(segment, 8, Len(segment))
    <3> DEFINE n == Len(segment) - 7
               size == RX_SIZE - 7
    <3>1. (IF usLength < size THEN usLength ELSE size) = n /\ n \in Nat
      BY <1>2, <2>2
    <3>2. Tcp!PDU = [i \in 1 .. n |-> frame[i]]
      BY <3>1 DEF Tcp!PDU, Tcp!MB_TCP_FUNC, frame
    <3>3. \A i \in 1 .. n : frame[i] = segment[i + 7]
      <4>1. \A i \in 1 .. n : /\ i \in 0 .. RX_SIZE - 7 /\ i + 7 \in 1 .. Len(segment)
                             /\ 6 + i = (i + 7) - 1
        BY <2>2, <1>2
      <4> QED BY <1>3, <2>2, <4>1
    <3>4. SubSeq(segment, 8, Len(segment)) = [i \in 1 .. n |-> segment[i + 7]]
      BY <2>2
    <3> HIDE DEF n
    <3> QED BY <3>2, <3>3, <3>4
  <2>5. /\ Len(answered') = Len(answered) + 1 /\ answered'[Len(answered) + 1] = Tcp!PDU
        /\ \A i \in 1 .. Len(answered) : answered'[i] = answered[i]
    BY <1>1, ListedIs DEF TcpInv, TcpTypes
  <2>6. Executed'
    <3>1. \A n \in 1 .. Len(answered') : n \in 1 .. Len(answered) \/ n = Len(answered) + 1
      BY <2>3, <2>5
    <3> QED BY <1>1, <2>1, <2>3, <2>4, <2>5, <3>1 DEF Executed
  <2>7. Replying'
    <3>1. queue' = <<>>
      BY <1>1, <2>1 DEF Taken
    <3>2. Counts(0, 1)'
      BY <1>1, <2>3, <2>5 DEF Counts
    <3>3. \A i \in {0, 1, 2, 3} : rx_tcp_buffer'[i] = segment[i + 1]
      <4>1. \A i \in {0, 1, 2, 3} : /\ i \in 0 .. RX_SIZE - 1 /\ i < 6
                                    /\ i + 1 \in 1 .. Len(segment) /\ (i + 1) - 1 = i
        BY <1>2, <2>2
      <4> QED BY <1>1, <1>2, <2>2, <4>1
    <3>4. rx_tcp_buffer'[6] = segment[7] /\ rx_tcp_buffer'[7] % 128 = segment[8] % 128
      <4>1. /\ 6 \in 0 .. RX_SIZE - 1 /\ 7 \in 0 .. RX_SIZE - 1
            /\ 7 \in 1 .. Len(segment) /\ 8 \in 1 .. Len(segment)
        BY <1>2, <2>2
      <4>2. rx_tcp_buffer'[6] = answer[0] /\ rx_tcp_buffer'[7] = answer[1]
        BY <1>1, <1>2, <4>1
      <4>3. rx_tcp_buffer[7 - 1] = segment[7] /\ rx_tcp_buffer[8 - 1] = segment[8]
        BY <2>2, <4>1
      <4>4. frame[0] = rx_tcp_buffer[6] /\ frame[1] = rx_tcp_buffer[7]
        BY <1>3
      <4> QED BY <1>8, <4>2, <4>3, <4>4
    <3>5. asked'[Len(asked')].frame = segment
      BY <1>1, <2>3
    <3>6. \A i \in {0, 1, 2, 3, 6} : rx_tcp_buffer'[i] = asked'[Len(asked')].frame[i + 1]
      BY <3>3, <3>4, <3>5
    <3>7. usLength' > 0
      BY <1>1, <1>6, <2>2
    <3> QED BY <1>1, <2>1, <3>1, <3>2, <3>4, <3>5, <3>6, <3>7 DEF Replying, Taken
  <2> QED BY <1>1, <2>1, <2>6, <2>7 DEF TcpSafe, Asked, AnswersSent, ReplyTo
<1> QED BY <1>1, <1>10, <1>11 DEF TcpInv

\* The answer goes out with the length that follows in its header.
LEMMA TcpSend == TcpInv /\ Tcp!eMBTCPSend => TcpInv'
<1> SUFFICES ASSUME TcpInv, Tcp!eMBTCPSend PROVE TcpInv'
  OBVIOUS
<1> DEFINE size == <<(usLength + 1) \div 256, (usLength + 1) % 256>>
           sent == [i \in 1 .. usLength + 7 |-> rx_tcp_buffer'[i - 1]]
           new  == [to |-> link, frame |-> sent]
<1>1. /\ poll = "send" /\ poll' = "event" /\ rx_tcp_buffer' = Put(rx_tcp_buffer, 4, size)
      /\ done' = Append(done, new)
      /\ UNCHANGED <<link, clients, stream, net, segment, rx_tcp_size, queue, usLength, regs, asked,
                     answered, early>>
  BY SameFunctions DEF Tcp!eMBTCPSend, Tcp!Answered, Tcp!net_vars, Tcp!MB_TCP_LEN, Tcp!MB_TCP_FUNC
<1>2. /\ RX_SIZE \in Nat /\ RX_SIZE > 7 /\ usLength \in Nat /\ usLength <= 252
      /\ rx_tcp_buffer \in [0 .. RX_SIZE - 1 -> Byte] /\ DOMAIN rx_tcp_buffer = 0 .. RX_SIZE - 1
  BY <1>1, TcpAssumed DEF TcpInv, TcpTypes
<1>3. /\ size \in Seq(Byte) /\ Len(size) = 2 /\ 256 * size[1] + size[2] = usLength + 1
  <2>1. \A n \in Nat : n <= 252 => (n + 1) \div 256 = 0 /\ (n + 1) % 256 = n + 1
    OBVIOUS
  <2>2. size = <<0, usLength + 1>>
    BY <1>2, <2>1
  <2>3. 0 \in Byte /\ usLength + 1 \in Byte
    BY <1>2 DEF Byte
  <2> QED BY <1>2, <2>2, <2>3
<1> HIDE DEF size
<1>4. /\ rx_tcp_buffer' \in [0 .. RX_SIZE - 1 -> Byte]
      /\ \A i \in {0, 1, 2, 3, 6, 7} : rx_tcp_buffer'[i] = rx_tcp_buffer[i]
      /\ rx_tcp_buffer'[4] = size[1] /\ rx_tcp_buffer'[5] = size[2]
  <2>1. rx_tcp_buffer' \in [0 .. RX_SIZE - 1 -> Byte]
    BY <1>1, <1>2, <1>3, PutIs
  <2>2. \A i \in {0, 1, 2, 3, 6, 7} : i \in 0 .. RX_SIZE - 1 /\ i \notin 4 .. 4 + Len(size) - 1
    BY <1>2, <1>3
  <2>3. \A i \in {4, 5} : i \in 0 .. RX_SIZE - 1 /\ i \in 4 .. 4 + Len(size) - 1
    BY <1>2, <1>3
  <2>4. 4 - 4 + 1 = 1 /\ 5 - 4 + 1 = 2
    OBVIOUS
  <2> QED BY <1>1, <1>2, <2>1, <2>2, <2>3, <2>4 DEF Put
<1>5. TcpTypes'
  <2>1. Listed(done')
    BY <1>1, ListedIs DEF TcpInv, TcpTypes
  <2> HIDE DEF new
  <2> QED BY <1>1, <1>4, <2>1 DEF TcpInv, TcpTypes, Tcp!Segments
<1>6. ASSUME TcpSafe PROVE TcpSafe'
  <2>1. Replying /\ Asked /\ Executed /\ AnswersSent
    BY <1>1, <1>6 DEF TcpSafe, Resting, Copied, Posted, Taken, Replying
  <2>2. /\ Len(asked) = Len(answered) /\ Len(answered) = Len(done) + 1
        /\ Len(asked) \in Nat /\ Len(answered) \in Nat /\ Len(done) \in Nat
    BY <2>1, TcpCounted DEF Replying, Counts
  <2>3. /\ Len(done') = Len(done) + 1 /\ done'[Len(done) + 1] = new
        /\ \A i \in 1 .. Len(done) : done'[i] = done[i]
    BY <1>1, ListedIs DEF TcpInv, TcpTypes
  <2> DEFINE request == asked[Len(asked)].frame
             from    == asked[Len(asked)].from
  <2>4. Replied(request, sent)
    <3>1. usLength > 0 /\ DOMAIN sent = 1 .. usLength + 7 /\ Len(sent) = usLength + 7
      BY <1>2, <2>1 DEF Replying
    <3>2. \A i \in {1, 2, 3, 4, 5, 6, 7, 8} : i \in 1 .. usLength + 7 /\ sent[i] = rx_tcp_buffer'[i - 1]
      BY <1>2, <3>1
    <3>3. /\ sent[1] = rx_tcp_buffer'[0] /\ sent[2] = rx_tcp_buffer'[1]
          /\ sent[3] = rx_tcp_buffer'[2] /\ sent[4] = rx_tcp_buffer'[3]
          /\ sent[5] = rx_tcp_buffer'[4] /\ sent[6] = rx_tcp_buffer'[5]
          /\ sent[7] = rx_tcp_buffer'[6] /\ sent[8] = rx_tcp_buffer'[7]
      BY <3>2
    <3>4. /\ \A i \in {0, 1, 2, 3, 6} : rx_tcp_buffer[i] = request[i + 1]
          /\ rx_tcp_buffer[7] % 128 = request[8] % 128
      BY <2>1 DEF Replying
    <3>5. /\ rx_tcp_buffer[0] = request[1] /\ rx_tcp_buffer[1] = request[2]
          /\ rx_tcp_buffer[2] = request[3] /\ rx_tcp_buffer[3] = request[4]
          /\ rx_tcp_buffer[6] = request[7]
      BY <3>4
    <3> HIDE DEF sent, request
    <3>6. 256 * sent[5] + sent[6] = Len(sent) - 6
      BY <1>2, <1>3, <1>4, <3>1, <3>3
    <3>7. \A i \in {1, 2, 3, 4, 7} : sent[i] = request[i]
      BY <1>4, <3>3, <3>5
    <3> QED BY <1>4, <3>3, <3>4, <3>6, <3>7 DEF Replied
  <2>5. ReplyTo(link, from)
    <3>1. link \in {0, clients} /\ clients \in Nat /\ from \in 0 .. clients
      BY <2>1, <2>2 DEF TcpInv, TcpTypes, Asked
    <3> HIDE DEF from
    <3> QED BY <3>1 DEF ReplyTo
  <2>6. AnswersSent'
    <3>1. \A n \in 1 .. Len(done') : n \in 1 .. Len(done) \/ n = Len(done) + 1
      BY <2>2, <2>3
    <3>2. new.frame = sent /\ new.to = link
      OBVIOUS
    <3>3. \A to, f : ReplyTo(to, f)' <=> ReplyTo(to, f)
      BY <1>1 DEF ReplyTo
    <3>4. \A n \in 1 .. Len(done') : /\ Replied(asked[n].frame, done'[n].frame)
                                     /\ ReplyTo(done'[n].to, asked[n].from)
      <4> HIDE DEF sent, new
      <4> QED BY <2>1, <2>2, <2>3, <2>4, <2>5, <3>1, <3>2 DEF AnswersSent
    <3> QED BY <1>1, <3>3, <3>4 DEF AnswersSent
  <2>7. Resting'
    <3>1. Counts(0, 0)'
      BY <1>1, <2>2, <2>3 DEF Counts
    <3> QED BY <1>1, <2>1, <3>1 DEF Replying, Resting
  <2> QED BY <1>1, <2>1, <2>6, <2>7 DEF TcpSafe, Asked, Executed
<1> QED BY <1>1, <1>5, <1>6 DEF TcpInv

\* Every step keeps the invariant.
LEMMA TcpNext == TcpInv /\ [Tcp!Next]_Tcp!vars => TcpInv'
<1> SUFFICES ASSUME TcpInv, [Tcp!Next]_Tcp!vars PROVE TcpInv'
  OBVIOUS
<1>1. CASE UNCHANGED Tcp!vars
  <2>1. UNCHANGED <<link, clients, stream, net, segment, rx_tcp_buffer, rx_tcp_size, queue, usLength,
                    poll, regs, asked, answered, done, early>>
    BY <1>1 DEF Tcp!vars, Tcp!net_vars, Tcp!buffer, Tcp!poll_vars
  <2>2. TcpTypes'
    BY <2>1 DEF TcpInv, TcpTypes, Tcp!Segments
  <2>3. TcpSafe => TcpSafe'
    BY <2>1 DEF TcpSafe, Resting, Copied, Posted, Taken, Replying, Counts, LastAsked, InBuffer, Asked,
       Executed, AnswersSent, ReplyTo, Tcp!IsModbus
  <2> QED BY <2>1, <2>2, <2>3 DEF TcpInv
<1> QED
  BY <1>1, TcpClients, TcpReads, TcpSizes, TcpPosts, TcpPollReceived, TcpPollExecute, TcpSend
  DEF Tcp!Next, Tcp!Server, Tcp!Poll

\* What the invariant says of the properties.
LEMMA TcpHolds == TcpInv => Tcp!ExecutedOnce /\ Tcp!AnswersGoBack
<1> SUFFICES ASSUME TcpInv, ~early
             PROVE  /\ Len(answered) <= Len(asked)
                    /\ \A n \in DOMAIN answered :
                           answered[n] = SubSeq(asked[n].frame, 8, Len(asked[n].frame))
                    /\ \A n \in DOMAIN done :
                           /\ \A i \in (1 .. 4) \cup {7} : done[n].frame[i] = asked[n].frame[i]
                           /\ 256 * done[n].frame[5] + done[n].frame[6] = Len(done[n].frame) - 6
                           /\ done[n].frame[8] % 128 = asked[n].frame[8] % 128
                           /\ done[n].to = asked[n].from \/ done[n].to \in {0} \cup asked[n].from + 1 .. clients
  BY DEF Tcp!ExecutedOnce, Tcp!AnswersGoBack, Tcp!MB_TCP_FUNC, Tcp!MB_TCP_UID
<1>1. TcpSafe
  BY DEF TcpInv
<1>2. /\ DOMAIN answered = 1 .. Len(answered) /\ DOMAIN done = 1 .. Len(done)
      /\ Len(answered) <= Len(asked)
  BY <1>1, TcpCounted
<1>3. (1 .. 4) \cup {7} = {1, 2, 3, 4, 7}
  OBVIOUS
<1> QED BY <1>1, <1>2, <1>3 DEF TcpSafe, Executed, AnswersSent, Replied, ReplyTo

-----------------------------------------------------------------------------
(* The slave in any of its modes. *)

\* One mode is all there ever is: the histories of the others stay empty.
SlaveInv ==
    /\ mode \in {"RTU", "ASCII", "TCP"}
    /\ mode = "RTU" => RtuInv
    /\ mode = "ASCII" => AsciiInv
    /\ IF mode = "TCP" THEN TcpInv /\ executed = <<>> /\ expected = <<>> /\ aborted = FALSE
                       ELSE asked = <<>> /\ answered = <<>> /\ done = <<>>

\* The invariant holds at the start,
LEMMA SlaveBegins == SlaveInit => SlaveInv
<1> SUFFICES ASSUME SlaveInit PROVE SlaveInv
  OBVIOUS
<1>1. /\ mode \in {"RTU", "ASCII", "TCP"} /\ Tcp!ServerInit
      /\ (mode = "ASCII" => AsciiInit) /\ (mode # "ASCII" => Init)
  BY DEF SlaveInit
<1>2. asked = <<>> /\ answered = <<>> /\ done = <<>>
  BY <1>1 DEF Tcp!ServerInit
<1>3. mode = "TCP" => TcpInv /\ executed = <<>> /\ expected = <<>> /\ aborted = FALSE
  BY <1>1, TcpInit DEF Init
<1> QED BY <1>1, <1>2, <1>3, RtuInit, AsciiBegins DEF SlaveInv

\* and every step of the mode keeps it.
LEMMA SlaveSteps == SlaveInv /\ [SlaveNext]_allVars => SlaveInv'
<1> SUFFICES ASSUME SlaveInv, [SlaveNext]_allVars PROVE SlaveInv'
  OBVIOUS
<1>1. CASE RtuStep(Next)
  <2>1. mode = "RTU" /\ [Next]_vars /\ UNCHANGED <<mode, asked, answered, done>>
    BY <1>1 DEF RtuStep, tcp_only
  <2> QED BY <2>1, RtuNext DEF SlaveInv
<1>2. CASE AsciiStep(AsciiNext)
  <2>1. mode = "ASCII" /\ [AsciiNext]_asciiVars /\ UNCHANGED <<mode, asked, answered, done>>
    BY <1>2 DEF AsciiStep, tcp_only
  <2> QED BY <2>1, AsciiSteps DEF SlaveInv
<1>3. CASE TcpStep(Tcp!Next)
  <2>1. mode = "TCP" /\ [Tcp!Next]_Tcp!vars /\ UNCHANGED <<mode, executed, expected, aborted>>
    BY <1>3 DEF TcpStep, serial_only
  <2> QED BY <2>1, TcpNext DEF SlaveInv
<1>4. CASE UNCHANGED allVars
  <2>1. UNCHANGED <<mode, vars, asciiVars, asked, answered, done>>
    BY <1>4 DEF allVars, asciiVars, tcp_only
  <2>2. UNCHANGED <<executed, expected, aborted, queue, usLength, regs>>
    BY <2>1 DEF vars, poll_vars
  <2>3. UNCHANGED Tcp!vars
    <3>1. UNCHANGED <<link, stream, net, segment, rx_tcp_buffer, rx_tcp_size, poll, segments, clients,
                      asked, answered, done, early>>
      BY <1>4 DEF allVars, tcp_only
    <3> QED BY <2>2, <3>1 DEF Tcp!vars, Tcp!net_vars, Tcp!buffer, Tcp!poll_vars
  <2> QED BY <2>1, <2>2, <2>3, RtuNext, AsciiSteps, TcpNext DEF SlaveInv
<1> QED BY <1>1, <1>2, <1>3, <1>4 DEF SlaveNext

\* RtuInv, AsciiInv or TcpInv holds of the slave, in the mode that MODBUS_RUN_MODE chooses.
THEOREM SlaveInvariance == SlaveSpec => []SlaveInv
<1>1. SlaveInit => SlaveInv
  BY SlaveBegins
<1>2. SlaveInv /\ [SlaveNext]_allVars => SlaveInv'
  BY SlaveSteps
<1> QED BY <1>1, <1>2, PTL DEF SlaveSpec

\* In each mode eMBPoll executes the requests that came whole, each once and in
\* order, as they came (eMBPoll, eMBRTUReceive, eMBASCIIReceive, eMBTCPReceive).
THEOREM RequestsExecuted == SlaveSpec => []ExecutedAsReceived
<1>1. SlaveInv => ExecutedAsReceived
  <2> SUFFICES ASSUME SlaveInv PROVE ExecutedAsReceived
    OBVIOUS
  <2>1. CASE mode = "TCP"
    <3>1. Len(executed) = 0 /\ Len(expected) = 0 /\ executed = SubSeq(expected, 1, 0)
      BY <2>1 DEF SlaveInv
    <3> QED BY <2>1, <3>1, TcpHolds DEF SlaveInv, ExecutedAsReceived, ExecutedInOrder
  <2>2. CASE mode # "TCP"
    <3>1. Tcp!ExecutedOnce
      BY <2>2 DEF SlaveInv, Tcp!ExecutedOnce
    <3>2. "misread" \notin mishaps => ExecutedInOrder
      BY <2>2, RtuInOrder, AsciiInOrder DEF SlaveInv
    <3> QED BY <3>1, <3>2 DEF ExecutedAsReceived
  <2> QED BY <2>1, <2>2
<1> QED BY <1>1, SlaveInvariance, PTL

\* The asserts of mbrtu.c and mbascii.c fail for the reasons named and for no other.
THEOREM AssertsFail == SlaveSpec => []AbortsAsTold
<1>1. SlaveInv => AbortsAsTold
  BY DEF SlaveInv, AbortsAsTold, AsciiInv, RtuInv, AbortsOnlyEarly
<1> QED BY <1>1, SlaveInvariance, PTL

\* Over TCP every answer has its request's header and goes to who asked; in ASCII
\* it is a frame that says what eMBPoll answered.
THEOREM AnswersReturned == SlaveSpec => []AnswersGoBack
<1>1. SlaveInv => AnswersGoBack
  <2> SUFFICES ASSUME SlaveInv PROVE AnswersGoBack
    OBVIOUS
  <2>1. mode = "ASCII" => AsciiAnswerIsFrame
    BY AnswerSpelled DEF SlaveInv
  <2>2. Tcp!AnswersGoBack
    <3>1. mode # "TCP" => done = <<>>
      BY DEF SlaveInv
    <3>2. done = <<>> => Tcp!AnswersGoBack
      BY DEF Tcp!AnswersGoBack
    <3> QED BY <3>1, <3>2, TcpHolds DEF SlaveInv
  <2> QED BY <2>1, <2>2 DEF AnswersGoBack
<1> QED BY <1>1, SlaveInvariance, PTL
=============================================================================
