---------------------------- MODULE BufferProofs ----------------------------
(***************************************************************************)
(* Proofs about Buffer, for any sizes and any bytes.                       *)
(***************************************************************************)
EXTENDS Buffer, Integers, TLAPS

(* A Buffer as its functions leave it: the indices in order, and never     *)
(* shorter than the prepend space.                                         *)
Well(s, r, w) ==
  /\ s \in Seq(Bytes) /\ r \in Nat /\ w \in Nat
  /\ r <= w /\ w <= Len(s) /\ kCheapPrepend <= Len(s)

(* The inductive invariant of the two theorems.                            *)
BufferInv ==
  /\ Well(buffer_, readerIndex_, writerIndex_)
  /\ content \in Seq(Bytes) /\ ContentIntact
  /\ writerIndex_ - readerIndex_ <= MaxReadable
  /\ Len(buffer_) <= kCheapPrepend + initialSize \/ Len(buffer_) <= kCheapPrepend + 2 * MaxReadable
-----------------------------------------------------------------------------
(* Sequences.                                                              *)
LEMMA SameSeq ==
  ASSUME NEW s \in Seq(Bytes), NEW t \in Seq(Bytes), Len(s) = Len(t),
         \A i \in 1..Len(s) : s[i] = t[i]
  PROVE  s = t
OBVIOUS

LEMMA PartFacts ==
  ASSUME NEW s \in Seq(Bytes), NEW m \in Nat, NEW n \in Nat, m <= n, n <= Len(s),
         NEW t, t = SubSeq(s, m + 1, n)
  PROVE  /\ t \in Seq(Bytes) /\ Len(t) = n - m
         /\ \A i \in 1..(n - m) : t[i] = s[m + i]
OBVIOUS

LEMMA JoinFacts ==
  ASSUME NEW s \in Seq(Bytes), NEW t \in Seq(Bytes), NEW u, u = s \o t
  PROVE  /\ u \in Seq(Bytes) /\ Len(u) = Len(s) + Len(t)
         /\ \A i \in 1..Len(s) : u[i] = s[i]
         /\ \A i \in 1..Len(t) : u[Len(s) + i] = t[i]
OBVIOUS

LEMMA ZerosFacts == ASSUME NEW n \in Nat PROVE Zeros(n) \in Seq(Bytes) /\ Len(Zeros(n)) = n
<1>1. Zero \in Bytes
  BY BytesAssumption DEF Zero
<1> QED
  BY <1>1 DEF Zeros

LEMMA CopyFacts ==
  ASSUME NEW buffer \in Seq(Bytes), NEW data \in Seq(Bytes), NEW at \in Nat,
         at + Len(data) <= Len(buffer), NEW t, t = Copy(buffer, at, data)
  PROVE  /\ t \in Seq(Bytes) /\ Len(t) = Len(buffer)
         /\ \A i \in 1..Len(data) : t[at + i] = data[i]
         /\ \A i \in 1..Len(buffer) : i \notin at + 1..at + Len(data) => t[i] = buffer[i]
<1>1. \A i \in 1..Len(buffer) : i \in at + 1..at + Len(data) => i - at \in 1..Len(data)
  OBVIOUS
<1>2. \A i \in 1..Len(buffer) :
        (IF i \in at + 1..at + Len(data) THEN data[i - at] ELSE buffer[i]) \in Bytes
  BY <1>1
<1>3. t \in [1..Len(buffer) -> Bytes]
  BY <1>2 DEF Copy
<1>4. t \in Seq(Bytes) /\ Len(t) = Len(buffer)
  BY <1>3
<1>5. \A i \in 1..Len(data) : t[at + i] = data[i]
  BY DEF Copy
<1>6. \A i \in 1..Len(buffer) : i \notin at + 1..at + Len(data) => t[i] = buffer[i]
  BY DEF Copy
<1> QED
  BY <1>4, <1>5, <1>6

(* The functions on a Buffer, in terms of its members.                     *)
LEMMA Members ==
  ASSUME NEW s, NEW r, NEW w
  PROVE  /\ Buf(s, r, w).buffer = s /\ Buf(s, r, w).reader = r /\ Buf(s, r, w).writer = w
         /\ Readable(Buf(s, r, w)) = SubSeq(s, r + 1, w)
         /\ readableBytes(Buf(s, r, w)) = w - r
         /\ writableBytes(Buf(s, r, w)) = Len(s) - w
         /\ prependableBytes(Buf(s, r, w)) = r
BY DEF Buf, Readable, readableBytes, writableBytes, prependableBytes
-----------------------------------------------------------------------------
(* makeSpace: the readable bytes stay, there is room for len more, and     *)
(* bytes that are moved are moved towards the front.                       *)
LEMMA SpaceFacts ==
  ASSUME NEW s \in Seq(Bytes), NEW r \in Nat, NEW w \in Nat, Well(s, r, w), NEW len \in Nat, Len(s) - w < len
  PROVE  \E s2 \in Seq(Bytes), r2 \in Nat, w2 \in Nat :
           /\ makeSpace(Buf(s, r, w), len) = Buf(s2, r2, w2)
           /\ Well(s2, r2, w2) /\ SubSeq(s2, r2 + 1, w2) = SubSeq(s, r + 1, w)
           /\ w2 - r2 = w - r /\ Len(s2) - w2 >= len
           /\ Len(s2) = Len(s) => kCheapPrepend < r
           /\ Len(s2) = Len(s) \/ Len(s2) <= kCheapPrepend + (w - r) + 2 * len
<1> USE BufferAssumption
<1>1. /\ s \in Seq(Bytes) /\ Len(s) \in Nat /\ r \in Nat /\ w \in Nat
      /\ r <= w /\ w <= Len(s) /\ kCheapPrepend <= Len(s)
  BY DEF Well
<1>a. SubSeq(s, r + 1, w) \in Seq(Bytes)
  BY <1>1
<1>2. PICK data \in Seq(Bytes) : data = SubSeq(s, r + 1, w)
  BY <1>a, Zenon
<1>3. Len(data) = w - r /\ \A i \in 1..(w - r) : data[i] = s[r + i]
  BY <1>1, <1>2, PartFacts
<1>4. TooSmall(Buf(s, r, w), len) <=> Len(s) - w + r < len + kCheapPrepend
  BY DEF TooSmall, Buf, writableBytes, prependableBytes
<1>5. CASE TooSmall(Buf(s, r, w), len)
  <2>m. w + len - Len(s) \in Nat /\ w + len - Len(s) > 0
    BY <1>1
  <2>1. PICK more \in Nat : more = w + len - Len(s) /\ more > 0
    BY <2>m, Zenon
  <2>b. PICK z \in Seq(Bytes) : z = Zeros(more) /\ Len(z) = more
    BY ZerosFacts, Zenon
  <2>c. s \o z \in Seq(Bytes)
    OBVIOUS
  <2>a. PICK s2 \in Seq(Bytes) : s2 = s \o z
    BY <2>c, Zenon
  <2>2. Len(s2) = Len(s) + more /\ \A i \in 1..Len(s) : s2[i] = s[i]
    <3>1. Len(s2) = Len(s) + Len(z) /\ \A i \in 1..Len(s) : s2[i] = s[i]
      BY <2>a
    <3> QED
      BY <2>b, <3>1
  <2>3. makeSpace(Buf(s, r, w), len) = Buf(s2, r, w)
    BY <1>5, <2>1, <2>a, <2>b DEF makeSpace, Buf
  <2>4. Well(s2, r, w)
    BY <1>1, <2>1, <2>2 DEF Well
  <2>5. SubSeq(s2, r + 1, w) = data
    <3>1. w <= Len(s2)
      BY <1>1, <2>2
    <3>a. PICK t : t = SubSeq(s2, r + 1, w)
      OBVIOUS
    <3>2. t \in Seq(Bytes) /\ Len(t) = w - r /\ \A i \in 1..(w - r) : t[i] = s2[r + i]
      BY <1>1, <2>2, <3>1, <3>a, PartFacts
    <3>3. \A i \in 1..(w - r) : r + i \in 1..Len(s)
      BY <1>1
    <3>4. ASSUME NEW i \in 1..(w - r) PROVE t[i] = data[i]
      BY <1>3, <2>2, <3>2, <3>3, <3>4
    <3> QED
      BY <1>3, <3>a, <3>2, <3>4, SameSeq
  <2>6. Len(s2) - w >= len /\ Len(s2) # Len(s) /\ Len(s2) <= kCheapPrepend + (w - r) + 2 * len
    BY <1>1, <1>4, <1>5, <2>1, <2>2
  <2> QED
    BY <1>2, <2>3, <2>4, <2>5, <2>6
<1>6. CASE ~TooSmall(Buf(s, r, w), len)
  <2>1. kCheapPrepend + (w - r) + len <= Len(s) /\ kCheapPrepend < r
    BY <1>1, <1>4, <1>6
  <2>a. PICK s2 : s2 = Copy(s, kCheapPrepend, data)
    OBVIOUS
  <2>2. /\ s2 \in Seq(Bytes) /\ Len(s2) = Len(s)
        /\ \A i \in 1..(w - r) : s2[kCheapPrepend + i] = data[i]
    <3>1. kCheapPrepend + Len(data) <= Len(s)
      BY <1>1, <1>3, <2>1
    <3>2. /\ s2 \in Seq(Bytes) /\ Len(s2) = Len(s)
          /\ \A i \in 1..Len(data) : s2[kCheapPrepend + i] = data[i]
      BY <2>a, <3>1, CopyFacts
    <3> QED
      BY <1>3, <3>2
  <2>3. PICK w2 \in Nat : w2 = kCheapPrepend + (w - r)
    BY <1>1
  <2>4. makeSpace(Buf(s, r, w), len) = Buf(s2, kCheapPrepend, w2)
    BY <1>2, <1>6, <2>a, <2>3 DEF makeSpace, Buf, Readable, readableBytes
  <2>5. /\ Well(s2, kCheapPrepend, w2) /\ w2 - kCheapPrepend = w - r
        /\ Len(s2) - w2 >= len
    BY <1>1, <2>1, <2>2, <2>3 DEF Well
  <2>6. SubSeq(s2, kCheapPrepend + 1, w2) = data
    <3>a. PICK t : t = SubSeq(s2, kCheapPrepend + 1, w2)
      OBVIOUS
    <3>1. /\ t \in Seq(Bytes) /\ Len(t) = w - r
          /\ \A i \in 1..(w - r) : t[i] = s2[kCheapPrepend + i]
      BY <2>5, <3>a, PartFacts DEF Well
    <3> QED
      BY <1>3, <2>2, <3>a, <3>1, SameSeq
  <2> QED
    BY <1>2, <2>1, <2>2, <2>4, <2>5, <2>6
<1> QED
  BY <1>5, <1>6

(* append: what is readable afterwards.                                    *)
LEMMA AppendedFacts ==
  ASSUME NEW s \in Seq(Bytes), NEW r \in Nat, NEW w \in Nat, Well(s, r, w), NEW data \in Seq(Bytes)
  PROVE  \E s2 \in Seq(Bytes), r2 \in Nat, w2 \in Nat :
           /\ Appended(Buf(s, r, w), data) = Buf(s2, r2, w2)
           /\ Well(s2, r2, w2) /\ SubSeq(s2, r2 + 1, w2) = SubSeq(s, r + 1, w) \o data
           /\ w2 - r2 = (w - r) + Len(data)
           /\ Len(s2) = Len(s) \/ Len(s2) <= kCheapPrepend + (w - r) + 2 * Len(data)
<1> USE BufferAssumption
<1> DEFINE len == Len(data)
<1>1. PICK s1 \in Seq(Bytes), r1 \in Nat, w1 \in Nat :
        /\ ensureWritableBytes(Buf(s, r, w), len) = Buf(s1, r1, w1)
        /\ Well(s1, r1, w1) /\ SubSeq(s1, r1 + 1, w1) = SubSeq(s, r + 1, w)
        /\ w1 - r1 = w - r /\ Len(s1) - w1 >= len
        /\ Len(s1) = Len(s) \/ Len(s1) <= kCheapPrepend + (w - r) + 2 * len
  <2>1. CASE Len(s) - w < len
    BY <2>1, SpaceFacts, Members DEF ensureWritableBytes
  <2>2. CASE ~(Len(s) - w < len)
    <3>1. ensureWritableBytes(Buf(s, r, w), len) = Buf(s, r, w)
      BY <2>2, Members DEF ensureWritableBytes
    <3>2. Len(s) - w >= len
      BY <2>2 DEF Well
    <3> QED
      BY <3>1, <3>2
  <2> QED
    BY <2>1, <2>2
<1>2. /\ s1 \in Seq(Bytes) /\ Len(s1) \in Nat /\ r1 \in Nat /\ w1 \in Nat
      /\ r1 <= w1 /\ w1 + len <= Len(s1) /\ w1 <= Len(s1) /\ kCheapPrepend <= Len(s1)
  BY <1>1 DEF Well
<1>c. Copy(s1, w1, data) \in Seq(Bytes)
  BY <1>2, CopyFacts
<1>a. PICK s2 \in Seq(Bytes) : s2 = Copy(s1, w1, data)
  BY <1>c, Zenon
<1>3. /\ s2 \in Seq(Bytes) /\ Len(s2) = Len(s1)
      /\ \A i \in 1..len : s2[w1 + i] = data[i]
      /\ \A i \in 1..w1 : s2[i] = s1[i]
  <2>1. w1 + Len(data) <= Len(s1)
    BY <1>2
  <2>2. /\ s2 \in Seq(Bytes) /\ Len(s2) = Len(s1)
        /\ \A i \in 1..Len(data) : s2[w1 + i] = data[i]
        /\ \A i \in 1..Len(s1) : i \notin w1 + 1..w1 + Len(data) => s2[i] = s1[i]
    BY ONLY <1>a, <2>1, CopyFacts, s1 \in Seq(Bytes), data \in Seq(Bytes), w1 \in Nat, SMT
  <2>3. \A i \in 1..w1 : i \in 1..Len(s1) /\ i \notin w1 + 1..w1 + len
    BY <1>2
  <2> QED
    BY <2>2, <2>3
<1>b. w1 + len \in Nat
  OBVIOUS
<1>4. PICK w2 \in Nat : w2 = w1 + len
  BY <1>b, Zenon
<1>5. Appended(Buf(s, r, w), data) = Buf(s2, r1, w2)
  BY <1>1, <1>a, <1>4 DEF Appended, Buf
<1>6. Well(s2, r1, w2)
  BY <1>2, <1>3, <1>4 DEF Well
<1>7. SubSeq(s2, r1 + 1, w2) = SubSeq(s1, r1 + 1, w1) \o data
  <2>1. r1 <= w1 /\ w1 <= Len(s1) /\ r1 <= w2 /\ w2 <= Len(s2)
    BY <1>2, <1>3, <1>4
  <2>2. SubSeq(s1, r1 + 1, w1) \in Seq(Bytes) /\ SubSeq(s2, r1 + 1, w2) \in Seq(Bytes)
    BY <2>1
  <2>3. PICK old \in Seq(Bytes) : old = SubSeq(s1, r1 + 1, w1)
    BY <2>2, Zenon
  <2>4. PICK new \in Seq(Bytes) : new = SubSeq(s2, r1 + 1, w2)
    BY <2>2, Zenon
  <2>5. old \o data \in Seq(Bytes)
    OBVIOUS
  <2>6. PICK both \in Seq(Bytes) : both = old \o data
    BY <2>5, Zenon
  <2>7. Len(old) = w1 - r1 /\ \A i \in 1..Len(old) : old[i] = s1[r1 + i]
    BY <2>1, <2>3
  <2>8. Len(new) = w2 - r1 /\ \A i \in 1..Len(new) : new[i] = s2[r1 + i]
    BY <2>1, <2>4
  <2>9. /\ Len(both) = Len(old) + Len(data)
        /\ \A i \in 1..Len(old) : both[i] = old[i]
        /\ \A i \in 1..Len(data) : both[Len(old) + i] = data[i]
    BY <2>6, JoinFacts
  <2>10. Len(new) = Len(both)
    BY <1>4, <2>7, <2>8, <2>9
  <2>11. ASSUME NEW i \in 1..Len(new) PROVE new[i] = both[i]
    <3>1. CASE i \in 1..Len(old)
      <4>1. r1 + i \in 1..w1
        BY <2>7, <3>1
      <4> QED
        BY <1>3, <2>7, <2>8, <2>9, <3>1, <4>1
    <3>2. CASE i \notin 1..Len(old)
      <4>a. i - Len(old) \in Int
        OBVIOUS
      <4>1. PICK j \in Int : j = i - Len(old)
        BY <4>a, Zenon
      <4>2. j \in 1..Len(data) /\ r1 + i = w1 + j /\ i = Len(old) + j
        BY <1>4, <2>7, <2>8, <3>2, <4>1
      <4>3. new[i] = data[j]
        BY <1>3, <2>8, <4>2
      <4> QED
        BY <2>9, <4>2, <4>3
    <3> QED
      BY <3>1, <3>2
  <2>12. new = both
    BY <2>10, <2>11, SameSeq
  <2> QED
    BY <2>3, <2>4, <2>6, <2>12, Zenon
<1>8. w2 - r1 = (w - r) + len
  <2>1. w1 - r1 = w - r
    BY <1>1
  <2> QED
    BY <1>4, <2>1
<1> QED
  BY <1>1, <1>3, <1>5, <1>6, <1>7, <1>8

(* readFd: what extrabuf took is appended to what the buffer took.         *)
LEMMA ReadFacts ==
  ASSUME NEW s \in Seq(Bytes), NEW r \in Nat, NEW w \in Nat, Well(s, r, w), NEW data \in Seq(Bytes)
  PROVE  \E s2 \in Seq(Bytes), r2 \in Nat, w2 \in Nat :
           /\ readFdInto(Buf(s, r, w), data) = Buf(s2, r2, w2)
           /\ Well(s2, r2, w2) /\ SubSeq(s2, r2 + 1, w2) = SubSeq(s, r + 1, w) \o data
           /\ w2 - r2 = (w - r) + Len(data)
           /\ Len(s2) = Len(s) \/ Len(s2) <= kCheapPrepend + (w - r) + 2 * Len(data)
<1> USE BufferAssumption
<1>1. r <= w /\ w <= Len(s)
  BY DEF Well
<1>2. CASE Len(data) <= Len(s) - w
  <2>1. readFdInto(Buf(s, r, w), data) = Appended(Buf(s, r, w), data)
    BY <1>2 DEF readFdInto, Appended, ensureWritableBytes, writableBytes, Buf
  <2>2. PICK s2 \in Seq(Bytes), r2 \in Nat, w2 \in Nat :
          /\ Appended(Buf(s, r, w), data) = Buf(s2, r2, w2)
          /\ Well(s2, r2, w2) /\ SubSeq(s2, r2 + 1, w2) = SubSeq(s, r + 1, w) \o data
          /\ w2 - r2 = (w - r) + Len(data)
          /\ Len(s2) = Len(s) \/ Len(s2) <= kCheapPrepend + (w - r) + 2 * Len(data)
    BY AppendedFacts
  <2>3. readFdInto(Buf(s, r, w), data) = Buf(s2, r2, w2)
    BY <2>1, <2>2, Zenon
  <2> QED
    BY <2>2, <2>3, Zenon
<1>3. CASE ~(Len(data) <= Len(s) - w)
  <2>1. Len(s) - w \in Nat
    BY <1>1
  <2>2. PICK n \in Nat : n = Len(s) - w
    BY <2>1, Zenon
  <2>3. n < Len(data) /\ w + n = Len(s)
    BY <1>3, <2>2
  <2>4. SubSeq(data, 1, n) \in Seq(Bytes) /\ SubSeq(data, n + 1, Len(data)) \in Seq(Bytes)
    BY <2>3
  <2>5. PICK first \in Seq(Bytes) : first = SubSeq(data, 1, n)
    BY <2>4, Zenon
  <2>6. PICK rest \in Seq(Bytes) : rest = SubSeq(data, n + 1, Len(data))
    BY <2>4, Zenon
  <2>7. Len(first) = n /\ Len(rest) = Len(data) - n /\ data = first \o rest
    <3>1. Len(first) = n /\ \A i \in 1..n : first[i] = data[i]
      BY <2>3, <2>5
    <3>2. Len(rest) = Len(data) - n /\ \A i \in 1..Len(rest) : rest[i] = data[n + i]
      BY <2>3, <2>6
    <3>3. first \o rest \in Seq(Bytes)
      OBVIOUS
    <3>4. PICK both \in Seq(Bytes) : both = first \o rest
      BY <3>3, Zenon
    <3>5. /\ Len(both) = Len(first) + Len(rest)
          /\ \A i \in 1..Len(first) : both[i] = first[i]
          /\ \A i \in 1..Len(rest) : both[Len(first) + i] = rest[i]
      BY <3>4, JoinFacts
    <3>6. Len(both) = Len(data)
      BY <3>1, <3>2, <3>5
    <3>7. ASSUME NEW i \in 1..Len(data) PROVE data[i] = both[i]
      <4>1. CASE i \in 1..n
        BY <3>1, <3>5, <4>1
      <4>2. CASE i \notin 1..n
        <5>1. i - n \in 1..Len(rest) /\ n + (i - n) = i
          BY <3>2, <4>2
        <5>2. PICK j \in 1..Len(rest) : j = i - n
          BY <5>1, Zenon
        <5>3. n + j = i
          BY <5>2
        <5>4. rest[j] = data[i]
          BY <3>2, <5>3
        <5>5. both[n + j] = rest[j]
          BY <3>1, <3>5
        <5> QED
          BY <5>3, <5>4, <5>5
      <4> QED
        BY <4>1, <4>2
    <3>8. data = both
      BY <3>6, <3>7, SameSeq
    <3>9. data = first \o rest
      BY <3>4, <3>8, Zenon
    <3> QED
      BY <3>1, <3>2, <3>9, Zenon
  <2>8. Appended(Buf(s, r, w), first) = Buf(Copy(s, w, first), r, Len(s))
    BY <2>2, <2>3, <2>7 DEF Appended, ensureWritableBytes, writableBytes, Buf
  <2>9. readFdInto(Buf(s, r, w), data) = Appended(Appended(Buf(s, r, w), first), rest)
    <3>1. readFdInto(Buf(s, r, w), data) = Appended(Buf(Copy(s, w, first), r, Len(s)), rest)
      BY <1>3, <2>2, <2>5, <2>6 DEF readFdInto, InExtrabuf, writableBytes, Buf
    <3> QED
      BY <2>8, <3>1
  <2>10. PICK s1 \in Seq(Bytes), r1 \in Nat, w1 \in Nat :
           /\ Appended(Buf(s, r, w), first) = Buf(s1, r1, w1)
           /\ Well(s1, r1, w1) /\ SubSeq(s1, r1 + 1, w1) = SubSeq(s, r + 1, w) \o first
           /\ w1 - r1 = (w - r) + Len(first)
           /\ Len(s1) = Len(s) \/ Len(s1) <= kCheapPrepend + (w - r) + 2 * Len(first)
    BY AppendedFacts
  <2>11. PICK s2 \in Seq(Bytes), r2 \in Nat, w2 \in Nat :
           /\ Appended(Buf(s1, r1, w1), rest) = Buf(s2, r2, w2)
           /\ Well(s2, r2, w2) /\ SubSeq(s2, r2 + 1, w2) = SubSeq(s1, r1 + 1, w1) \o rest
           /\ w2 - r2 = (w1 - r1) + Len(rest)
           /\ Len(s2) = Len(s1) \/ Len(s2) <= kCheapPrepend + (w1 - r1) + 2 * Len(rest)
    BY <2>10, AppendedFacts
  <2>12. readFdInto(Buf(s, r, w), data) = Buf(s2, r2, w2)
    BY <2>9, <2>10, <2>11
  <2>13. SubSeq(s2, r2 + 1, w2) = SubSeq(s, r + 1, w) \o data
    <3>1. SubSeq(s, r + 1, w) \in Seq(Bytes)
      BY <1>1
    <3>2. PICK old \in Seq(Bytes) : old = SubSeq(s, r + 1, w)
      BY <3>1, Zenon
    <3>3. (old \o first) \o rest = old \o (first \o rest)
      OBVIOUS
    <3>4. SubSeq(s2, r2 + 1, w2) = (old \o first) \o rest
      BY <2>10, <2>11, <3>2, Zenon
    <3> QED
      BY <2>7, <3>2, <3>3, <3>4, Zenon
  <2>14. w2 - r2 = (w - r) + Len(data)
    <3>1. w1 - r1 = (w - r) + n /\ w2 - r2 = (w1 - r1) + Len(rest)
      BY <2>7, <2>10, <2>11, Zenon
    <3>2. Len(rest) = Len(data) - n
      BY <2>7, Zenon
    <3> QED
      BY <3>1, <3>2
  <2>15. Len(s2) = Len(s) \/ Len(s2) <= kCheapPrepend + (w - r) + 2 * Len(data)
    <3>1. /\ w1 - r1 = (w - r) + n
          /\ Len(s1) = Len(s) \/ Len(s1) <= kCheapPrepend + (w - r) + 2 * n
          /\ Len(s2) = Len(s1) \/ Len(s2) <= kCheapPrepend + (w1 - r1) + 2 * Len(rest)
      BY <2>7, <2>10, <2>11, Zenon
    <3>2. Len(rest) = Len(data) - n
      BY <2>7, Zenon
    <3> QED
      BY <2>3, <3>1, <3>2
  <2> QED
    BY <2>11, <2>12, <2>13, <2>14, <2>15
<1> QED
  BY <1>2, <1>3
-----------------------------------------------------------------------------
(* The actions.                                                            *)

(* A Buffer that took data in, as append and readFd do.                    *)
LEMMA TakenIn ==
  ASSUME BufferInv, NEW data \in Seq(Bytes), writerIndex_ - readerIndex_ + Len(data) <= MaxReadable,
         NEW s2 \in Seq(Bytes), NEW r2 \in Nat, NEW w2 \in Nat,
         Becomes(Buf(s2, r2, w2)), content' = content \o data,
         Well(s2, r2, w2),
         SubSeq(s2, r2 + 1, w2) = SubSeq(buffer_, readerIndex_ + 1, writerIndex_) \o data,
         w2 - r2 = (writerIndex_ - readerIndex_) + Len(data),
         \/ Len(s2) = Len(buffer_)
         \/ Len(s2) <= kCheapPrepend + (writerIndex_ - readerIndex_) + 2 * Len(data)
  PROVE  BufferInv'
<1> USE BufferAssumption
<1>1. buffer_' = s2 /\ readerIndex_' = r2 /\ writerIndex_' = w2
  BY DEF Becomes, Buf
<1>2. /\ buffer_ \in Seq(Bytes) /\ readerIndex_ \in Nat /\ writerIndex_ \in Nat
      /\ readerIndex_ <= writerIndex_ /\ content \in Seq(Bytes)
  BY DEF BufferInv, Well
<1>3. Well(buffer_, readerIndex_, writerIndex_)'
  BY <1>1
<1>4. content' \in Seq(Bytes)
  BY <1>2
<1>5. ContentIntact'
  <2>1. SubSeq(buffer_, readerIndex_ + 1, writerIndex_) = content
    BY DEF BufferInv, ContentIntact, Readable, This, Buf
  <2>2. SubSeq(s2, r2 + 1, w2) = content \o data
    BY <2>1, Zenon
  <2>3. SubSeq(buffer_', readerIndex_' + 1, writerIndex_') = content'
    BY <1>1, <2>2, Zenon
  <2> QED
    BY <2>3 DEF ContentIntact, Readable, This, Buf
<1>6. writerIndex_' - readerIndex_' <= MaxReadable
  BY <1>1, <1>2
<1>7. (Len(buffer_) <= kCheapPrepend + initialSize \/ Len(buffer_) <= kCheapPrepend + 2 * MaxReadable)'
  BY <1>1, <1>2 DEF BufferInv
<1> QED
  BY <1>3, <1>4, <1>5, <1>6, <1>7 DEF BufferInv

LEMMA AppendKeeps == ASSUME BufferInv, NEW data \in Seq(Bytes), append(data) PROVE BufferInv'
<1>1. PICK s2 \in Seq(Bytes), r2 \in Nat, w2 \in Nat :
        /\ Appended(This, data) = Buf(s2, r2, w2)
        /\ Well(s2, r2, w2)
        /\ SubSeq(s2, r2 + 1, w2) = SubSeq(buffer_, readerIndex_ + 1, writerIndex_) \o data
        /\ w2 - r2 = (writerIndex_ - readerIndex_) + Len(data)
        /\ \/ Len(s2) = Len(buffer_)
           \/ Len(s2) <= kCheapPrepend + (writerIndex_ - readerIndex_) + 2 * Len(data)
  BY AppendedFacts DEF BufferInv, Well, This
<1>2. Becomes(Buf(s2, r2, w2)) /\ content' = content \o data
  BY <1>1, Zenon DEF append
<1>3. writerIndex_ - readerIndex_ + Len(data) <= MaxReadable
  BY DEF append, readableBytes, This, Buf
<1> QED
  BY <1>1, <1>2, <1>3, TakenIn

LEMMA ReadFdKeeps == ASSUME BufferInv, NEW data \in Seq(Bytes), readFd(data) PROVE BufferInv'
<1>1. PICK s2 \in Seq(Bytes), r2 \in Nat, w2 \in Nat :
        /\ readFdInto(This, data) = Buf(s2, r2, w2)
        /\ Well(s2, r2, w2)
        /\ SubSeq(s2, r2 + 1, w2) = SubSeq(buffer_, readerIndex_ + 1, writerIndex_) \o data
        /\ w2 - r2 = (writerIndex_ - readerIndex_) + Len(data)
        /\ \/ Len(s2) = Len(buffer_)
           \/ Len(s2) <= kCheapPrepend + (writerIndex_ - readerIndex_) + 2 * Len(data)
  BY ReadFacts DEF BufferInv, Well, This
<1>2. Becomes(Buf(s2, r2, w2)) /\ content' = content \o data
  BY <1>1, Zenon DEF readFd
<1>3. writerIndex_ - readerIndex_ + Len(data) <= MaxReadable
  BY DEF readFd, readableBytes, This, Buf
<1> QED
  BY <1>1, <1>2, <1>3, TakenIn

LEMMA RetrieveKeeps == ASSUME BufferInv, NEW len \in Nat, retrieve(len) PROVE BufferInv'
<1> USE BufferAssumption
<1>1. /\ buffer_ \in Seq(Bytes) /\ readerIndex_ \in Nat /\ writerIndex_ \in Nat
      /\ readerIndex_ <= writerIndex_ /\ writerIndex_ <= Len(buffer_) /\ content \in Seq(Bytes)
      /\ kCheapPrepend <= Len(buffer_) /\ writerIndex_ - readerIndex_ <= MaxReadable
  BY DEF BufferInv, Well
<1>2. /\ Len(content) = writerIndex_ - readerIndex_
      /\ \A i \in 1..(writerIndex_ - readerIndex_) : content[i] = buffer_[readerIndex_ + i]
  <2>1. content = SubSeq(buffer_, readerIndex_ + 1, writerIndex_)
    BY DEF BufferInv, ContentIntact, Readable, This, Buf
  <2> QED
    BY <1>1, <2>1, PartFacts
<1>3. /\ len <= writerIndex_ - readerIndex_ /\ buffer_' = buffer_
      /\ content' = SubSeq(content, len + 1, Len(content))
  BY DEF retrieve, readableBytes, This, Buf
<1>4. /\ content' \in Seq(Bytes) /\ Len(content') = Len(content) - len
      /\ \A i \in 1..(Len(content) - len) : content'[i] = content[len + i]
  <2>1. len <= Len(content)
    BY <1>2, <1>3
  <2> QED
    BY <1>1, <1>3, <2>1, PartFacts
<1>5. CASE len < writerIndex_ - readerIndex_
  <2>1. readerIndex_' = readerIndex_ + len /\ writerIndex_' = writerIndex_
    BY <1>5 DEF retrieve, readableBytes, This, Buf
  <2>2. Well(buffer_, readerIndex_, writerIndex_)' /\ writerIndex_' - readerIndex_' <= MaxReadable
    BY <1>1, <1>3, <1>5, <2>1 DEF Well
  <2>3. ContentIntact'
    <3>1. SubSeq(buffer_, readerIndex_ + len + 1, writerIndex_) \in Seq(Bytes)
      BY <1>1, <1>3
    <3>2. PICK t \in Seq(Bytes) : t = SubSeq(buffer_, readerIndex_ + len + 1, writerIndex_)
      BY <3>1, Zenon
    <3>3. PICK r \in Nat : r = readerIndex_ + len
      <4>1. readerIndex_ + len \in Nat
        BY <1>1
      <4> QED
        BY <4>1, Zenon
    <3>4. r <= writerIndex_ /\ t = SubSeq(buffer_, r + 1, writerIndex_)
      BY <1>1, <1>3, <3>2, <3>3
    <3>5. Len(t) = writerIndex_ - r /\ \A i \in 1..(writerIndex_ - r) : t[i] = buffer_[r + i]
      BY <1>1, <3>4, PartFacts
    <3>6. Len(t) = Len(content')
      BY <1>1, <1>2, <1>4, <3>3, <3>5
    <3>7. ASSUME NEW i \in 1..Len(t) PROVE t[i] = content'[i]
      <4>1. /\ len + i \in 1..(writerIndex_ - readerIndex_) /\ i \in 1..(Len(content) - len)
            /\ i \in 1..(writerIndex_ - r) /\ r + i = readerIndex_ + (len + i)
        BY <1>1, <1>2, <3>3, <3>5, <3>7
      <4>2. t[i] = buffer_[readerIndex_ + (len + i)]
        BY <3>5, <4>1
      <4>3. content'[i] = content[len + i]
        BY <1>4, <4>1
      <4> QED
        BY <1>2, <4>1, <4>2, <4>3
    <3>8. t = content'
      BY <1>4, <3>6, <3>7, SameSeq
    <3>9. SubSeq(buffer_', readerIndex_' + 1, writerIndex_') = content'
      BY <1>3, <2>1, <3>2, <3>8, Zenon
    <3> QED
      BY <3>9 DEF ContentIntact, Readable, This, Buf
  <2> QED
    BY <1>3, <1>4, <2>2, <2>3 DEF BufferInv
<1>6. CASE ~(len < writerIndex_ - readerIndex_)
  <2>1. readerIndex_' = kCheapPrepend /\ writerIndex_' = kCheapPrepend
    BY <1>6 DEF retrieve, readableBytes, This, Buf
  <2>2. Well(buffer_, readerIndex_, writerIndex_)' /\ writerIndex_' - readerIndex_' <= MaxReadable
    BY <1>1, <1>3, <2>1 DEF Well
  <2>3. content' = <<>>
    <3>1. Len(content') = 0
      BY <1>1, <1>2, <1>3, <1>4, <1>6
    <3> QED
      BY <1>4, <3>1
  <2>4. SubSeq(buffer_, kCheapPrepend + 1, kCheapPrepend) = <<>>
    BY <1>1
  <2>5. SubSeq(buffer_', readerIndex_' + 1, writerIndex_') = content'
    BY <1>3, <2>1, <2>3, <2>4, Zenon
  <2>6. ContentIntact'
    BY <2>5 DEF ContentIntact, Readable, This, Buf
  <2> QED
    BY <1>3, <1>4, <2>2, <2>6 DEF BufferInv
<1> QED
  BY <1>5, <1>6

LEMMA PrependKeeps == ASSUME BufferInv, NEW data \in Seq(Bytes), prepend(data) PROVE BufferInv'
<1> USE BufferAssumption
<1>1. /\ buffer_ \in Seq(Bytes) /\ readerIndex_ \in Nat /\ writerIndex_ \in Nat
      /\ readerIndex_ <= writerIndex_ /\ writerIndex_ <= Len(buffer_) /\ content \in Seq(Bytes)
      /\ kCheapPrepend <= Len(buffer_)
  BY DEF BufferInv, Well
<1>2. /\ Len(content) = writerIndex_ - readerIndex_
      /\ \A i \in 1..(writerIndex_ - readerIndex_) : content[i] = buffer_[readerIndex_ + i]
  <2>1. content = SubSeq(buffer_, readerIndex_ + 1, writerIndex_)
    BY DEF BufferInv, ContentIntact, Readable, This, Buf
  <2> QED
    BY <1>1, <2>1, PartFacts
<1>3. /\ Len(data) <= readerIndex_ /\ writerIndex_ - readerIndex_ + Len(data) <= MaxReadable
      /\ readerIndex_' = readerIndex_ - Len(data) /\ writerIndex_' = writerIndex_
      /\ buffer_' = Copy(buffer_, readerIndex_ - Len(data), data) /\ content' = data \o content
  BY DEF prepend, prependableBytes, readableBytes, This, Buf
<1>4. readerIndex_ - Len(data) \in Nat
  BY <1>1, <1>3
<1>5. PICK r \in Nat : r = readerIndex_ - Len(data)
  BY <1>4, Zenon
<1>6. r + Len(data) = readerIndex_ /\ r + Len(data) <= Len(buffer_) /\ r <= writerIndex_
  BY <1>1, <1>5
<1>7. PICK s2 : s2 = Copy(buffer_, r, data) /\ buffer_' = s2
  BY <1>3, <1>5
<1>8. /\ s2 \in Seq(Bytes) /\ Len(s2) = Len(buffer_)
      /\ \A i \in 1..Len(data) : s2[r + i] = data[i]
      /\ \A i \in 1..Len(buffer_) : i \notin r + 1..r + Len(data) => s2[i] = buffer_[i]
  BY <1>1, <1>6, <1>7, CopyFacts
<1>9. SubSeq(s2, r + 1, writerIndex_) = data \o content
  <2>1. SubSeq(s2, r + 1, writerIndex_) \in Seq(Bytes) /\ data \o content \in Seq(Bytes)
    BY <1>1, <1>6, <1>8
  <2>2. PICK new \in Seq(Bytes) : new = SubSeq(s2, r + 1, writerIndex_)
    BY <2>1, Zenon
  <2>3. PICK both \in Seq(Bytes) : both = data \o content
    BY <2>1, Zenon
  <2>4. Len(new) = writerIndex_ - r /\ \A i \in 1..Len(new) : new[i] = s2[r + i]
    BY <1>1, <1>6, <1>8, <2>2
  <2>5. /\ Len(both) = Len(data) + Len(content)
        /\ \A i \in 1..Len(data) : both[i] = data[i]
        /\ \A i \in 1..Len(content) : both[Len(data) + i] = content[i]
    BY <1>1, <2>3, JoinFacts
  <2>a. /\ Len(new) = writerIndex_ - r /\ Len(both) = Len(data) + Len(content)
        /\ Len(content) = writerIndex_ - readerIndex_
    BY <1>2, <2>4, <2>5, Zenon
  <2>b. Len(data) \in Nat /\ Len(content) \in Nat /\ Len(buffer_) \in Nat
    BY <1>1
  <2>6. Len(new) = Len(both)
    <3>1. r + Len(data) = readerIndex_ /\ readerIndex_ \in Nat /\ writerIndex_ \in Nat
      BY <1>1, <1>6, Zenon
    <3>2. \A a, b, c, d \in Nat : a + d = b => c - a = d + (c - b)
      OBVIOUS
    <3>3. writerIndex_ - r = Len(data) + (writerIndex_ - readerIndex_)
      BY <2>b, <3>1, <3>2
    <3> QED
      BY <2>a, <3>3, Zenon
  <2>7. ASSUME NEW i \in 1..Len(new) PROVE new[i] = both[i]
    <3>1. CASE i \in 1..Len(data)
      BY <1>8, <2>4, <2>5, <3>1
    <3>2. CASE i \notin 1..Len(data)
      <4>1. i - Len(data) \in 1..Len(content)
        BY <2>5, <2>6, <3>2
      <4>2. PICK j \in 1..Len(content) : j = i - Len(data)
        BY <4>1, Zenon
      <4>3. /\ i = Len(data) + j /\ r + i = readerIndex_ + j
            /\ r + i \in 1..Len(buffer_) /\ r + i \notin r + 1..r + Len(data)
            /\ j \in 1..(writerIndex_ - readerIndex_)
        <5>1. i = Len(data) + j /\ i > Len(data)
          BY <2>b, <4>2
        <5>2. r + i = readerIndex_ + j
          <6>1. r + Len(data) = readerIndex_
            BY <1>6, Zenon
          <6> QED
            BY <2>b, <5>1, <6>1
        <5> QED
          BY <1>1, <1>6, <2>a, <2>b, <4>2, <5>1, <5>2
      <4>4. new[i] = buffer_[readerIndex_ + j]
        BY <1>8, <2>4, <4>3
      <4>5. content[j] = buffer_[readerIndex_ + j]
        BY <1>2, <4>3
      <4>6. both[Len(data) + j] = content[j]
        BY <2>5
      <4> QED
        BY <4>3, <4>4, <4>5, <4>6
    <3> QED
      BY <3>1, <3>2
  <2>8. new = both
    BY <2>6, <2>7, SameSeq
  <2> QED
    BY <2>2, <2>3, <2>8, Zenon
<1>10. SubSeq(buffer_', readerIndex_' + 1, writerIndex_') = content'
  BY <1>3, <1>5, <1>7, <1>9, Zenon
<1>11. ContentIntact'
  BY <1>10 DEF ContentIntact, Readable, This, Buf
<1>12. Well(buffer_, readerIndex_, writerIndex_)'
  BY <1>1, <1>3, <1>5, <1>6, <1>7, <1>8 DEF Well
<1>13. content' \in Seq(Bytes) /\ writerIndex_' - readerIndex_' <= MaxReadable
  BY <1>1, <1>3
<1>14. (Len(buffer_) <= kCheapPrepend + initialSize \/ Len(buffer_) <= kCheapPrepend + 2 * MaxReadable)'
  BY <1>7, <1>8 DEF BufferInv
<1> QED
  BY <1>11, <1>12, <1>13, <1>14 DEF BufferInv

LEMMA BufferStart == Init => BufferInv
<1> SUFFICES ASSUME Init PROVE BufferInv
  OBVIOUS
<1> USE BufferAssumption
<1>1. buffer_ \in Seq(Bytes) /\ Len(buffer_) = kCheapPrepend + initialSize
  BY ZerosFacts DEF Init
<1>2. readerIndex_ = kCheapPrepend /\ writerIndex_ = kCheapPrepend /\ content = <<>>
  BY DEF Init
<1>3. Well(buffer_, readerIndex_, writerIndex_)
  BY <1>1, <1>2 DEF Well
<1>4. SubSeq(buffer_, kCheapPrepend + 1, kCheapPrepend) = <<>>
  BY <1>1
<1>5. ContentIntact
  BY <1>2, <1>4 DEF ContentIntact, Readable, This, Buf
<1> QED
  BY <1>1, <1>2, <1>3, <1>5 DEF BufferInv

LEMMA BufferKeeps == BufferInv /\ [Next]_vars => BufferInv'
<1> SUFFICES ASSUME BufferInv, [Next]_vars PROVE BufferInv'
  OBVIOUS
<1>1. ASSUME NEW n \in Nat, NEW data \in BoundedSeq(Bytes, n) PROVE data \in Seq(Bytes)
  BY <1>1 DEF BoundedSeq, SeqOf
<1>2. ASSUME NEW data \in Data, append(data) \/ prepend(data) PROVE BufferInv'
  BY <1>1, <1>2, BufferAssumption, AppendKeeps, PrependKeeps DEF Data
<1>3. ASSUME NEW data \in BoundedSeq(Bytes, MaxReadable), readFd(data) PROVE BufferInv'
  BY <1>1, <1>3, BufferAssumption, ReadFdKeeps
<1>4. ASSUME NEW len \in 0..MaxReadable, retrieve(len) PROVE BufferInv'
  BY <1>4, BufferAssumption, RetrieveKeeps
<1>5. CASE UNCHANGED vars
  BY <1>5 DEF vars, BufferInv, ContentIntact, Readable, This
<1> QED
  BY <1>2, <1>3, <1>4, <1>5 DEF Next
-----------------------------------------------------------------------------
(* However the calls come, in whatever sizes, a Buffer hands out the bytes *)
(* that were put in, in order: enlarging the vector, moving the bytes to   *)
(* the front and readFd through extrabuf lose none.                        *)
THEOREM BufferContent == Spec => []ContentIntact
<1>1. BufferInv => ContentIntact
  BY DEF BufferInv
<1> QED
  BY <1>1, BufferStart, BufferKeeps, PTL DEF Spec

(* A Buffer that never holds more than MaxReadable bytes never takes more  *)
(* memory than its initial size or twice that.                             *)
THEOREM BufferMemory == Spec => []MemoryBounded
<1>1. ASSUME NEW a \in Nat, NEW b \in Nat PROVE Max({a, b}) \in Nat /\ Max({a, b}) >= a /\ Max({a, b}) >= b
  <2>1. \E x \in {a, b} : \A y \in {a, b} : x >= y
    OBVIOUS
  <2>2. Max({a, b}) \in {a, b} /\ \A y \in {a, b} : Max({a, b}) >= y
    BY <2>1, Zenon DEF Max
  <2> QED
    BY <2>2
<1>2. BufferInv => MemoryBounded
  <2>1. 2 * MaxReadable \in Nat /\ initialSize \in Nat /\ kCheapPrepend \in Nat
    BY BufferAssumption
  <2> QED
    BY <1>1, <2>1 DEF BufferInv, MemoryBounded, Well
<1> QED
  BY <1>2, BufferStart, BufferKeeps, PTL DEF Spec

(* The assertions of makeSpace and ensureWritableBytes hold: bytes that    *)
(* are moved are moved towards the front, and there is room afterwards.    *)
THEOREM BufferRoom == Spec => []MoveMakesRoom
<1>1. ASSUME BufferInv, NEW len \in writableBytes(This) + 1..MaxReadable
      PROVE  /\ writableBytes(makeSpace(This, len)) >= len
             /\ Len(makeSpace(This, len).buffer) = Len(buffer_) => kCheapPrepend < readerIndex_
  <2>1. /\ buffer_ \in Seq(Bytes) /\ readerIndex_ \in Nat /\ writerIndex_ \in Nat
        /\ Well(buffer_, readerIndex_, writerIndex_) /\ writerIndex_ <= Len(buffer_)
    BY <1>1 DEF BufferInv, Well
  <2>2. len \in Nat /\ Len(buffer_) - writerIndex_ < len
    BY <1>1, <2>1 DEF writableBytes, This, Buf
  <2>3. PICK s2 \in Seq(Bytes), r2 \in Nat, w2 \in Nat :
          /\ makeSpace(Buf(buffer_, readerIndex_, writerIndex_), len) = Buf(s2, r2, w2)
          /\ Len(s2) - w2 >= len
          /\ Len(s2) = Len(buffer_) => kCheapPrepend < readerIndex_
    BY <2>1, <2>2, SpaceFacts
  <2> QED
    BY <2>3 DEF This, Buf, writableBytes
<1>2. BufferInv => MoveMakesRoom
  BY <1>1 DEF MoveMakesRoom
<1> QED
  BY <1>2, BufferStart, BufferKeeps, PTL DEF Spec
=============================================================================
