------------------------------ MODULE BufferProofs ------------------------------
(***************************************************************************)
(* The methods of Buffer keep its indices in order, and the buffer is a    *)
(* queue of bytes, for any sizes and any bytes.                            *)
(*                                                                         *)
(* Each method has a lemma about a buffer in order (Good): that the result *)
(* is in order, and what its contents are.                                 *)
(***************************************************************************)
EXTENDS Buffer, SequenceTheorems, TLAPS

Good(b) == IsBuffer(b) /\ IndicesOrdered(b)

\* A function from 1 .. n is a sequence of length n.
LEMMA FunctionIsSeq ==
  ASSUME NEW S, NEW n \in Nat, NEW f \in [1 .. n -> S]
  PROVE  f \in Seq(S) /\ Len(f) = n
OBVIOUS

\* What peek gives: n bytes, from the reader index on.
LEMMA PeekBytes ==
  ASSUME NEW b, Good(b), NEW n \in 0 .. readableBytes(b)
  PROVE  /\ Peek(b, n) \in Seq(Byte)
         /\ Len(Peek(b, n)) = n
         /\ \A i \in 1 .. n : Peek(b, n)[i] = b.bytes[b.readerIndex + i - 1]
<1>1. n \in Nat /\ \A i \in 1 .. n : b.bytes[b.readerIndex + i - 1] \in Byte
  <2> SUFFICES ASSUME NEW i \in 1 .. n
               PROVE  b.bytes[b.readerIndex + i - 1] \in Byte
    BY DEF Good, IsBuffer, IndicesOrdered, readableBytes
  <2>1. b.readerIndex + i - 1 \in 0 .. b.size - 1
    BY DEF Good, IsBuffer, IndicesOrdered, readableBytes
  <2> QED BY <2>1 DEF Good, IsBuffer
<1>2. Peek(b, n) \in [1 .. n -> Byte]
  BY <1>1 DEF Peek
<1> QED BY <1>1, <1>2, FunctionIsSeq DEF Peek

LEMMA ContentBytes ==
  ASSUME NEW b, Good(b)
  PROVE  /\ Content(b) \in Seq(Byte)
         /\ Len(Content(b)) = readableBytes(b)
         /\ readableBytes(b) \in Nat
         /\ \A i \in 1 .. readableBytes(b) : Content(b)[i] = b.bytes[b.readerIndex + i - 1]
<1>1. readableBytes(b) \in 0 .. readableBytes(b)
  BY DEF Good, IsBuffer, IndicesOrdered, readableBytes
<1> QED BY <1>1, PeekBytes DEF Content

-------------------------------------------------------------------------------
LEMMA NewGood == Good(New) /\ readableBytes(New) = 0 /\ Content(New) = <<>>
<1>1. Good(New) /\ readableBytes(New) = 0
  BY BufferAssumption DEF Good, IsBuffer, IndicesOrdered, readableBytes, New, Buffer_
<1> QED BY <1>1, ContentBytes, EmptySeq

\* resize keeps the bytes and makes room for the missing ones.
LEMMA ResizedGood ==
  ASSUME NEW b, Good(b), NEW n \in Nat, b.size <= n
  PROVE  /\ Good(Resized(b, n))
         /\ Content(Resized(b, n)) = Content(b)
         /\ readableBytes(Resized(b, n)) = readableBytes(b)
         /\ writableBytes(Resized(b, n)) = n - b.writerIndex
<1> DEFINE c == Resized(b, n)
<1>1. /\ c.size = n
      /\ c.readerIndex = b.readerIndex
      /\ c.writerIndex = b.writerIndex
      /\ c.bytes = [i \in 0 .. n - 1 |-> IF i < b.size THEN b.bytes[i] ELSE Zero]
  BY DEF Resized, Buffer_
<1>2. c.bytes \in [0 .. n - 1 -> Byte]
  BY <1>1, BufferAssumption DEF Good, IsBuffer
<1>3. Good(c)
  BY <1>2, BufferAssumption DEF Good, IsBuffer, IndicesOrdered, Resized, Buffer_
<1>4. \A i \in 1 .. readableBytes(b) : c.bytes[c.readerIndex + i - 1] = b.bytes[b.readerIndex + i - 1]
  BY <1>1 DEF Good, IsBuffer, IndicesOrdered, readableBytes
<1>5. readableBytes(c) = readableBytes(b)
  BY <1>1 DEF readableBytes
<1>6. Content(c) = Content(b)
  BY <1>3, <1>4, <1>5, ContentBytes, SeqEqual
<1> QED BY <1>1, <1>3, <1>5, <1>6 DEF writableBytes

\* What Stored puts where.
LEMMA StoredBytes ==
  ASSUME NEW b, Good(b), NEW data \in Seq(Byte), NEW k \in Nat, k + Len(data) <= b.size
  PROVE  /\ Stored(b, k, data) \in [0 .. b.size - 1 -> Byte]
         /\ \A i \in 1 .. Len(data) : Stored(b, k, data)[k + i - 1] = data[i]
         /\ \A i \in 0 .. b.size - 1 : i < k \/ i >= k + Len(data) => Stored(b, k, data)[i] = b.bytes[i]
<1>1. Len(data) \in Nat /\ \A i \in 1 .. Len(data) : data[i] \in Byte
  BY LenProperties
<1>2. Stored(b, k, data) \in [0 .. b.size - 1 -> Byte]
  <2> SUFFICES ASSUME NEW i \in 0 .. b.size - 1, k <= i, i < k + Len(data)
               PROVE  data[i - k + 1] \in Byte
    BY DEF Stored, Good, IsBuffer
  <2>1. i - k + 1 \in 1 .. Len(data)
    BY <1>1 DEF Good, IsBuffer
  <2> QED BY <1>1, <2>1
<1>3. ASSUME NEW i \in 1 .. Len(data)
      PROVE  Stored(b, k, data)[k + i - 1] = data[i]
  <2>1. /\ k + i - 1 \in 0 .. b.size - 1
        /\ k <= k + i - 1 /\ k + i - 1 < k + Len(data)
        /\ (k + i - 1) - k + 1 = i
    BY <1>1 DEF Good, IsBuffer
  <2> QED BY <2>1 DEF Stored
<1>4. ASSUME NEW i \in 0 .. b.size - 1, i < k \/ i >= k + Len(data)
      PROVE  Stored(b, k, data)[i] = b.bytes[i]
  BY <1>1, <1>4 DEF Stored, Good, IsBuffer
<1> QED BY <1>2, <1>3, <1>4

\* Moving to the front keeps the contents and gains the space before them.
LEMMA MovedGood ==
  ASSUME NEW b, Good(b), kCheapPrepend <= b.readerIndex
  PROVE  /\ Good(Moved(b))
         /\ Content(Moved(b)) = Content(b)
         /\ readableBytes(Moved(b)) = readableBytes(b)
         /\ writableBytes(Moved(b)) = writableBytes(b) + prependableBytes(b) - kCheapPrepend
<1> DEFINE c == Moved(b)
<1> USE BufferAssumption
<1>1. /\ c.size = b.size
      /\ c.readerIndex = kCheapPrepend
      /\ c.writerIndex = kCheapPrepend + readableBytes(b)
      /\ c.bytes = Stored(b, kCheapPrepend, Content(b))
  BY DEF Moved, Buffer_
<1>2. /\ Content(b) \in Seq(Byte)
      /\ Len(Content(b)) = readableBytes(b)
      /\ readableBytes(b) \in Nat
      /\ kCheapPrepend + Len(Content(b)) <= b.size
  <2>1. Content(b) \in Seq(Byte) /\ Len(Content(b)) = readableBytes(b) /\ readableBytes(b) \in Nat
    BY ContentBytes
  <2>2. kCheapPrepend + readableBytes(b) <= b.size
    BY DEF Good, IsBuffer, IndicesOrdered, readableBytes
  <2> QED BY <2>1, <2>2
<1>3. /\ c.bytes \in [0 .. b.size - 1 -> Byte]
      /\ \A i \in 1 .. readableBytes(b) : c.bytes[c.readerIndex + i - 1] = Content(b)[i]
  <2> DEFINE d == Content(b)
  <2>1. d \in Seq(Byte) /\ kCheapPrepend \in Nat /\ kCheapPrepend + Len(d) <= b.size
    BY <1>2
  <2>2. /\ Stored(b, kCheapPrepend, d) \in [0 .. b.size - 1 -> Byte]
        /\ \A i \in 1 .. Len(d) : Stored(b, kCheapPrepend, d)[kCheapPrepend + i - 1] = d[i]
    <3> HIDE DEF d
    <3> QED BY <2>1, StoredBytes
  <2> QED BY <1>1, <1>2, <2>2
<1>4. Good(c)
  <2>1. IsBuffer(c)
    <3>1. kCheapPrepend + readableBytes(b) \in Nat /\ b.size \in Nat
      BY <1>2 DEF Good, IsBuffer
    <3>2. c = [bytes |-> c.bytes, size |-> b.size, readerIndex |-> kCheapPrepend,
               writerIndex |-> kCheapPrepend + readableBytes(b)]
      BY DEF Moved, Buffer_
    <3> HIDE DEF c
    <3> QED BY <1>1, <1>3, <3>1, <3>2 DEF IsBuffer
  <2> QED BY <1>1, <1>2, <2>1 DEF Good, IndicesOrdered
<1>5. readableBytes(c) = readableBytes(b)
  BY <1>1, ContentBytes DEF readableBytes
<1>6. Content(c) = Content(b)
  BY <1>3, <1>4, <1>5, ContentBytes, SeqEqual
<1>7. writableBytes(c) = writableBytes(b) + prependableBytes(b) - kCheapPrepend
  BY <1>1 DEF writableBytes, prependableBytes, readableBytes, Good, IsBuffer
<1> QED BY <1>4, <1>5, <1>6, <1>7

\* The assertion of makeSpace: what fits although there is not enough room
\* behind it has more than kCheapPrepend bytes before it.
LEMMA MoveAssertion ==
  ASSUME NEW b, Good(b), NEW len \in Nat, writableBytes(b) < len, Fits(b, len)
  PROVE  kCheapPrepend < b.readerIndex
BY BufferAssumption
   DEF Good, IsBuffer, IndicesOrdered, Fits, writableBytes, prependableBytes

LEMMA EnsureGood ==
  ASSUME NEW b, Good(b), NEW len \in Nat
  PROVE  /\ Good(ensureWritableBytes(b, len))
         /\ Content(ensureWritableBytes(b, len)) = Content(b)
         /\ readableBytes(ensureWritableBytes(b, len)) = readableBytes(b)
         /\ writableBytes(ensureWritableBytes(b, len)) >= len
<1>1. CASE writableBytes(b) >= len
  BY <1>1 DEF ensureWritableBytes, Good, IsBuffer, writableBytes
<1>2. CASE writableBytes(b) < len /\ Fits(b, len)
  <2>1. ensureWritableBytes(b, len) = Moved(b)
    BY <1>2 DEF ensureWritableBytes, makeSpace
  <2>2. writableBytes(b) + prependableBytes(b) - kCheapPrepend >= len
    BY <1>2, BufferAssumption DEF Fits, Good, IsBuffer, writableBytes, prependableBytes
  <2>3. kCheapPrepend <= b.readerIndex
    BY <1>2, MoveAssertion, BufferAssumption DEF Good, IsBuffer
  <2> QED BY <2>1, <2>2, <2>3, MovedGood
<1>3. CASE writableBytes(b) < len /\ ~Fits(b, len)
  <2>1. ensureWritableBytes(b, len) = Resized(b, b.writerIndex + len)
    BY <1>3 DEF ensureWritableBytes, makeSpace
  <2> DEFINE n == b.writerIndex + len
  <2>2. n \in Nat /\ b.size <= n /\ n - b.writerIndex = len
    BY <1>3 DEF Good, IsBuffer, writableBytes
  <2>3. /\ Good(Resized(b, n))
        /\ Content(Resized(b, n)) = Content(b)
        /\ readableBytes(Resized(b, n)) = readableBytes(b)
        /\ writableBytes(Resized(b, n)) = n - b.writerIndex
    <3> HIDE DEF n
    <3> QED BY <2>2, ResizedGood
  <2> QED BY <2>1, <2>2, <2>3
<1> QED BY <1>1, <1>2, <1>3 DEF Good, IsBuffer, writableBytes

\* hasWritten after a copy to beginWrite.
LEMMA WrittenGood ==
  ASSUME NEW b, Good(b), NEW data \in Seq(Byte), Len(data) <= writableBytes(b)
  PROVE  /\ Good(Written(b, data))
         /\ Content(Written(b, data)) = Content(b) \o data
         /\ writableBytes(Written(b, data)) = writableBytes(b) - Len(data)
<1> DEFINE c == Written(b, data)
<1>1. /\ c.size = b.size
      /\ c.readerIndex = b.readerIndex
      /\ c.writerIndex = b.writerIndex + Len(data)
      /\ c.bytes = Stored(b, b.writerIndex, data)
  BY DEF Written, Buffer_
<1>2. /\ Len(data) \in Nat
      /\ b.writerIndex \in Nat
      /\ b.writerIndex + Len(data) <= b.size
  BY LenProperties DEF Good, IsBuffer, writableBytes
<1>3. /\ c.bytes \in [0 .. b.size - 1 -> Byte]
      /\ \A i \in 1 .. Len(data) : c.bytes[b.writerIndex + i - 1] = data[i]
      /\ \A i \in 0 .. b.size - 1 : i < b.writerIndex => c.bytes[i] = b.bytes[i]
  <2>1. LET d == Stored(b, b.writerIndex, data)
        IN  /\ d \in [0 .. b.size - 1 -> Byte]
            /\ \A i \in 1 .. Len(data) : d[b.writerIndex + i - 1] = data[i]
            /\ \A i \in 0 .. b.size - 1 :
                 i < b.writerIndex \/ i >= b.writerIndex + Len(data) => d[i] = b.bytes[i]
    BY <1>2, StoredBytes
  <2> QED BY <1>1, <2>1
<1>4. Good(c)
  BY <1>1, <1>2, <1>3 DEF Good, IsBuffer, IndicesOrdered, Written, Buffer_
<1>5. readableBytes(c) = readableBytes(b) + Len(data)
  BY <1>1, <1>2 DEF readableBytes, Good, IsBuffer
<1>6. Content(c) = Content(b) \o data
  <2>1. /\ Content(b) \o data \in Seq(Byte)
        /\ Len(Content(b) \o data) = readableBytes(c)
        /\ \A i \in 1 .. readableBytes(c) :
             (Content(b) \o data)[i] = IF i <= readableBytes(b) THEN Content(b)[i]
                                       ELSE data[i - readableBytes(b)]
    <3>1. Content(b) \in Seq(Byte) /\ Len(Content(b)) = readableBytes(b)
      BY ContentBytes
    <3>2. /\ Content(b) \o data \in Seq(Byte)
          /\ Len(Content(b) \o data) = Len(Content(b)) + Len(data)
          /\ \A i \in 1 .. Len(Content(b)) + Len(data) :
               (Content(b) \o data)[i] = IF i <= Len(Content(b)) THEN Content(b)[i]
                                         ELSE data[i - Len(Content(b))]
      BY <3>1, ConcatProperties
    <3> HIDE DEF c
    <3> QED BY <1>5, <3>1, <3>2
  <2>2. ASSUME NEW i \in 1 .. readableBytes(c), i <= readableBytes(b)
        PROVE  Content(c)[i] = Content(b)[i]
    <3>1. b.readerIndex + i - 1 \in 0 .. b.size - 1 /\ b.readerIndex + i - 1 < b.writerIndex
      BY <2>2 DEF Good, IsBuffer, IndicesOrdered, readableBytes
    <3>2. i \in 1 .. readableBytes(b)
      BY <2>2, ContentBytes
    <3>3. Content(c)[i] = c.bytes[c.readerIndex + i - 1]
      <4> HIDE DEF c
      <4> QED BY <1>4, <2>2, ContentBytes
    <3>4. Content(b)[i] = b.bytes[b.readerIndex + i - 1]
      BY <3>2, ContentBytes
    <3> HIDE DEF c
    <3>5. c.bytes[b.readerIndex + i - 1] = b.bytes[b.readerIndex + i - 1]
      BY <1>3, <3>1
    <3> QED BY <1>1, <3>3, <3>4, <3>5
  <2>3. ASSUME NEW i \in 1 .. readableBytes(c), ~(i <= readableBytes(b))
        PROVE  Content(c)[i] = data[i - readableBytes(b)]
    <3>1. /\ i - readableBytes(b) \in 1 .. Len(data)
          /\ b.writerIndex + (i - readableBytes(b)) - 1 = b.readerIndex + i - 1
      BY <1>2, <1>5, <2>3 DEF Good, IsBuffer, IndicesOrdered, readableBytes
    <3>2. Content(c)[i] = c.bytes[c.readerIndex + i - 1]
      BY <1>4, ContentBytes
    <3>3. c.bytes[b.writerIndex + (i - readableBytes(b)) - 1] = data[i - readableBytes(b)]
      BY <1>3, <3>1
    <3> HIDE DEF c
    <3> QED BY <1>1, <3>1, <3>2, <3>3
  <2> QED BY <1>4, <2>1, <2>2, <2>3, ContentBytes, SeqEqual
<1>7. writableBytes(c) = writableBytes(b) - Len(data)
  BY <1>1, <1>2 DEF writableBytes, Good, IsBuffer
<1> QED BY <1>4, <1>6, <1>7

LEMMA AppendGood ==
  ASSUME NEW b, Good(b), NEW data \in Seq(Byte)
  PROVE  /\ Good(append(b, data))
         /\ Content(append(b, data)) = Content(b) \o data
<1>1. Len(data) \in Nat
  BY LenProperties
<1>2. Len(data) <= writableBytes(ensureWritableBytes(b, Len(data)))
  BY <1>1, EnsureGood DEF Good, IsBuffer, writableBytes
<1> QED BY <1>1, <1>2, EnsureGood, WrittenGood DEF append

\* What is left after the first n bytes are taken.
LEMMA RetrieveGood ==
  ASSUME NEW b, Good(b), NEW n \in 0 .. readableBytes(b)
  PROVE  /\ Good(retrieve(b, n))
         /\ Content(retrieve(b, n)) = SubSeq(Content(b), n + 1, Len(Content(b)))
         /\ Peek(b, n) = SubSeq(Content(b), 1, n)
<1> DEFINE c == retrieve(b, n)
<1>1. /\ Content(b) \in Seq(Byte)
      /\ Len(Content(b)) = readableBytes(b)
      /\ readableBytes(b) \in Nat
      /\ \A i \in 1 .. readableBytes(b) : Content(b)[i] = b.bytes[b.readerIndex + i - 1]
      /\ n \in Nat
  BY ContentBytes
<1>2. Good(c)
  <2>1. /\ b.bytes \in [0 .. b.size - 1 -> Byte]
        /\ b.size \in Nat /\ b.readerIndex \in Nat /\ b.writerIndex \in Nat
        /\ b.writerIndex <= b.size /\ kCheapPrepend <= b.size
    BY DEF Good, IsBuffer, IndicesOrdered
  <2>2. CASE n < readableBytes(b)
    <3>1. c = Buffer_(b.bytes, b.size, b.readerIndex + n, b.writerIndex)
      BY <2>2 DEF retrieve
    <3>2. b.readerIndex + n \in Nat /\ b.readerIndex + n <= b.writerIndex
      BY <1>1, <2>1, <2>2 DEF readableBytes
    <3> QED BY <2>1, <3>1, <3>2 DEF Good, IsBuffer, IndicesOrdered, Buffer_
  <2>3. CASE ~(n < readableBytes(b))
    <3>1. c = Buffer_(b.bytes, b.size, kCheapPrepend, kCheapPrepend)
      BY <2>3 DEF retrieve
    <3> QED BY <2>1, <3>1, BufferAssumption DEF Good, IsBuffer, IndicesOrdered, Buffer_
  <2> QED BY <2>2, <2>3
<1>3. readableBytes(c) = readableBytes(b) - n
  BY BufferAssumption DEF Good, IsBuffer, IndicesOrdered, readableBytes, retrieve, Buffer_
<1>4. n < readableBytes(b) => c.bytes = b.bytes /\ c.readerIndex = b.readerIndex + n
  BY DEF retrieve, Buffer_
<1>5. Content(c) = SubSeq(Content(b), n + 1, Len(Content(b)))
  <2> DEFINE s == SubSeq(Content(b), n + 1, Len(Content(b)))
  <2>1. /\ s \in Seq(Byte)
        /\ Len(s) = readableBytes(b) - n
        /\ \A i \in 1 .. readableBytes(b) - n : s[i] = Content(b)[n + i]
    BY <1>1
  <2>2. ASSUME NEW i \in 1 .. readableBytes(c)
        PROVE  Content(c)[i] = s[i]
    <3>1. /\ n < readableBytes(b)
          /\ n + i \in 1 .. readableBytes(b)
          /\ b.readerIndex + n + i - 1 = b.readerIndex + (n + i) - 1
      BY <1>1, <1>3 DEF Good, IsBuffer
    <3>2. Content(c)[i] = c.bytes[c.readerIndex + i - 1]
      BY <1>2, ContentBytes
    <3> HIDE DEF c, s
    <3> QED BY <1>1, <1>3, <1>4, <2>1, <3>1, <3>2
  <2>3. Content(c) \in Seq(Byte) /\ Len(Content(c)) = Len(s)
    BY <1>2, <1>3, <2>1, ContentBytes
  <2>4. \A i \in 1 .. Len(Content(c)) : Content(c)[i] = s[i]
    <3>1. Len(Content(c)) = readableBytes(c)
      BY <1>2, ContentBytes
    <3> HIDE DEF c, s
    <3> QED BY <2>2, <3>1
  <2> HIDE DEF c, s
  <2>5. s \in Seq(Byte)
    BY <2>1
  <2>6. Content(c) = s
    BY <2>3, <2>4, <2>5, SeqEqual
  <2> QED BY <2>6 DEF s
<1>6. Peek(b, n) = SubSeq(Content(b), 1, n)
  <2>1. /\ SubSeq(Content(b), 1, n) \in Seq(Byte)
        /\ Len(SubSeq(Content(b), 1, n)) = n
        /\ \A i \in 1 .. n : SubSeq(Content(b), 1, n)[i] = Content(b)[i]
    BY <1>1
  <2> DEFINE s == SubSeq(Content(b), 1, n)
             p == Peek(b, n)
  <2>2. p \in Seq(Byte) /\ Len(p) = n /\ Len(s) = n
    BY <2>1, PeekBytes
  <2>3. \A i \in 1 .. Len(p) : p[i] = s[i]
    <3> SUFFICES ASSUME NEW i \in 1 .. n
                 PROVE  p[i] = s[i]
      BY <2>2
    <3>1. i \in 1 .. readableBytes(b)
      BY <1>1
    <3>2. p[i] = b.bytes[b.readerIndex + i - 1]
      BY PeekBytes
    <3>3. s[i] = Content(b)[i]
      BY <2>1
    <3> QED BY <1>1, <3>1, <3>2, <3>3
  <2> HIDE DEF s, p
  <2>4. s \in Seq(Byte)
    BY <2>1 DEF s
  <2>5. p = s
    BY <2>2, <2>3, <2>4, SeqEqual
  <2> QED BY <2>5 DEF s, p
<1> QED BY <1>2, <1>5, <1>6

LEMMA UnwriteGood ==
  ASSUME NEW b, Good(b), NEW n \in 0 .. readableBytes(b)
  PROVE  /\ Good(unwrite(b, n))
         /\ Content(unwrite(b, n)) = SubSeq(Content(b), 1, Len(Content(b)) - n)
<1> DEFINE c == unwrite(b, n)
           m == readableBytes(b) - n
<1>1. /\ Content(b) \in Seq(Byte)
      /\ Len(Content(b)) = readableBytes(b)
      /\ readableBytes(b) \in Nat
      /\ m \in 0 .. readableBytes(b)
  BY ContentBytes
<1>2. Good(c)
  BY DEF Good, IsBuffer, IndicesOrdered, readableBytes, unwrite, Buffer_
<1>3. readableBytes(c) = m /\ c.bytes = b.bytes /\ c.readerIndex = b.readerIndex
  BY DEF Good, IsBuffer, readableBytes, unwrite, Buffer_
<1>4. Content(c) = Peek(b, m)
  BY <1>3 DEF Content, Peek
<1>5. Peek(b, m) = SubSeq(Content(b), 1, m)
  <2> HIDE DEF m
  <2> QED BY <1>1, RetrieveGood
<1> QED BY <1>1, <1>2, <1>4, <1>5

\* Where byte j of a buffer is, of which the first n are put before reader index r.
LEMMA BehindPrepended ==
  ASSUME NEW r \in Nat, NEW w \in Nat, NEW z \in Nat, NEW n \in Nat, NEW j \in Int,
         n <= r, w <= z, n < j, j <= n + (w - r)
  PROVE  /\ (r - n) + j - 1 \in 0 .. z - 1
         /\ (r - n) + j - 1 >= r
         /\ (r - n) + j - 1 = r + (j - n) - 1
         /\ j - n \in 1 .. w - r
  OBVIOUS

LEMMA PrependGood ==
  ASSUME NEW b, Good(b), NEW data \in Seq(Byte), Len(data) <= prependableBytes(b)
  PROVE  /\ Good(prepend(b, data))
         /\ Content(prepend(b, data)) = data \o Content(b)
<1> DEFINE c == prepend(b, data)
           k == b.readerIndex - Len(data)
<1>1. /\ Len(data) \in Nat
      /\ k \in Nat
      /\ k + Len(data) = b.readerIndex
      /\ k + Len(data) <= b.size
  BY LenProperties DEF Good, IsBuffer, IndicesOrdered, prependableBytes
<1>2. /\ c.size = b.size
      /\ c.readerIndex = k
      /\ c.writerIndex = b.writerIndex
      /\ c.bytes = Stored(b, k, data)
  BY DEF prepend, Buffer_
<1>3. /\ c.bytes \in [0 .. b.size - 1 -> Byte]
      /\ \A i \in 1 .. Len(data) : c.bytes[k + i - 1] = data[i]
      /\ \A i \in 0 .. b.size - 1 : i >= b.readerIndex => c.bytes[i] = b.bytes[i]
  <2>1. LET d == Stored(b, k, data)
        IN  /\ d \in [0 .. b.size - 1 -> Byte]
            /\ \A i \in 1 .. Len(data) : d[k + i - 1] = data[i]
            /\ \A i \in 0 .. b.size - 1 : i < k \/ i >= k + Len(data) => d[i] = b.bytes[i]
    <3> HIDE DEF k
    <3> QED BY <1>1, StoredBytes
  <2> QED BY <1>1, <1>2, <2>1
<1>4. Good(c)
  <2>1. c = [bytes |-> c.bytes, size |-> b.size, readerIndex |-> k,
             writerIndex |-> b.writerIndex]
    BY DEF prepend, Buffer_
  <2> HIDE DEF c, k
  <2> QED BY <1>1, <1>2, <1>3, <2>1 DEF Good, IsBuffer, IndicesOrdered
<1>5. readableBytes(c) = Len(data) + readableBytes(b)
  BY <1>1, <1>2 DEF readableBytes, Good, IsBuffer
<1>6. /\ Content(b) \in Seq(Byte)
      /\ Len(Content(b)) = readableBytes(b)
      /\ readableBytes(b) \in Nat
      /\ \A i \in 1 .. readableBytes(b) : Content(b)[i] = b.bytes[b.readerIndex + i - 1]
  BY ContentBytes
<1>7. /\ data \o Content(b) \in Seq(Byte)
      /\ Len(data \o Content(b)) = Len(data) + readableBytes(b)
      /\ \A i \in 1 .. Len(data) + readableBytes(b) :
           (data \o Content(b))[i] = IF i <= Len(data) THEN data[i]
                                     ELSE Content(b)[i - Len(data)]
  <2>1. /\ data \o Content(b) \in Seq(Byte)
        /\ Len(data \o Content(b)) = Len(data) + Len(Content(b))
        /\ \A i \in 1 .. Len(data) + Len(Content(b)) :
             (data \o Content(b))[i] = IF i <= Len(data) THEN data[i]
                                       ELSE Content(b)[i - Len(data)]
    <3>1. Content(b) \in Seq(Byte)
      BY <1>6
    <3> QED BY <3>1, ConcatProperties
  <2>2. Len(Content(b)) = readableBytes(b)
    BY <1>6
  <2> QED BY <2>1, <2>2
<1>8. /\ Content(c) \in Seq(Byte)
      /\ Len(Content(c)) = readableBytes(c)
      /\ \A i \in 1 .. readableBytes(c) : Content(c)[i] = c.bytes[c.readerIndex + i - 1]
  BY <1>4, ContentBytes
<1>9. ASSUME NEW i \in 1 .. readableBytes(c)
      PROVE  Content(c)[i] = (data \o Content(b))[i]
  <2>1. CASE i <= Len(data)
    <3>1. i \in 1 .. Len(data) /\ i \in 1 .. Len(data) + readableBytes(b)
      BY <1>1, <1>5, <2>1
    <3>2. (data \o Content(b))[i] = data[i]
      BY <1>7, <2>1, <3>1
    <3> HIDE DEF c, k
    <3>3. Content(c)[i] = c.bytes[k + i - 1]
      BY <1>2, <1>8
    <3> QED BY <1>3, <3>1, <3>2, <3>3
  <2>2. CASE i > Len(data)
    <3>1. /\ k + i - 1 \in 0 .. b.size - 1
          /\ k + i - 1 >= b.readerIndex
          /\ k + i - 1 = b.readerIndex + (i - Len(data)) - 1
          /\ i - Len(data) \in 1 .. readableBytes(b)
      <4>1. i \in Int /\ i <= Len(data) + (b.writerIndex - b.readerIndex)
        BY <1>1, <1>5, <1>6 DEF readableBytes
      <4>2. /\ b.size \in Nat /\ b.readerIndex \in Nat /\ b.writerIndex \in Nat
            /\ b.writerIndex <= b.size
        BY DEF Good, IsBuffer, IndicesOrdered
      <4>3. Len(data) \in Nat /\ Len(data) <= b.readerIndex
        BY <1>1, <4>2
      <4> QED BY <2>2, <4>1, <4>2, <4>3, BehindPrepended DEF readableBytes
    <3>2. c.bytes[k + i - 1] = Content(b)[i - Len(data)]
      <4> HIDE DEF c, k
      <4> QED BY <1>3, <1>6, <3>1
    <3> HIDE DEF c, k
    <3> QED BY <1>1, <1>2, <1>5, <1>6, <1>7, <1>8, <2>2, <3>2
  <2> QED BY <1>1, <1>5, <1>6, <2>1, <2>2
<1> HIDE DEF c
<1>10. Content(c) = data \o Content(b)
  BY <1>5, <1>7, <1>8, <1>9, SeqEqual
<1> QED BY <1>4, <1>10 DEF c

LEMMA ShrinkGood ==
  ASSUME NEW b, Good(b), NEW reserve \in Nat
  PROVE  Good(shrink(b, reserve)) /\ Content(shrink(b, reserve)) = Content(b)
<1> DEFINE c == ensureWritableBytes(New, readableBytes(b) + reserve)
<1>1. Content(b) \in Seq(Byte) /\ readableBytes(b) + reserve \in Nat
  BY ContentBytes
<1>2. Good(c) /\ Content(c) = <<>>
  <2> DEFINE len == readableBytes(b) + reserve
  <2> HIDE DEF len
  <2>1. len \in Nat
    BY <1>1 DEF len
  <2>2. /\ Good(ensureWritableBytes(New, len))
        /\ Content(ensureWritableBytes(New, len)) = Content(New)
    BY <2>1, NewGood, EnsureGood
  <2> QED BY <2>2, NewGood DEF len
<1> HIDE DEF c
<1>3. Good(append(c, Content(b))) /\ Content(append(c, Content(b))) = Content(c) \o Content(b)
  BY <1>1, <1>2, AppendGood
<1>4. <<>> \o Content(b) = Content(b)
  BY <1>1, ConcatEmptySeq
<1> QED BY <1>2, <1>3, <1>4 DEF shrink, c

\* Concatenation is associative, for bytes.
LEMMA ThreePieces ==
  ASSUME NEW s \in Seq(Byte), NEW t \in Seq(Byte), NEW u \in Seq(Byte)
  PROVE  s \o (t \o u) = (s \o t) \o u
  BY ONLY ConcatAssociative

\* The two pieces of a readv, one behind the other.
LEMMA ReadFdGood ==
  ASSUME NEW b, Good(b), NEW data \in Seq(Byte)
  PROVE  Good(readFd(b, data)) /\ Content(readFd(b, data)) = Content(b) \o data
<1> DEFINE k == writableBytes(b)
           d == SubSeq(data, 1, k)
           e == SubSeq(data, k + 1, Len(data))
<1>1. k \in Nat /\ Len(data) \in Nat
  BY LenProperties DEF Good, IsBuffer, IndicesOrdered, writableBytes
<1>2. CASE Len(data) <= k
  BY <1>2, WrittenGood DEF readFd
<1>3. CASE Len(data) > k
  <2>1. d \in Seq(Byte) /\ Len(d) = k /\ e \in Seq(Byte)
    BY <1>1, <1>3
  <2>2. d \o e = data
    <3> HIDE DEF k
    <3>1. /\ 1 \in 1 .. Len(data) + 1
          /\ k \in 1 - 1 .. Len(data)
          /\ Len(data) \in k .. Len(data)
      BY <1>1, <1>3
    <3> QED BY <3>1, ConcatAdjacentSubSeq, SubSeqFull
  <2>3. readFd(b, data) = append(Written(b, d), e)
    BY <1>1, <1>3 DEF readFd
  <2> HIDE DEF d, e
  <2>4. Good(Written(b, d)) /\ Content(Written(b, d)) = Content(b) \o d
    BY <1>1, <2>1, WrittenGood
  <2> DEFINE c == Written(b, d)
  <2>5. Good(append(c, e)) /\ Content(append(c, e)) = Content(c) \o e
    <3> HIDE DEF c
    <3> QED BY <2>1, <2>4, AppendGood DEF c
  <2>6. Content(b) \o (d \o e) = (Content(b) \o d) \o e
    <3>1. Content(b) \in Seq(Byte)
      BY ContentBytes
    <3> HIDE DEF k, c
    <3> QED BY <2>1, <3>1, ThreePieces
  <2> HIDE DEF c
  <2>7. Content(readFd(b, data)) = (Content(b) \o d) \o e
    BY <2>3, <2>4, <2>5 DEF c
  <2>8. Content(b) \o (d \o e) = Content(b) \o data
    BY <2>2
  <2>9. Content(readFd(b, data)) = Content(b) \o data
    BY <2>6, <2>7, <2>8
  <2> QED BY <2>3, <2>5, <2>9 DEF c
<1> QED BY <1>1, <1>2, <1>3

-------------------------------------------------------------------------------
\* Type and order of the indices are kept by every call.
LEMMA GoodInductive ==
  ASSUME Good(buf), [Next]_vars
  PROVE  Good(buf')
<1> USE BufferAssumption
<1>1. CASE UNCHANGED vars
  BY <1>1 DEF vars
<1>2. ASSUME NEW data \in Data, Append_(data)
      PROVE  Good(buf')
  BY <1>2, AppendGood DEF Append_, Becomes
<1>3. ASSUME NEW data \in Data, ReadFd(data)
      PROVE  Good(buf')
  BY <1>3, ReadFdGood DEF ReadFd, Becomes
<1>4. ASSUME NEW data \in Data, Prepend(data)
      PROVE  Good(buf')
  BY <1>4, PrependGood DEF Prepend, Becomes
<1>5. ASSUME NEW n \in 0 .. readableBytes(buf), Retrieve(n)
      PROVE  Good(buf')
  BY <1>5, RetrieveGood DEF Retrieve, Becomes
<1>6. ASSUME NEW n \in 0 .. readableBytes(buf), Unwrite(n)
      PROVE  Good(buf')
  BY <1>6, UnwriteGood DEF Unwrite, Becomes
<1>7. ASSUME NEW len \in Lengths, Ensure(len)
      PROVE  Good(buf')
  BY <1>7, EnsureGood DEF Ensure, Becomes
<1>8. ASSUME NEW len \in Lengths, Shrink(len)
      PROVE  Good(buf')
  BY <1>8, ShrinkGood DEF Shrink, Becomes
<1> QED
  BY <1>1, <1>2, <1>3, <1>4, <1>5, <1>6, <1>7, <1>8 DEF Next

\* readerIndex <= writerIndex <= size, the order the class draws.
THEOREM IndexOrder == Spec => [](TypeOK /\ Ordered)
<1>1. Init => Good(buf)
  BY NewGood DEF Init
<1>2. TypeOK /\ Ordered /\ [Next]_vars => TypeOK' /\ Ordered'
  BY GoodInductive DEF Good, TypeOK, Ordered
<1>3. Good(buf) => TypeOK /\ Ordered
  BY DEF Good, TypeOK, Ordered
<1> QED BY <1>1, <1>2, <1>3, PTL DEF Spec

\* The assertions of ensureWritableBytes and makeSpace hold for every argument.
THEOREM AssertionsHold == Spec => []SpaceAsserts
<1>1. TypeOK /\ Ordered => SpaceAsserts
  <2> SUFFICES ASSUME Good(buf), NEW len \in Lengths
               PROVE  /\ writableBytes(ensureWritableBytes(buf, len)) >= len
                      /\ writableBytes(buf) < len /\ Fits(buf, len)
                           => kCheapPrepend < buf.readerIndex
    BY DEF SpaceAsserts, Good, TypeOK, Ordered
  <2> QED BY BufferAssumption, EnsureGood, MoveAssertion
<1> QED BY <1>1, IndexOrder, PTL

-------------------------------------------------------------------------------
\* When the vector grows.

LEMMA AppendGrows ==
  ASSUME NEW b, Good(b), NEW data \in Seq(Byte), append(b, data).size > b.size
  PROVE  kCheapPrepend + readableBytes(b) + Len(data) > b.size
<1> USE BufferAssumption
<1>1. append(b, data).size = ensureWritableBytes(b, Len(data)).size
  BY DEF append, Written, Buffer_
<1>2. ~(writableBytes(b) >= Len(data)) /\ ~Fits(b, Len(data))
  <2>1. Moved(b).size = b.size
    BY DEF Moved, Buffer_
  <2>2. ensureWritableBytes(b, Len(data)) \notin {b, Moved(b)}
    BY <1>1, <2>1 DEF Good, IsBuffer
  <2> QED BY <2>2, LenProperties DEF ensureWritableBytes, makeSpace, Good, IsBuffer, writableBytes
<1>3. Len(data) \in Nat
  BY LenProperties
<1> QED
  BY <1>2, <1>3 DEF Fits, Good, IsBuffer, writableBytes, prependableBytes, readableBytes

\* A readv that fills the vector grows it for the rest only.
LEMMA ReadFdGrows ==
  ASSUME NEW b, Good(b), NEW data \in Seq(Byte), readFd(b, data).size > b.size
  PROVE  kCheapPrepend + readableBytes(b) + Len(data) > b.size
<1> DEFINE k == writableBytes(b)
           d == SubSeq(data, 1, k)
           e == SubSeq(data, k + 1, Len(data))
           c == Written(b, d)
<1>1. k \in Nat /\ Len(data) \in Nat
  BY LenProperties DEF Good, IsBuffer, IndicesOrdered, writableBytes
<1>2. \A s : Written(b, s).size = b.size
  BY DEF Written, Buffer_
<1>3. Len(data) > k /\ readFd(b, data) = append(c, e)
  BY <1>1, <1>2 DEF readFd, Good, IsBuffer
<1>4. d \in Seq(Byte) /\ Len(d) = k /\ e \in Seq(Byte) /\ Len(e) = Len(data) - k
  BY <1>1, <1>3
<1> HIDE DEF d, e
<1>5. Good(c) /\ readableBytes(c) = readableBytes(b) + k
  <2>1. Good(c) /\ Content(c) = Content(b) \o d
    BY <1>1, <1>4, WrittenGood
  <2>2. c.readerIndex = b.readerIndex /\ c.writerIndex = b.writerIndex + k
    BY <1>4 DEF Written, Buffer_
  <2> QED BY <1>1, <2>1, <2>2 DEF readableBytes, Good, IsBuffer
<1> HIDE DEF c, k
<1>6. append(c, e).size > c.size
  BY <1>2, <1>3 DEF c
<1>7. kCheapPrepend + readableBytes(c) + Len(e) > c.size
  BY <1>4, <1>5, <1>6, AppendGrows
<1>8. c.size = b.size /\ readableBytes(b) \in Nat
  BY <1>2, ContentBytes DEF c
<1> QED BY <1>1, <1>4, <1>5, <1>7, <1>8, BufferAssumption DEF Good, IsBuffer

\* The vector never grows for bytes that would fit if what is there were moved.
THEOREM GrowthNeeded == Spec => GrowsOnlyIfNeeded
<1>1. ASSUME Good(buf), [Next]_vars
      PROVE  [call'[1] = "put" /\ buf'.size > buf.size =>
                kCheapPrepend + readableBytes(buf') > buf.size]_vars
  <2> USE BufferAssumption, <1>1
  <2> SUFFICES ASSUME Next, call'[1] = "put", buf'.size > buf.size
               PROVE  kCheapPrepend + readableBytes(buf') > buf.size
    OBVIOUS
  <2>1. PICK data \in Data : Append_(data) \/ ReadFd(data)
    BY DEF Next, Prepend, Retrieve, Unwrite, Ensure, Shrink, Becomes
  <2>2. data \in Seq(Byte) /\ Len(data) \in Nat
    BY LenProperties
  <2>3. kCheapPrepend + readableBytes(buf) + Len(data) > buf.size
    BY <2>1, <2>2, AppendGrows, ReadFdGrows DEF Append_, ReadFd, Becomes
  <2>4. Good(buf') /\ Content(buf') = Content(buf) \o data
    BY <2>1, <2>2, AppendGood, ReadFdGood DEF Append_, ReadFd, Becomes
  <2>5. readableBytes(buf') = readableBytes(buf) + Len(data)
    <3> DEFINE c == buf'
    <3>1. Good(c) /\ Content(c) = Content(buf) \o data
      BY <2>4
    <3> HIDE DEF c
    <3>2. /\ Content(c) \in Seq(Byte) /\ Len(Content(c)) = readableBytes(c)
          /\ Content(buf) \in Seq(Byte) /\ Len(Content(buf)) = readableBytes(buf)
      BY <3>1, ContentBytes
    <3>3. Len(Content(buf) \o data) = Len(Content(buf)) + Len(data)
      BY <2>2, <3>2
    <3>4. readableBytes(c) = readableBytes(buf) + Len(data)
      BY <3>1, <3>2, <3>3
    <3> QED BY <3>4 DEF c
  <2>6. readableBytes(buf) \in Nat /\ buf.size \in Nat
    BY ContentBytes DEF Good, IsBuffer
  <2> QED BY <2>2, <2>3, <2>5, <2>6
<1>2. TypeOK /\ Ordered => Good(buf)
  BY DEF Good, TypeOK, Ordered
<1> QED BY <1>1, <1>2, IndexOrder, PTL DEF Spec, GrowsOnlyIfNeeded

\* Wherever its bytes are, the buffer is the queue of bytes of ByteQueue.
THEOREM Refinement == Spec => Implements
<1>1. Init => Q!Init
  BY NewGood DEF Init, Q!Init
<1>2. ASSUME Good(buf), [Next]_vars
      PROVE  [Q!Next]_<<Content(buf), call>>
  <2> USE BufferAssumption, <1>2
  <2>1. CASE UNCHANGED vars
    BY <2>1 DEF vars, Content, Peek, readableBytes
  <2>2. ASSUME NEW data \in Data, Append_(data) \/ ReadFd(data)
        PROVE  Q!Put(data)
    BY <2>2, AppendGood, ReadFdGood DEF Append_, ReadFd, Becomes, Q!Put
  <2>3. ASSUME NEW data \in Data, Prepend(data)
        PROVE  Q!Untake(data)
    BY <2>3, PrependGood DEF Prepend, Becomes, Q!Untake
  <2>4. ASSUME NEW n \in 0 .. readableBytes(buf), Retrieve(n)
        PROVE  Q!Take(n)
    BY <2>4, RetrieveGood DEF Retrieve, Becomes, Q!Take
  <2>5. ASSUME NEW n \in 0 .. readableBytes(buf), Unwrite(n)
        PROVE  Q!Unput(n)
    BY <2>5, UnwriteGood DEF Unwrite, Becomes, Q!Unput
  <2>6. ASSUME NEW len \in Lengths, Ensure(len) \/ Shrink(len)
        PROVE  Q!Arrange
    BY <2>6, EnsureGood, ShrinkGood DEF Ensure, Shrink, Becomes, Q!Arrange
  <2>7. readableBytes(buf) = Len(Content(buf))
    BY ContentBytes
  <2> QED BY <2>1, <2>2, <2>3, <2>4, <2>5, <2>6, <2>7 DEF Next, Q!Next
<1>3. TypeOK /\ Ordered => Good(buf)
  BY DEF Good, TypeOK, Ordered
<1> QED BY <1>1, <1>2, <1>3, IndexOrder, PTL DEF Spec, Implements, Q!Spec
================================================================================
