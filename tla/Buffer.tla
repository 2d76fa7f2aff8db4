--------------------------------- MODULE Buffer ---------------------------------
(***************************************************************************)
(* Buffer (buffer.h, buffer.cpp): a vector of bytes with a reader and a    *)
(* writer index, and space before the reader for what is prepended.        *)
(*                                                                         *)
(*   0 <= readerIndex <= writerIndex <= size                               *)
(*                                                                         *)
(* A buffer is a record; the operators are its methods, with the bytes at  *)
(* their places, and the actions are the calls a user can make within the  *)
(* methods' preconditions.                                                 *)
(***************************************************************************)
EXTENDS Integers, Sequences

CONSTANTS Byte,
          Zero,           \* what resize fills with
          kCheapPrepend,
          kInitialSize,
          ExtraSize,      \* sizeof extrabuf in readFd
          Data,           \* what is appended, prepended and received
          Lengths,        \* the arguments of ensureWritableBytes and shrink
          MaxSize         \* bounds the size of the vector

ASSUME BufferAssumption == /\ Zero \in Byte
                           /\ kCheapPrepend \in Nat
                           /\ kInitialSize \in Nat
                           /\ ExtraSize \in Nat
                           /\ Data \subseteq Seq(Byte)
                           /\ Lengths \subseteq Nat
                           /\ MaxSize \in Nat

VARIABLES buf,
          call            \* what the last call put in or gave out

vars == <<buf, call>>

IsBuffer(b) == b \in [bytes : [0 .. b.size - 1 -> Byte], size : Nat,
                       readerIndex : Nat, writerIndex : Nat]

TypeOK == IsBuffer(buf)

\* The order drawn in the comment of the class (buffer.h:22), and the room that
\* retrieveAll counts on.
IndicesOrdered(b) == /\ b.readerIndex <= b.writerIndex
                     /\ b.writerIndex <= b.size
                     /\ kCheapPrepend <= b.size

readableBytes(b)    == b.writerIndex - b.readerIndex
writableBytes(b)    == b.size - b.writerIndex
prependableBytes(b) == b.readerIndex

\* The n bytes from peek().
Peek(b, n) == [i \in 1 .. n |-> b.bytes[b.readerIndex + i - 1]]

Content(b) == Peek(b, readableBytes(b))

-------------------------------------------------------------------------------
Buffer_(bytes, size, readerIndex, writerIndex) ==
  [bytes |-> bytes, size |-> size, readerIndex |-> readerIndex, writerIndex |-> writerIndex]

New == LET size == kCheapPrepend + kInitialSize
       IN  Buffer_([i \in 0 .. size - 1 |-> Zero], size, kCheapPrepend, kCheapPrepend)

\* The vector resized to n, which is never less than its size.
Resized(b, n) ==
  Buffer_([i \in 0 .. n - 1 |-> IF i < b.size THEN b.bytes[i] ELSE Zero],
          n, b.readerIndex, b.writerIndex)

\* b with data stored from index k on.
Stored(b, k, data) == [i \in 0 .. b.size - 1 |->
                         IF k <= i /\ i < k + Len(data) THEN data[i - k + 1] ELSE b.bytes[i]]

\* Faulty variant: copied from the start of the vector.
MovedWrong(b) ==
  Buffer_([i \in 0 .. b.size - 1 |->
             IF kCheapPrepend <= i /\ i < kCheapPrepend + readableBytes(b)
             THEN b.bytes[i - kCheapPrepend] ELSE b.bytes[i]],
          b.size, kCheapPrepend, kCheapPrepend + readableBytes(b))

\* The readable bytes moved to the front.
Moved(b) ==
  Buffer_(Stored(b, kCheapPrepend, Content(b)),
          b.size, kCheapPrepend, kCheapPrepend + readableBytes(b))

\* Faulty variants: without the room that has to stay before the reader; always
\* growing.
FitsTight(b, len) == writableBytes(b) + prependableBytes(b) >= len
FitsNever(b, len) == FALSE

\* Whether makeSpace(len) moves what is there instead of growing.
Fits(b, len) == writableBytes(b) + prependableBytes(b) >= len + kCheapPrepend

makeSpace(b, len) == IF Fits(b, len) THEN Moved(b) ELSE Resized(b, b.writerIndex + len)

\* Faulty variant: the test off by one.
ensureWritableBytesLess(b, len) ==
  IF writableBytes(b) + 1 < len THEN makeSpace(b, len) ELSE b

ensureWritableBytes(b, len) ==
  IF writableBytes(b) < len THEN makeSpace(b, len) ELSE b

\* The copy and hasWritten.
Written(b, data) ==
  Buffer_(Stored(b, b.writerIndex, data), b.size, b.readerIndex, b.writerIndex + Len(data))

append(b, data) == Written(ensureWritableBytes(b, Len(data)), data)

retrieve(b, n) ==
  IF n < readableBytes(b)
  THEN Buffer_(b.bytes, b.size, b.readerIndex + n, b.writerIndex)
  ELSE Buffer_(b.bytes, b.size, kCheapPrepend, kCheapPrepend)

unwrite(b, n) == Buffer_(b.bytes, b.size, b.readerIndex, b.writerIndex - n)

prepend(b, data) ==
  LET reader == b.readerIndex - Len(data)
  IN  Buffer_(Stored(b, reader, data), b.size, reader, b.writerIndex)

\* The contents in another buffer.
shrink(b, reserve) ==
  append(ensureWritableBytes(New, readableBytes(b) + reserve), Content(b))

\* How much one readv can bring.
Capacity(b) == writableBytes(b) + (IF writableBytes(b) < ExtraSize THEN ExtraSize ELSE 0)

\* readv fills the writable space, then extrabuf, which is appended.
readFd(b, data) ==
  IF Len(data) <= writableBytes(b)
  THEN Written(b, data)
  ELSE append(Written(b, SubSeq(data, 1, writableBytes(b))),
              SubSeq(data, writableBytes(b) + 1, Len(data)))

-------------------------------------------------------------------------------
Init == /\ buf = New
        /\ call = <<"new">>

\* A call that leaves the buffer as b.
Becomes(b, what) == /\ b.size <= MaxSize
                    /\ buf' = b
                    /\ call' = what

Append_(data) == Becomes(append(buf, data), <<"put", data>>)

ReadFd(data) == /\ Len(data) <= Capacity(buf)
                /\ Becomes(readFd(buf, data), <<"put", data>>)

\* retrieveAsString; retrieve and the read functions do the same.
Retrieve(n) == /\ n <= readableBytes(buf)
               /\ Becomes(retrieve(buf, n), <<"take", Peek(buf, n)>>)

Unwrite(n) == /\ n <= readableBytes(buf)
              /\ Becomes(unwrite(buf, n), <<"unput", n>>)

Prepend(data) == /\ Len(data) <= prependableBytes(buf)
                 /\ Becomes(prepend(buf, data), <<"untake", data>>)

Ensure(len) == Becomes(ensureWritableBytes(buf, len), <<"arrange">>)

Shrink(reserve) == Becomes(shrink(buf, reserve), <<"arrange">>)

Next == \/ \E data \in Data : Append_(data) \/ ReadFd(data) \/ Prepend(data)
        \/ \E n \in 0 .. readableBytes(buf) : Retrieve(n) \/ Unwrite(n)
        \/ \E len \in Lengths : Ensure(len) \/ Shrink(len)

Spec == Init /\ [][Next]_vars

-------------------------------------------------------------------------------
\* The indices stay in order through any sequence of calls, although retrieveAll
\* resets them without a look at the size and prepend moves the reader below
\* where it starts.
Ordered == IndicesOrdered(buf)

\* The assertions of ensureWritableBytes (buffer.h:137) and of makeSpace
\* (buffer.h:281) in whatever state a call may find the buffer.
SpaceAsserts ==
  \A len \in Lengths :
    /\ writableBytes(ensureWritableBytes(buf, len)) >= len
    /\ writableBytes(buf) < len /\ Fits(buf, len) => kCheapPrepend < buf.readerIndex

\* The vector grows only for bytes that would not fit, together with the space
\* kept for prepending, if everything were moved to the front.
GrowsOnlyIfNeeded ==
  [][call'[1] = "put" /\ buf'.size > buf.size =>
       kCheapPrepend + readableBytes(buf') > buf.size]_vars

\* What is moved, enlarged, read in two pieces, shrunk and put back is the same
\* sequence of bytes all along.
Q == INSTANCE ByteQueue WITH content <- Content(buf)

Implements == Q!Spec
================================================================================
