------------------------------- MODULE Buffer -------------------------------
(***************************************************************************)
(* Buffer (Buffer.hpp, Buffer.cc): a vector with a reader and a writer     *)
(* index (0-based, as in the code; buffer_[i + 1] is the byte at index i). *)
(* TcpConnection keeps its input and its output in one.                    *)
(***************************************************************************)
EXTENDS Naturals, Sequences, SequencesExt

CONSTANTS Bytes,
          kCheapPrepend, initialSize,
          ExtraSize,      \* sizeof extrabuf in readFd
          MaxLen,         \* bound on one append or prepend
          MaxReadable     \* bound on the bytes the users let pile up

ASSUME BytesAssumption == Bytes # {}
ASSUME BufferAssumption == /\ kCheapPrepend \in Nat /\ initialSize \in Nat
                           /\ ExtraSize \in Nat \ {0}
                           /\ MaxLen \in Nat /\ MaxReadable \in Nat

VARIABLES buffer_, readerIndex_, writerIndex_,
          content         \* history: the bytes put in and not yet taken out

vars == <<buffer_, readerIndex_, writerIndex_, content>>

(* The state as a record, for functions that call one another.             *)
Buf(b, r, w) == [buffer |-> b, reader |-> r, writer |-> w]
This == Buf(buffer_, readerIndex_, writerIndex_)
Becomes(b) == buffer_' = b.buffer /\ readerIndex_' = b.reader /\ writerIndex_' = b.writer

readableBytes(b) == b.writer - b.reader
writableBytes(b) == Len(b.buffer) - b.writer
prependableBytes(b) == b.reader
Readable(b) == SubSeq(b.buffer, b.reader + 1, b.writer)

(* What the constructor and resize put in fresh space.                     *)
Zero == CHOOSE byte \in Bytes : TRUE
Zeros(n) == [i \in 1..n |-> Zero]

(* std::copy of data to index at.                                          *)
Copy(buffer, at, data) ==
  [i \in 1..Len(buffer) |-> IF i \in at + 1..at + Len(data) THEN data[i - at] ELSE buffer[i]]

Init == /\ buffer_ = Zeros(kCheapPrepend + initialSize)
        /\ readerIndex_ = kCheapPrepend /\ writerIndex_ = kCheapPrepend
        /\ content = <<>>
-----------------------------------------------------------------------------
(* Moving the readable bytes to the front does not make enough room.       *)
(* Variant: they are never moved.                                          *)
AlwaysResize(b, len) == TRUE
TooSmall(b, len) == writableBytes(b) + prependableBytes(b) < len + kCheapPrepend

(* makeSpace, called with len > writableBytes: enlarge, or move the        *)
(* readable bytes to the front.                                            *)
makeSpace(b, len) ==
  IF TooSmall(b, len)
  THEN Buf(b.buffer \o Zeros(b.writer + len - Len(b.buffer)), b.reader, b.writer)
  ELSE Buf(Copy(b.buffer, kCheapPrepend, Readable(b)), kCheapPrepend,
           kCheapPrepend + readableBytes(b))

ensureWritableBytes(b, len) == IF writableBytes(b) < len THEN makeSpace(b, len) ELSE b

Appended(b, data) ==
  LET c == ensureWritableBytes(b, Len(data))
  IN  Buf(Copy(c.buffer, c.writer, data), c.reader, c.writer + Len(data))

(* What readv put in extrabuf.  Variant: its length is taken to be that of *)
(* everything read.                                                        *)
ReadTwice(data, writable) == data
InExtrabuf(data, writable) == SubSeq(data, writable + 1, Len(data))

(* readv has filled the writable space and then extrabuf with data.        *)
readFdInto(b, data) ==
  LET writable == writableBytes(b)
  IN  IF Len(data) <= writable
      THEN Buf(Copy(b.buffer, b.writer, data), b.reader, b.writer + Len(data))
      ELSE Appended(Buf(Copy(b.buffer, b.writer, SubSeq(data, 1, writable)),
                        b.reader, Len(b.buffer)),
                    InExtrabuf(data, writable))
-----------------------------------------------------------------------------
append(data) == /\ readableBytes(This) + Len(data) <= MaxReadable
                /\ Becomes(Appended(This, data))
                /\ content' = content \o data

(* readFd: extrabuf is offered only when the buffer has less room than it. *)
readFd(data) ==
  /\ readableBytes(This) + Len(data) <= MaxReadable
  /\ Len(data) <= writableBytes(This)
                    + (IF writableBytes(This) < ExtraSize THEN ExtraSize ELSE 0)
  /\ Becomes(readFdInto(This, data))
  /\ content' = content \o data

(* The caller keeps the asserted len <= readableBytes().                   *)
retrieve(len) ==
  /\ len <= readableBytes(This)
  /\ IF len < readableBytes(This)
     THEN readerIndex_' = readerIndex_ + len /\ UNCHANGED writerIndex_
     ELSE readerIndex_' = kCheapPrepend /\ writerIndex_' = kCheapPrepend
  /\ content' = SubSeq(content, len + 1, Len(content))
  /\ UNCHANGED buffer_

(* The caller keeps the asserted len <= prependableBytes().                *)
prepend(data) ==
  /\ Len(data) <= prependableBytes(This)
  /\ readableBytes(This) + Len(data) <= MaxReadable
  /\ readerIndex_' = readerIndex_ - Len(data)
  /\ buffer_' = Copy(buffer_, readerIndex_', data)
  /\ content' = data \o content
  /\ UNCHANGED writerIndex_

Data == BoundedSeq(Bytes, MaxLen)

Next == \/ \E data \in Data : append(data) \/ prepend(data)
        \/ \E data \in BoundedSeq(Bytes, MaxReadable) : readFd(data)
        \/ \E len \in 0..MaxReadable : retrieve(len)

Spec == Init /\ [][Next]_vars
-----------------------------------------------------------------------------
(* The readable bytes are those put in and not yet taken out, in order:    *)
(* growing the vector, moving the bytes to the front and readFd through    *)
(* extrabuf neither lose, repeat nor reorder a byte.                       *)
ContentIntact == Readable(This) = content

(* The assertion in makeSpace: when it decides to move the bytes they      *)
(* really move towards the front, so that std::copy is given ranges it is  *)
(* defined for, and the assertion that there is room afterwards.           *)
MoveMakesRoom ==
  \A len \in writableBytes(This) + 1..MaxReadable :
    LET b == makeSpace(This, len)
    IN  /\ writableBytes(b) >= len
        /\ Len(b.buffer) = Len(buffer_) => kCheapPrepend < readerIndex_

(* The memory of a Buffer stays proportional to what it was asked to hold, *)
(* however long it is used.                                                *)
MemoryBounded == Len(buffer_) <= kCheapPrepend + Max({initialSize, 2 * MaxReadable})
=============================================================================
