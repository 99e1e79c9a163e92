-------------------------------- MODULE Buffer -------------------------------
(***************************************************************************)
(* src/utils/Buffer.h and Buffer.cc: a vector with a reader and a writer   *)
(* index.  The member functions are operators on b, the three fields; byte *)
(* i of the vector is b.buffer[i + 1].  One thread uses a buffer.          *)
(***************************************************************************)
EXTENDS Naturals, Sequences

CONSTANTS
  Bytes,          \* what a byte may be; 0 is what resize() fills with
  kCheapPrepend, kInitiaSize,
  ExtraSize,      \* sizeof extrabuf
  Word,           \* size_t counts modulo Word
  MaxSize         \* bound: buffer_.size()

ASSUME BufferAssumption ==
  /\ 0 \in Bytes
  /\ kCheapPrepend \in Nat /\ kInitiaSize \in Nat
  /\ ExtraSize \in Nat /\ MaxSize \in Nat
  /\ Word \in Nat /\ 2 * MaxSize + ExtraSize + kCheapPrepend < Word

VARIABLES
  b,      \* the buffer: [buffer, readerIndex, writerIndex]
  input   \* history: the bytes the last call added

bufferVars == <<b, input>>

Fields == [buffer : Seq(Bytes), readerIndex : Nat, writerIndex : Nat]

BufferInit ==
  /\ b = [buffer |-> [i \in 1..(kCheapPrepend + kInitiaSize) |-> 0],
          readerIndex |-> kCheapPrepend, writerIndex |-> kCheapPrepend]
  /\ input = <<>>

-----------------------------------------------------------------------------
(* The member functions.                                                   *)

readableBytes(v) == v.writerIndex - v.readerIndex

writeableBytes(v) == Len(v.buffer) - v.writerIndex

(* The bytes between the indices, as the callers of peek() see them. *)
Readable(v) == [i \in 1..readableBytes(v) |-> v.buffer[v.readerIndex + i]]

Resize(s, n) == [i \in 1..n |-> IF i <= Len(s) THEN s[i] ELSE 0]

(* std::copy of data to the vector, from index at on. *)
Copy(s, at, data) ==
  [i \in 1..Len(s) |-> IF at < i /\ i <= at + Len(data) THEN data[i - at] ELSE s[i]]

Grow(v, n) == [v EXCEPT !.buffer = Resize(v.buffer, v.writerIndex + n)]

(* Mutant: the indices go to the front and the bytes stay. *)
CompactIndicesOnly(v) ==
  [v EXCEPT !.readerIndex = kCheapPrepend,
            !.writerIndex = kCheapPrepend + readableBytes(v)]

Compact(v) == [buffer |-> Copy(v.buffer, kCheapPrepend, Readable(v)),
               readerIndex |-> kCheapPrepend,
               writerIndex |-> kCheapPrepend + readableBytes(v)]

makeSpace(v, n) ==
  IF writeableBytes(v) + v.readerIndex < n + kCheapPrepend THEN Grow(v, n)
                                                           ELSE Compact(v)

ensureWriteableBytes(v, n) == IF writeableBytes(v) < n THEN makeSpace(v, n) ELSE v

Write(v, data) == [v EXCEPT !.buffer = Copy(v.buffer, v.writerIndex, data),
                            !.writerIndex = v.writerIndex + Len(data)]

append(v, data) == Write(ensureWriteableBytes(v, Len(data)), data)

(* Mutant: the reader passes what is left. *)
RetrieveUnclipped(v, n) == [v EXCEPT !.readerIndex = v.readerIndex + n]

retrieve(v, n) ==
  IF n < readableBytes(v) THEN [v EXCEPT !.readerIndex = v.readerIndex + n]
  ELSE [v EXCEPT !.readerIndex = kCheapPrepend, !.writerIndex = kCheapPrepend]

(* readFd: what readv may put into the two parts. *)
Capacity(v) == IF writeableBytes(v) < ExtraSize THEN writeableBytes(v) + ExtraSize
                                                ELSE writeableBytes(v)

(* The vector is filled first and the rest appended from extrabuf. *)
readFd(v, data) ==
  LET n == writeableBytes(v) IN
  IF Len(data) <= n THEN Write(v, data)
  ELSE append(Write(v, SubSeq(data, 1, n)), SubSeq(data, n + 1, Len(data)))

(* readv fails: n is a size_t, so -1 is neither below 0 nor within the     *)
(* vector, and Word - 1 - writable bytes are appended.  The copy of them   *)
(* is not followed: it ends the process or does nothing.                   *)
readFdFails(v) ==
  LET n == Word - 1 - writeableBytes(v)
      full == [v EXCEPT !.writerIndex = Len(v.buffer)]
      room == IF v.readerIndex < (n + kCheapPrepend) % Word
              THEN [full EXCEPT !.buffer = Resize(full.buffer, (full.writerIndex + n) % Word)]
              ELSE Compact(full)
  IN [room EXCEPT !.writerIndex = (room.writerIndex + n) % Word]

-----------------------------------------------------------------------------
(* A caller: TcpConnection and the code it hands its buffers to.           *)

(* The bound. *)
Fits(v) == Len(v.buffer) <= MaxSize

Data == UNION {[1..n -> Bytes] : n \in 0..MaxSize}

Append_ ==
  /\ input' \in Data
  /\ b' = append(b, input') /\ Fits(b')

ReadFd_ ==
  /\ input' \in Data /\ Len(input') <= Capacity(b)
  /\ b' = readFd(b, input') /\ Fits(b')

Retrieve_ ==
  /\ input' = <<>>
  /\ \E n \in 0..readableBytes(b) : b' = retrieve(b, n)

BufferNext == Append_ \/ ReadFd_ \/ Retrieve_

BufferSpec == BufferInit /\ [][BufferNext]_bufferVars

ReadFdFails == input' = <<>> /\ b' = readFdFails(b)

(* With sockets whose readv may fail. *)
FailingBufferSpec == BufferInit /\ [][BufferNext \/ ReadFdFails]_bufferVars

-----------------------------------------------------------------------------
(* Properties.                                                             *)

(* The indices stay in the vector and in order, the space in front of the  *)
(* reader is never eaten into, and an emptied buffer starts over at the    *)
(* front (Buffer.h:30-41 and 78-90, Buffer.cc:23-29).                      *)
IndicesOK ==
  /\ b \in Fields
  /\ kCheapPrepend <= b.readerIndex
  /\ b.readerIndex <= b.writerIndex
  /\ b.writerIndex <= Len(b.buffer)
  /\ readableBytes(b) = 0 => b.readerIndex = kCheapPrepend

(* Whatever is added comes out, in that order, moved and resized or not;   *)
(* bytes that did not fit the vector follow those that did                 *)
(* (Buffer.h:57-90, Buffer.cc:23-31).                                      *)
Queue == INSTANCE ByteQueue WITH bytes <- Readable(b)
ImplementsByteQueue == Queue!Spec
=============================================================================
