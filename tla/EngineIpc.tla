----------------------------- MODULE EngineIpc -----------------------------
(***************************************************************************)
(* One direction of the stream between a verifier and an engine: frames    *)
(* (engine-interface/src/framing.rs) that carry the messages of            *)
(* EngineCodec.  A write hands the bytes on in pieces and may stop within  *)
(* a frame; a read gets the bytes there are.  Whoever runs the two ends    *)
(* calls write_frame and read_frame in a loop and stops at an error: the   *)
(* repository has the codec and the framing, not the processes.            *)
(***************************************************************************)
EXTENDS EngineCodec

CONSTANTS
  LengthLen,  \* bytes of the length prefix, 4 in the code
  MaxWrite, MaxRead,  \* max_bytes of the two ends
  Item,       \* what is sent: a kind, its value, and the bytes; "raw" for any other bytes
  Capacity,   \* of the stream between them
  MaxItems    \* bound: frames written

ASSUME IpcAssumption ==
  /\ LengthLen \in Nat \ {0} /\ MaxWrite \in Nat /\ MaxRead \in Nat
  /\ Capacity \in Nat \ {0} /\ MaxItems \in Nat
  /\ \A x \in Item :
       /\ x.kind \in {"request", "response", "ready", "raw"} /\ x.bytes \in Seq(Byte)
       /\ x.kind # "raw" => x.value \in Messages(x.kind) /\ x.bytes = Encoded(x.kind, x.value)

VARIABLES
  items,    \* history: what was handed to write_frame and accepted
  writer,   \* "idle", "writing", or "closed"
  outbox,   \* what the write in progress has still to write
  flushed,  \* history: writes that returned Ok
  stream,   \* bytes on the way
  reader,   \* "first", "length", "body", "clean" or "failed"
  prefix, body,  \* what the read in progress has
  got       \* what read_frame returned

writerVars == <<items, writer, outbox, flushed>>
readerVars == <<reader, prefix, body, got>>
vars == <<writerVars, stream, readerVars>>

TypeOK ==
  /\ items \in Seq(Item) /\ writer \in {"idle", "writing", "closed"}
  /\ outbox \in Seq(Byte) /\ flushed \in 0..Len(items)
  /\ stream \in Seq(Byte) /\ Len(stream) <= Capacity
  /\ reader \in {"first", "length", "body", "clean", "failed"}
  /\ prefix \in Seq(Byte) /\ Len(prefix) <= LengthLen
  /\ body \in Seq(Byte) /\ got \in Seq(Seq(Byte))

Init ==
  /\ items = <<>> /\ writer = "idle" /\ outbox = <<>> /\ flushed = 0
  /\ stream = <<>>
  /\ reader = "first" /\ prefix = <<>> /\ body = <<>> /\ got = <<>>

-----------------------------------------------------------------------------
(* write_frame.                                                             *)

\* Anything else is InvalidInput, and nothing is written.
Fits(bytes) == Len(bytes) \in 1..MaxWrite /\ InBytes(Len(bytes), LengthLen)

Frame(bytes) == BigEndian(Len(bytes), LengthLen) \o bytes

Write(x) ==
  /\ writer = "idle" /\ Len(items) < MaxItems
  /\ Fits(x.bytes)
  /\ items' = Append(items, x)
  /\ writer' = "writing" /\ outbox' = Frame(x.bytes)
  /\ UNCHANGED <<flushed, stream, readerVars>>

Push(k) ==
  /\ k \in 1..Len(outbox) /\ Len(stream) + k <= Capacity
  /\ stream' = stream \o SubSeq(outbox, 1, k)
  /\ outbox' = SubSeq(outbox, k + 1, Len(outbox))
  /\ UNCHANGED <<items, writer, flushed, readerVars>>

Flush ==
  /\ writer = "writing" /\ outbox = <<>>
  /\ writer' = "idle" /\ flushed' = flushed + 1
  /\ UNCHANGED <<items, outbox, stream, readerVars>>

\* The writer is done, its write fails, or its process dies.
Close ==
  /\ writer # "closed"
  /\ writer' = "closed" /\ outbox' = <<>>
  /\ UNCHANGED <<items, flushed, stream, readerVars>>

-----------------------------------------------------------------------------
(* read_frame.                                                              *)

Length == FromBigEndian(prefix)

Sound(n) == n \in 1..MaxRead

\* Up to k bytes, which are there, are taken.
Take(k) == k \in 1..Len(stream) /\ stream' = SubSeq(stream, k + 1, Len(stream))

\* The first byte is read alone: before it, the end of the stream is no error.
ReadFirst ==
  /\ reader = "first" /\ Take(1)
  /\ prefix' = SubSeq(stream, 1, 1) /\ reader' = "length"
  /\ UNCHANGED <<writerVars, body, got>>

ReadLength(k) ==
  /\ reader = "length" /\ k <= LengthLen - Len(prefix) /\ Take(k)
  /\ prefix' = prefix \o SubSeq(stream, 1, k)
  /\ UNCHANGED <<writerVars, reader, body, got>>

\* A wrong length is InvalidData; nothing has been allocated yet.
CheckLength ==
  /\ reader = "length" /\ Len(prefix) = LengthLen
  /\ reader' = IF Sound(Length) THEN "body" ELSE "failed"
  /\ UNCHANGED <<writerVars, stream, prefix, body, got>>

\* Mutant: what there is, is taken.
ReadBody_All(k) ==
  /\ reader = "body" /\ Take(k)
  /\ body' = body \o SubSeq(stream, 1, k)
  /\ UNCHANGED <<writerVars, reader, prefix, got>>

ReadBody(k) ==
  /\ reader = "body" /\ k <= Length - Len(body) /\ Take(k)
  /\ body' = body \o SubSeq(stream, 1, k)
  /\ UNCHANGED <<writerVars, reader, prefix, got>>

\* Mutant: the buffer is used again as it is.
Return_KeepsBody ==
  /\ reader = "body" /\ Len(body) = Length
  /\ got' = Append(got, body)
  /\ reader' = "first" /\ prefix' = <<>>
  /\ UNCHANGED <<writerVars, stream, body>>

Return ==
  /\ reader = "body" /\ Len(body) = Length
  /\ got' = Append(got, body)
  /\ reader' = "first" /\ prefix' = <<>> /\ body' = <<>>
  /\ UNCHANGED <<writerVars, stream>>

\* Mutant: the end of the stream is clean wherever it comes.
AtEnd_Lenient == "clean"

\* Within a frame the end is UnexpectedEof.
AtEnd == IF reader = "first" THEN "clean" ELSE "failed"

ReadEnd ==
  /\ reader \in {"first", "length", "body"}
  /\ reader = "length" => Len(prefix) < LengthLen
  /\ reader = "body" => Len(body) < Length
  /\ writer = "closed" /\ stream = <<>>
  /\ reader' = AtEnd
  /\ UNCHANGED <<writerVars, stream, prefix, body, got>>

\* An I/O error, or no memory for the frame.
ReadFails ==
  /\ reader \in {"first", "length", "body"}
  /\ reader' = "failed"
  /\ UNCHANGED <<writerVars, stream, prefix, body, got>>

-----------------------------------------------------------------------------

WriteStep == (\E k \in 1..Capacity : Push(k)) \/ Flush
ReadStep ==
  \/ ReadFirst \/ CheckLength \/ Return \/ ReadEnd
  \/ \E k \in 1..Capacity : ReadLength(k) \/ ReadBody(k)

Next == (\E x \in Item : Write(x)) \/ WriteStep \/ Close \/ ReadStep \/ ReadFails

Spec == Init /\ [][Next]_vars

\* Each end goes on with what it has begun.
FairSpec == Spec /\ WF_vars(WriteStep) /\ WF_vars(ReadStep)

-----------------------------------------------------------------------------

Sent == [i \in DOMAIN items |-> items[i].bytes]

\* read_frame implements ordered delivery over a stream that is cut anywhere and
\* arrives in pieces (framing.rs 9-58).
Delivery ==
  INSTANCE OrderedDelivery WITH
    Message <- {x.bytes : x \in Item},
    sent <- Sent,
    end <- IF reader \in {"clean", "failed"} THEN reader ELSE "none"
ImplementsDelivery == Delivery!Spec

\* A clean end is the end of a frame: no byte of another ever left the writer, and
\* every write that returned Ok has been read (framing.rs 10-24).
CleanEndIsWhole == reader = "clean" => flushed <= Len(got) /\ stream = <<>> /\ prefix = <<>>

\* What a decoder accepts of the bytes it is given, valid or not, is exactly what
\* the encoder makes of the value it returns (lib.rs 116-200).
DecodesCanonically ==
  \A i \in DOMAIN got, kind \in {"request", "response"} :
    LET value == Decoded(kind, got[i])
    IN Rejected(value) \/ Encoded(kind, value) = got[i]

\* What is encoded is decoded: the id, the payload, the verdict and the report, an
\* empty one told from none (lib.rs 121-190).
DecodesWhatWasSent ==
  \A i \in DOMAIN got : items[i].kind # "raw" => Decoded(items[i].kind, got[i]) = items[i].value

\* What was written whole arrives, unless reading fails (framing.rs 20-58).
FlushedIsRead ==
  \A n \in 1..MaxItems : flushed >= n ~> (Len(got) >= n \/ reader = "failed")

=============================================================================
