---------------------------- MODULE EngineCodec ----------------------------
(***************************************************************************)
(* The messages between a verifier and an engine (engine-interface/src/    *)
(* lib.rs), as sequences of bytes.  A decoder returns Malformed or         *)
(* TooLarge for what it rejects.                                           *)
(***************************************************************************)
EXTENDS Integers, Sequences

CONSTANTS
  IdLen,         \* bytes of an id, 8 in the code
  MaxPayload,    \* MAX_PAYLOAD_BYTES
  MaxReportLen,  \* MAX_DEBUG_REPORT_BYTES
  Utf8(_),       \* the bytes are UTF-8
  Malformed, TooLarge,  \* what a codec returns of what it rejects
  Absent         \* no report

Byte == 0..255
Rejected(x) == x \in {Malformed, TooLarge}

ASSUME CodecAssumption ==
  /\ IdLen \in Nat \ {0} /\ MaxPayload \in Nat \ {0} /\ MaxReportLen \in Nat
  /\ {Absent, Malformed, TooLarge} \intersect Seq(Byte) = {}

MaxRequest == IdLen + MaxPayload
MaxResponse == IdLen + 2 + MaxReportLen

\* n without its last k bytes: n \div 256^k.
Shifted(n) == LET shift[k \in Nat] == IF k = 0 THEN n ELSE shift[k - 1] \div 256 IN shift
InBytes(n, len) == Shifted(n)[len] = 0

\* The number that each beginning of the bytes stands for.
Values(bytes) ==
  LET value[k \in 0..Len(bytes)] == IF k = 0 THEN 0 ELSE 256 * value[k - 1] + bytes[k] IN value

BigEndian(n, len) == [i \in 1..len |-> Shifted(n)[len - i] % 256]
FromBigEndian(bytes) == Values(bytes)[Len(bytes)]

Id == {n \in Nat : InBytes(n, IdLen)}

-----------------------------------------------------------------------------

Ready == <<70, 76, 65, 77, 73, 78, 71, 79, 1>>
DecodeReady(bytes) == bytes = Ready

\* 0 is Pass, 1 to 6 are the error codes.
Verdict == 0..6
Terminal(verdict) == verdict = 6

Request == [id : Id, payload : Seq(Byte)]

EncodeRequest(r) ==
  CASE r.id = 0 \/ r.payload = <<>> -> Malformed
    [] r.id # 0 /\ Len(r.payload) > MaxPayload -> TooLarge
    [] OTHER -> BigEndian(r.id, IdLen) \o r.payload

DecodeRequest(bytes) ==
  LET id == FromBigEndian(SubSeq(bytes, 1, IdLen)) IN
    CASE Len(bytes) > MaxRequest -> TooLarge
      [] Len(bytes) <= IdLen \/ id = 0 -> Malformed
      [] OTHER -> [id |-> id, payload |-> SubSeq(bytes, IdLen + 1, Len(bytes))]

Response == [id : Id, verdict : Verdict, report : {b \in Seq(Byte) : Utf8(b)} \union {Absent}]

\* Mutant: a report is there where it has bytes.
HasReport_Nonempty(r) == r.report \notin {Absent, <<>>}

HasReport(r) == r.report # Absent
ReportBytes(r) == IF HasReport(r) THEN r.report ELSE <<>>

EncodeResponse(r) ==
  CASE r.id = 0 -> Malformed
    [] r.id # 0 /\ Len(ReportBytes(r)) > MaxReportLen -> TooLarge
    [] OTHER -> BigEndian(r.id, IdLen) \o <<r.verdict, IF HasReport(r) THEN 1 ELSE 0>>
                  \o ReportBytes(r)

\* Mutant: no report is looked for where the flag says there is none.
Flagged_Lax(flag, report) == flag = 0 \/ (flag = 1 /\ Utf8(report))

\* The flag tells an empty report from none, and nothing follows none.
Flagged(flag, report) == (flag = 0 /\ report = <<>>) \/ (flag = 1 /\ Utf8(report))

DecodeResponse(bytes) ==
  LET id == FromBigEndian(SubSeq(bytes, 1, IdLen))
      verdict == bytes[IdLen + 1]
      flag == bytes[IdLen + 2]
      report == SubSeq(bytes, IdLen + 3, Len(bytes))
  IN IF Len(bytes) > MaxResponse THEN TooLarge
     ELSE IF Len(bytes) >= IdLen + 2 /\ id # 0 /\ verdict \in Verdict /\ Flagged(flag, report)
     THEN [id |-> id, verdict |-> verdict, report |-> IF flag = 0 THEN Absent ELSE report]
     ELSE Malformed

-----------------------------------------------------------------------------

Messages(kind) ==
  CASE kind = "request" -> Request
    [] kind = "response" -> Response
    [] kind = "ready" -> {TRUE}
Encoded(kind, value) ==
  CASE kind = "request" -> EncodeRequest(value)
    [] kind = "response" -> EncodeResponse(value)
    [] kind = "ready" -> Ready
Decoded(kind, bytes) ==
  CASE kind = "request" -> DecodeRequest(bytes)
    [] kind = "response" -> DecodeResponse(bytes)
    [] kind = "ready" -> DecodeReady(bytes)

=============================================================================
