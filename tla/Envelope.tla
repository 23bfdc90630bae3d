------------------------------ MODULE Envelope ------------------------------
(***************************************************************************)
(* The fixed-size plaintext of every sealed response and the report inside *)
(* it (sealed-types/src/response.rs).  Contents are abstracted to sizes: a *)
(* result is its verdict, the bytes of its CBOR besides the report, and    *)
(* the report.                                                             *)
(***************************************************************************)
EXTENDS Integers

CONSTANTS
  EnvelopeLen,     \* MATCH_RESPONSE_ENVELOPE_LEN
  MaxReport,       \* MAX_DEBUG_REPORT_BYTES
  AvailableLen, NotProducedLen, OmittedLen  \* CBOR of a report besides its text

LengthLen == 4     \* LENGTH_LEN
Budget == EnvelopeLen - LengthLen

\* "available" is the shorter word: an empty report never is what breaks the
\* budget.
ASSUME EnvelopeAssumption ==
  /\ EnvelopeLen \in Nat /\ MaxReport \in Nat /\ LengthLen < EnvelopeLen
  /\ AvailableLen \in Nat /\ NotProducedLen \in Nat /\ OmittedLen \in Nat
  /\ AvailableLen <= OmittedLen /\ NotProducedLen <= OmittedLen

Report == [kind : {"available", "not_produced", "omitted"}, size : Nat]
Available(n) == [kind |-> "available", size |-> n]
NotProduced == [kind |-> "not_produced", size |-> 0]
Omitted(n) == [kind |-> "omitted", size |-> n]

\* DebugReport::from, of the worker's JSON.
FromWorker(n) == IF n > MaxReport THEN Omitted(n) ELSE Available(n)

ReportLen(r) ==
  CASE r.kind = "available" -> AvailableLen + r.size
    [] r.kind = "not_produced" -> NotProducedLen
    [] r.kind = "omitted" -> OmittedLen
EncodedLen(x) == x.size + ReportLen(x.report)

\* MatchResult::validate.
ValidReport(r) ==
  /\ r.kind = "available" => r.size <= MaxReport
  /\ r.kind = "omitted" => r.size > 0

-----------------------------------------------------------------------------

\* Mutant: the cap on the report alone is taken to keep the whole in its budget.
Fitted_CapOnly(x) == x

\* Mutant: the whole budget counts as too much.
Fitted_AtBudget(x) ==
  IF EncodedLen(x) >= Budget /\ x.report.kind = "available"
  THEN [x EXCEPT !.report = Omitted(x.report.size)]
  ELSE x

\* A report that fits its cap but not the envelope is left out as a whole.
Fitted(x) ==
  IF EncodedLen(x) > Budget /\ x.report.kind = "available"
  THEN [x EXCEPT !.report = Omitted(x.report.size)]
  ELSE x

\* to_padded_cbor succeeds.
Encodes(x) == ValidReport(x.report) /\ EncodedLen(Fitted(x)) <= Budget

\* What it returns: the length prefix, one result, what follows it, the whole.
ToPadded(x) ==
  [total |-> EnvelopeLen, length |-> EncodedLen(Fitted(x)), body |-> Fitted(x), padding |-> "zero"]

\* from_padded_cbor succeeds: neither does the result end before the length says
\* (trailing bytes) nor after it.
Opens(env) ==
  /\ env.total = EnvelopeLen
  /\ LengthLen + env.length <= env.total
  /\ env.padding = "zero"
  /\ env.length = EncodedLen(env.body)
  /\ ValidReport(env.body.report)

=============================================================================
