----------------------------- MODULE Inference -----------------------------
(***************************************************************************)
(* One match request after the other on its way through the pipeline       *)
(* adapter and the client of the sandboxed worker                          *)
(* (sandbox-client/src/client.rs, enclave/src/biometric_engine.rs,         *)
(* error.rs, routes/matches.rs `run`), up to the verdict that decides      *)
(* whether a statement is signed.  EnclaveMatch says how calls wait for    *)
(* the worker; here it is already theirs.                                  *)
(*                                                                         *)
(* The worker answers a request with scores it computed or with a failure. *)
(* It may also go wrong: die, repeat itself, answer late, or send what is  *)
(* no answer.  It does not invent scores for the request it has.           *)
(***************************************************************************)
EXTENDS Pipeline

CONSTANTS
  Payload,    \* the payloads requests carry
  Failure,    \* the failures the worker reports
  Raw,        \* the scores the worker computes
  MaxImage, MaxRequest,  \* FaceLimits
  MaxTotal,   \* MAX_TOTAL_IMAGE_BYTES of the protocol
  Overhead,   \* bytes of an encoded request besides its images
  MaxId,      \* u64::MAX
  MaxWire,    \* bound: frames the worker can be ahead
  None

RoleName == {"orb_selfie", "orb_challenge", "selfie_challenge"}
ImageRole == {"orb_credential", "live_selfie", "rtms_challenge"}

\* A face failure; "other" is a role or a reason the enclave does not know.
FailureShape ==
  [code : {"unspecified", "internal", "invalid_request", "matching_failed", "image", "validation_failed"},
   reason : {"none", "unset", "set"}, validation : {"none", "other", "known"},
   at : {"none", "image", "comparison"}, role : RoleName \union ImageRole \union {"other"}]

ASSUME InferenceAssumption ==
  /\ Payload \subseteq PayloadShape /\ Failure \subseteq FailureShape
  /\ Raw \subseteq -One..One
  /\ MaxImage \in Nat /\ MaxRequest \in Nat /\ MaxTotal \in Nat /\ Overhead \in Nat
  /\ MaxId \in Nat \ {0} /\ MaxWire \in Nat \ {0}
  /\ None \notin Payload \union Failure

VARIABLES
  up,        \* the enclave process runs, and its worker
  next_id,   \* SandboxClient::next_id
  pc,        \* of the request: "idle", "prepared" or "waiting" for the worker
  asked,     \* its payload
  op,        \* its Operation
  id,        \* its number
  wire,      \* frames the worker sent and nobody read
  verdict,
  answer,    \* history: what the worker found out about this request
  faulty     \* history: the worker of this boot misbehaved

requestVars == <<asked, op>>
workerVars == <<wire, answer, faulty>>
vars == <<up, next_id, pc, requestVars, id, workerVars, verdict>>

Verdict(reason, role) == [reason |-> reason, role |-> role]
NoVerdict == Verdict("none", "none")
Reason == {"none", "success", "below_threshold", "unsupported_pipeline", "unsupported_strictness",
           "malformed_inputs", "input_rejected", "image_rejected", "matching_failed", "internal", "panic"}

Bad == One + Grain   \* of a score outside -1..1, NaN or infinite
Missing == One + 2 * Grain   \* a score field left out
Score == Raw \union {Bad, Missing}

\* The comparisons of an operation, in the order of the worker's scores.
Roles(kind) ==
  IF kind = "deepface" THEN <<"orb_selfie", "orb_challenge", "selfie_challenge">>
  ELSE <<"selfie_challenge">>

\* kind is the outcome: the result of an operation, a failure, a failure of
\* the protocol, none, or "garbage" for bytes that are no response.
Scores(kind, S) == IF kind \in {"deepface", "graybadge"} THEN [DOMAIN Roles(kind) -> S] ELSE {<<>>}
Frame(n, kind, scores, failure) == [id |-> n, kind |-> kind, scores |-> scores, failure |-> failure]

\* The images the worker compares: of a pair of frames, the matching one.
Compared(live) == IF live.matching = "illuminated" THEN live.illuminated ELSE live.unilluminated
Pairs(o) ==
  IF o.kind = "deepface"
  THEN <<{o.credential, Compared(o.live)}, {o.credential, o.challenge}, {Compared(o.live), o.challenge}>>
  ELSE <<{Compared(o.live), o.challenge}>>
Answer(o, scores, failure) == [pairs |-> Pairs(o), scores |-> scores, failure |-> failure]
NoAnswer == [pairs |-> <<>>, scores |-> <<>>, failure |-> None]

-----------------------------------------------------------------------------
(* The process.                                                             *)

Init ==
  /\ up = TRUE /\ next_id = 1 /\ faulty = FALSE
  /\ pc = "idle" /\ asked = None /\ op = Unsupported /\ id = 0
  /\ verdict = NoVerdict /\ answer = NoAnswer /\ wire = <<>>

\* The process ends, and the worker with it.
Stop ==
  /\ up' = FALSE
  /\ pc' = "idle" /\ asked' = None /\ op' = Unsupported /\ id' = 0
  /\ verdict' = NoVerdict /\ answer' = NoAnswer /\ wire' = <<>>
  /\ UNCHANGED next_id

\* SandboxClient::fail.
Fail == Stop /\ UNCHANGED faulty

\* The worker dies or does not keep to the exchange: exchange and check_alive
\* do not return.
Crash == up /\ Stop /\ faulty' = TRUE

\* A boot spawns a new worker and numbers its requests from one.
Boot ==
  /\ ~up
  /\ up' = TRUE /\ next_id' = 1 /\ faulty' = FALSE
  /\ UNCHANGED <<pc, requestVars, id, wire, answer, verdict>>

-----------------------------------------------------------------------------
(* The request, up to the worker.                                           *)

End(reason, role) == pc' = "idle" /\ verdict' = Verdict(reason, role)

\* prepare, for a release that lists every pipeline and level: the strictness,
\* then the layout.
Prepare(p) ==
  /\ up /\ pc = "idle"
  /\ asked' = p /\ op' = Operation(p)
  /\ answer' = NoAnswer
  /\ CASE p.match_strictness \notin DOMAIN Threshold -> End("unsupported_strictness", "none")
       [] p.match_strictness \in DOMAIN Threshold /\ op' = Unsupported -> End("unsupported_pipeline", "none")
       [] OTHER -> pc' = "prepared" /\ verdict' = NoVerdict
  /\ UNCHANGED <<up, next_id, id, wire, faulty>>

\* The images of an operation and their bytes.
Images(o) ==
  {o.live.illuminated, o.live.unilluminated, o.challenge}
    \union (IF o.kind = "deepface" THEN {o.credential} ELSE {})
Size(i) == asked.entries[i].size
Total(o) == MapThenSumSet(Size, Images(o))

ValidImages(o) ==
  /\ \A i \in Images(o) : Size(i) \in 1..MaxImage
  /\ Total(o) <= MaxRequest /\ Total(o) <= MaxTotal

\* evaluate up to the exchange.  Rejected images cost no number, a request that
\* is too large once encoded does, and the last number is never given out.
Evaluate ==
  /\ pc = "prepared"
  /\ \/ /\ ~ValidImages(op)
        /\ End("malformed_inputs", "none")
        /\ UNCHANGED <<up, next_id, requestVars, id, workerVars>>
     \/ ValidImages(op) /\ next_id = MaxId /\ Fail
     \/ /\ ValidImages(op) /\ next_id # MaxId
        /\ id' = next_id /\ next_id' = next_id + 1
        /\ IF Total(op) + Overhead > MaxRequest
           THEN End("malformed_inputs", "none")
           ELSE pc' = "waiting" /\ UNCHANGED verdict
        /\ UNCHANGED <<up, requestVars, workerVars>>

-----------------------------------------------------------------------------
(* The worker.                                                              *)

Send(f) == Len(wire) < MaxWire /\ wire' = Append(wire, f)

\* It answers the request it has, once.
Work ==
  /\ pc = "waiting" /\ answer = NoAnswer
  /\ \/ \E s \in Scores(op.kind, Raw) :
          /\ Send(Frame(id, op.kind, s, None))
          /\ answer' = Answer(op, s, None)
          /\ UNCHANGED faulty
     \/ \E f \in Failure :
          /\ Send(Frame(id, "failure", <<>>, f))
          /\ answer' = Answer(op, <<>>, f)
          /\ faulty' = (faulty \/ f.code = "internal")
  /\ UNCHANGED <<up, next_id, pc, requestVars, id, verdict>>

\* It says again what it said to this request, or answers an earlier one.
Repeat ==
  /\ pc = "waiting"
  /\ \E n \in 1..id :
       IF n = id
       THEN \E i \in DOMAIN wire : wire[i].id = id /\ Send(wire[i])
       ELSE \/ \E kind \in {"deepface", "graybadge"}, s \in Raw :
                 Send(Frame(n, kind, [k \in DOMAIN Roles(kind) |-> s], None))
            \/ \E f \in Failure : Send(Frame(n, "failure", <<>>, f))
  /\ faulty' = TRUE
  /\ UNCHANGED <<up, next_id, pc, requestVars, id, verdict, answer>>

\* It sends bytes that are no response, a response without an outcome, the
\* outcome of another operation, or scores that are missing or impossible.
Corrupt ==
  /\ pc = "waiting"
  /\ \/ \E kind \in {"garbage", "protocol", "none"} : Send(Frame(id, kind, <<>>, None))
     \/ \E kind \in {"deepface", "graybadge"} \ {op.kind}, s \in Raw :
          Send(Frame(id, kind, [k \in DOMAIN Roles(kind) |-> s], None))
     \/ \E k \in DOMAIN Roles(op.kind), bad \in {Bad, Missing}, s \in Raw :
          Send(Frame(id, op.kind, [j \in DOMAIN Roles(op.kind) |-> IF j = k THEN bad ELSE s], None))
  /\ faulty' = TRUE
  /\ UNCHANGED <<up, next_id, pc, requestVars, id, verdict, answer>>

-----------------------------------------------------------------------------
(* The answer.                                                              *)

\* Mutants: no look at the number; at the operation; at the end of the range.
Decode_AnyId(f, n, expected) ==
  CASE f.kind = "failure" -> IF f.failure.code = "internal" THEN "violation" ELSE "rejection"
    [] f.kind = expected /\ \A k \in DOMAIN f.scores : f.scores[k] \in -One..One -> "result"
    [] OTHER -> "violation"
Decode_AnyOutcome(f, n, expected) ==
  CASE f.id # n -> "violation"
    [] f.id = n /\ f.kind = "failure" -> IF f.failure.code = "internal" THEN "violation" ELSE "rejection"
    [] f.id = n /\ f.kind \in {"deepface", "graybadge"} -> "result"
    [] OTHER -> "violation"
Decode_OpenRange(f, n, expected) ==
  CASE f.id # n -> "violation"
    [] f.id = n /\ f.kind = "failure" -> IF f.failure.code = "internal" THEN "violation" ELSE "rejection"
    [] f.id = n /\ f.kind = expected /\ (\A k \in DOMAIN f.scores : f.scores[k] \in (-One)..(One - 1)) -> "result"
    [] OTHER -> "violation"

\* decode: is the frame a result, a recoverable rejection, or a violation?
Decode(f, n, expected) ==
  CASE f.id # n -> "violation"
    [] f.id = n /\ f.kind = "failure" -> IF f.failure.code = "internal" THEN "violation" ELSE "rejection"
    [] f.id = n /\ f.kind = expected /\ (\A k \in DOMAIN f.scores : f.scores[k] \in -One..One) -> "result"
    [] OTHER -> "violation"

\* worker_failure and invalid_request: an incomplete or unknown failure is an
\* internal one.
Complete(f) ==
  /\ f.code = "invalid_request" <=> f.reason # "none"
  /\ f.code = "validation_failed" <=> f.validation # "none"
KnownImage(f) == f.at = "image" /\ f.role \in ImageRole
WorkerFailure(f) ==
  CASE Complete(f) /\ f.code = "invalid_request" /\ f.reason = "set" /\ (f.at = "none" \/ KnownImage(f)) ->
         Verdict("input_rejected", IF f.at = "none" THEN "none" ELSE f.role)
    [] Complete(f) /\ f.code = "matching_failed" /\ f.at = "comparison" /\ f.role \in RoleName ->
         Verdict("matching_failed", f.role)
    [] Complete(f) /\ f.code = "image" /\ KnownImage(f) -> Verdict("image_rejected", f.role)
    [] Complete(f) /\ f.code = "validation_failed" /\ f.validation = "known" /\ KnownImage(f) ->
         Verdict("image_rejected", f.role)
    [] OTHER -> Verdict("internal", "none")

\* deepface or graybadge takes the scores out of the outcome, and run holds
\* each against the threshold; the first one that fails decides.
Check(f, k, t) == CheckScore(Normalized(f.scores[k]), t)
Failing(f, t) == {k \in DOMAIN f.scores : Check(f, k, t) # "ok"}
Judge(f, t) ==
  LET first == Min(Failing(f, t))
  IN IF f.kind # op.kind \/ (\E k \in DOMAIN f.scores : f.scores[k] = Missing) THEN Verdict("panic", "none")
     ELSE IF Failing(f, t) = {} THEN Verdict("success", "none")
     ELSE IF Check(f, first, t) = "below" THEN Verdict("below_threshold", Roles(f.kind)[first])
     ELSE Verdict("internal", "none")

\* evaluate after the exchange, and run.
Read ==
  /\ pc = "waiting" /\ wire # <<>>
  /\ LET f == Head(wire)
         decoded == Decode(f, id, op.kind)
     IN \/ decoded = "violation" /\ Fail
        \/ /\ decoded # "violation"
           /\ pc' = "idle"
           /\ verdict' = IF decoded = "rejection" THEN WorkerFailure(f.failure)
                         ELSE Judge(f, Threshold[asked.match_strictness])
           /\ wire' = Tail(wire)
           /\ UNCHANGED <<up, next_id, requestVars, id, answer, faulty>>

Next ==
  \/ \E p \in Payload : Prepare(p)
  \/ Evaluate \/ Work \/ Repeat \/ Corrupt \/ Read \/ Crash \/ Boot

Spec == Init /\ [][Next]_vars

-----------------------------------------------------------------------------
(* Properties.                                                              *)

TypeOK ==
  /\ up \in BOOLEAN /\ faulty \in BOOLEAN
  /\ next_id \in 1..MaxId /\ id \in 0..MaxId
  /\ pc \in {"idle", "prepared", "waiting"}
  /\ asked \in Payload \union {None}
  /\ verdict \in [reason : Reason, role : RoleName \union ImageRole \union {"none"}]
  /\ Len(wire) <= MaxWire

\* What pipeline.rs documents of a layout: lines 11-14 and 75-77.
Wanted(p) ==
  IF p.pipeline = DeepFace
  THEN <<{At(p, 1), At(p, 2)}, {At(p, 1), At(p, 3)}, {At(p, 2), At(p, 3)}>>
  ELSE <<{At(p, 1), At(p, 2)}>>

ValidLayout(p) ==
  LET n == Len(p.compare)
      e == p.entries
      at == {At(p, k) : k \in DOMAIN p.compare}
      live == At(p, n - 1)
      other == DOMAIN e \ at
  IN /\ p.pipeline \in {DeepFace, GrayBadge} /\ ~p.hints
     /\ n = (IF p.pipeline = DeepFace THEN 3 ELSE 2)
     /\ at \subseteq DOMAIN e /\ Cardinality(at) = n
     /\ \A i \in at \ {live} : e[i].meta = ""
     /\ \/ other = {} /\ e[live].meta = ""
        \/ \E i \in other : other = {i} /\ {e[live].meta, e[i].meta} = {"illuminated", "unilluminated"}

\* The distance of normalised scores is 2 * Grain: half of it for their own
\* rounding, a quarter for that of the score.
RoundingError == Grain + Grain \div 2

(* A verdict about a request rests on what the worker found out about that  *)
(* very request.  A success means that each pair of entries the request     *)
(* asked to compare, of a pair of frames the matching one, reached the      *)
(* threshold of its strictness, to within three quarters of the distance of *)
(* normalised scores in f32, which is what its two roundings can add; a     *)
(* failed comparison names a pair that did not; a rejection repeats a       *)
(* failure the worker reported for it.  Neither a repeated or late answer   *)
(* nor a corrupted one can take its place, although all of them arrive on   *)
(* one stream (client.rs 180-216; pipeline.rs 55-150; matches.rs 160-216;   *)
(* biometric_engine.rs 193-199).                                            *)
VerdictIsEarned ==
  LET low == Threshold[asked.match_strictness] - RoundingError
      high == Threshold[asked.match_strictness] + RoundingError
  IN /\ verdict.reason = "success" =>
          /\ answer # NoAnswer /\ answer.failure = None /\ answer.pairs = Wanted(asked)
          /\ \A k \in DOMAIN answer.pairs : One + answer.scores[k] >= low
     /\ verdict.reason = "below_threshold" =>
          /\ answer # NoAnswer /\ answer.failure = None /\ answer.pairs = Wanted(asked)
          /\ \E k \in DOMAIN answer.pairs :
               Roles(op.kind)[k] = verdict.role /\ One + answer.scores[k] < high
     /\ verdict.reason \in {"input_rejected", "image_rejected", "matching_failed"} =>
          answer # NoAnswer /\ answer.failure # None

(* A request reaches the worker exactly when its layout is one the          *)
(* documentation allows, whatever order, repetition or metadata its         *)
(* positions come with, and the two frames of a capture reach it under      *)
(* their own names, whichever of them is compared (pipeline.rs 75-150).     *)
LayoutExact ==
  /\ pc # "idle" =>
       /\ ValidLayout(asked)
       /\ op.live.source = "light_guard" =>
            /\ asked.entries[op.live.illuminated].meta = "illuminated"
            /\ asked.entries[op.live.unilluminated].meta = "unilluminated"
  /\ verdict.reason = "unsupported_pipeline" => ~ValidLayout(asked)

(* What the code relies on without a check of its own: the outcome is that  *)
(* of the operation and has all its scores ("client validates response      *)
(* operation", biometric_engine.rs 302, 341), and a score of this Engine    *)
(* never leaves 0..1 (check_score).                                         *)
PromisesKept ==
  /\ verdict.reason # "panic"
  /\ verdict.reason = "internal" => answer # NoAnswer /\ answer.failure # None

(* The process, and every request and key with it, ends only by the fault   *)
(* of the worker or when the numbers run out: no image, no score and no     *)
(* reported rejection ends it (client.rs 51: every failure other than a     *)
(* Rejection ends the enclave).                                             *)
HonestWorkerSurvives == ~up => faulty \/ next_id = MaxId

=============================================================================
