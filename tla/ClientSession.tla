---------------------------- MODULE ClientSession ----------------------------
(***************************************************************************)
(* The client (client/src/session.rs, client.rs, error.rs) with the        *)
(* configuration of ClientConfig and the envelopes of Envelope, against a  *)
(* host that relays, withholds, replays or replaces what it likes, and     *)
(* against enclaves of which some run this repository's code.              *)
(*                                                                         *)
(* What the host cannot do: have Nitro attest what an enclave did not ask  *)
(* for, and make a ciphertext that opens as the reply to a request without *)
(* the enclave the request is sealed to.  Enclaves that run other code may *)
(* attest their own keys, and answer what is sealed to them with anything. *)
(*                                                                         *)
(* Time.  left is what remains of the deadline of a phase.  Time does not  *)
(* pass a deadline that is due; what is due with it may still win.         *)
(***************************************************************************)
EXTENDS ClientConfig, Envelope, FiniteSets

CONSTANTS
  Exchange,        \* the sessions of the client
  Boot, Genuine,   \* boots of enclaves, those that run this code
  Pcr,             \* Boot -> index -> value, what Nitro measured
  Release,         \* release_hash values
  Pair,            \* (aud, nonce)
  Request,         \* the requests callers make
  Configs, Jsons,  \* what callers and files try as a configuration
  Ages, Timeouts,  \* of documents; for with_max_attestation_age, with_request_timeout
  Lists,           \* the release lists hosts send
  Code,            \* codes of error envelopes
  StatementLen,    \* bytes of a result besides the report
  WorkerReport,    \* sizes of the worker's JSON
  Reason,          \* why an enclave may refuse, besides the release and a replay
  MaxReplies,      \* bound: times the host submits one request
  None

\* valid: the bounds hold and the AAT verifies.  A valid request is its claims.
RequestShape == [pair : Pair, release : Release, valid : BOOLEAN]

FailureReason ==
  {"malformed_inputs", "request_too_large", "unsupported_release", "unsupported_pipeline",
   "unsupported_match_strictness", "aat_rejected", "replayed", "input_rejected",
   "match_below_threshold", "image_rejected", "matching_failed", "engine_timeout", "internal"}

\* The policy m names b by all of PCR0 to PCR2.
Measures(m, b) ==
  \A index \in 0..2 : \E k \in DOMAIN m :
    m[k].index = index /\ m[k].value = Pcr[b][index] /\ m[k].value # "zero"

\* A result without its report fits an envelope.
ASSUME ClientAssumption ==
  /\ IsFiniteSet(Exchange) /\ Genuine \subseteq Boot /\ Request \subseteq RequestShape
  /\ Configs \subseteq Config /\ \A j \in Jsons : j.config \in Config
  /\ \A b \in Boot : 0..2 \subseteq DOMAIN Pcr[b]
  /\ Ages \subseteq Nat /\ Timeouts \subseteq Nat /\ Lists \subseteq SUBSET Release
  /\ "reassign_required" \in Code
  /\ WorkerReport \subseteq Nat /\ StatementLen \in Nat /\ StatementLen + OmittedLen <= Budget
  /\ MaxReplies \in Nat
  /\ Reason \subseteq FailureReason
  /\ None \notin Request \union Release \union Boot

VARIABLES
  config, client,  \* the configuration, and what became of it
  pc,              \* where an exchange stands
  left,            \* until its deadline
  spent,           \* history: time since the phase began
  peer,            \* its verified assignment
  asked,           \* the request it has sealed
  outcome,         \* what the caller got
  token,           \* with the verified statement
  report,          \* and the report
  release,         \* the release a genuine boot has loaded
  processed,       \* the pairs it processed
  replies,         \* what enclaves answered to the request of an exchange
  lost             \* exchanges whose result a genuine boot could not encode

configVars == <<config, client>>
phaseVars == <<pc, left, spent>>
resultVars == <<outcome, token, report>>
sessionVars == <<phaseVars, peer, asked, resultVars>>
enclaveVars == <<release, processed, replies, lost>>
vars == <<configVars, sessionVars, enclaveVars>>

\* An attestation document: the boot and which of its keys.
Doc == [boot : Boot, key : {"channel", "signing"}]
\* A token with the attestation of a signing key.
Statement == [claims : Request, signer : Boot, doc : Doc]
Assignment == [doc : Doc, key : Boot, age : Ages, releases : Lists]

Error ==
  {"InvalidConfig", "Attestation", "MalformedAssignment", "ReassignRequired", "Channel",
   "MalformedRequest", "ReleaseUnavailable", "MalformedResult", "InvalidSigningKey",
   "StatementInvalid", "WebSocket", "Timeout", "ConnectionClosed", "MalformedMessage", "ApiFrame"}

\* A MatchResult: the statement of a success, the reason of a failure.
Reply == [verdict : {"success"} \union FailureReason, statement : Statement \union {None},
           size : {StatementLen}, report : Report]
Failed(reason, r) == [verdict |-> reason, statement |-> None, size |-> StatementLen, report |-> r]
Success(s, r) == [verdict |-> "success", statement |-> s, size |-> StatementLen, report |-> r]

Connecting == {"upgrading", "asking", "assigning"}
Matching == {"sending", "matching"}
Waiting == Connecting \union Matching \union {"closing"}
Phase == {"idle", "session", "done"} \union Waiting

\* The deadline of a phase.  asking and assigning share one, so do sending and
\* matching.
Allowed(ph) == IF ph = "upgrading" THEN config.connect_timeout ELSE config.request_timeout

TypeOK ==
  /\ config \in Config \union {None} /\ client \in {"none", "configured", "ready", "refused"}
  /\ pc \in [Exchange -> Phase] /\ left \in [Exchange -> Nat] /\ spent \in [Exchange -> Nat]
  /\ peer \in [Exchange -> [boot : Boot, releases : SUBSET Release] \union {None}]
  /\ asked \in [Exchange -> Request \union {None}]
  /\ outcome \in [Exchange -> {"none", "dropped", "success"} \union FailureReason \union Error]
  /\ token \in [Exchange -> Statement \union {None}]
  /\ report \in [Exchange -> Report]
  /\ release \in [Genuine -> Release \union {None}]
  /\ processed \in [Genuine -> SUBSET Pair]
  /\ replies \in [Exchange -> SUBSET Reply]
  /\ lost \subseteq Exchange

Init ==
  /\ config = None /\ client = "none"
  /\ pc = [e \in Exchange |-> "idle"]
  /\ left = [e \in Exchange |-> 0] /\ spent = [e \in Exchange |-> 0]
  /\ peer = [e \in Exchange |-> None] /\ asked = [e \in Exchange |-> None]
  /\ outcome = [e \in Exchange |-> "none"]
  /\ token = [e \in Exchange |-> None] /\ report = [e \in Exchange |-> NotProduced]
  /\ release = [b \in Genuine |-> None] /\ processed = [b \in Genuine |-> {}]
  /\ replies = [e \in Exchange |-> {}] /\ lost = {}

-----------------------------------------------------------------------------
(* Configuration.                                                           *)

Configured(c, ok) ==
  /\ client = "none"
  /\ config' = c
  /\ client' = IF ok THEN "configured" ELSE "refused"
  /\ UNCHANGED <<sessionVars, enclaveVars>>

NewConfig == \E c \in Configs : Configured(c, Constructed(c))
FromJson == \E j \in Jsons : Configured(j.config, Parsed(j))

SetAge(age) ==
  /\ client = "configured"
  /\ config' = WithAge(config, age)
  /\ UNCHANGED <<client, sessionVars, enclaveVars>>

SetTimeout(timeout) ==
  /\ client = "configured"
  /\ config' = WithTimeout(config, timeout)
  /\ UNCHANGED <<client, sessionVars, enclaveVars>>

\* FlamingoVerifierClient::new validates again, whatever was set since.
NewClient ==
  /\ client = "configured"
  /\ client' = IF VerifierOk(config) THEN "ready" ELSE "refused"
  /\ UNCHANGED <<config, sessionVars, enclaveVars>>

-----------------------------------------------------------------------------
(* The phases of an exchange.                                               *)

Enter(e, phase, timeout) ==
  /\ pc' = [pc EXCEPT ![e] = phase]
  /\ left' = [left EXCEPT ![e] = timeout]
  /\ spent' = [spent EXCEPT ![e] = 0]

\* The next step under the same deadline.
Proceed(e, phase) ==
  /\ pc' = [pc EXCEPT ![e] = phase]
  /\ UNCHANGED <<left, spent>>

\* connect returns its error at once; request_match closes the socket first,
\* whatever the result.
Returns(e, result, statement, rep) ==
  /\ IF pc[e] \in Matching \union {"session"}
     THEN Enter(e, "closing", config.request_timeout)
     ELSE Enter(e, "done", 0)
  /\ outcome' = [outcome EXCEPT ![e] = result]
  /\ token' = [token EXCEPT ![e] = statement]
  /\ report' = [report EXCEPT ![e] = rep]
  /\ UNCHANGED <<configVars, peer, asked, enclaveVars>>

Fails(e, error) == Returns(e, error, None, NotProduced)

\* FlamingoVerifierClient::connect
Connect(e) ==
  /\ client = "ready" /\ pc[e] = "idle"
  /\ IF HasEndpoint(config)
     THEN /\ Enter(e, "upgrading", config.connect_timeout)
          /\ UNCHANGED <<configVars, peer, asked, resultVars, enclaveVars>>
     ELSE Fails(e, "InvalidConfig")

Upgraded(e) ==
  /\ pc[e] = "upgrading"
  /\ Enter(e, "asking", config.request_timeout)
  /\ UNCHANGED <<configVars, peer, asked, resultVars, enclaveVars>>

Sent(e) ==
  /\ \/ pc[e] = "asking" /\ Proceed(e, "assigning")
     \/ pc[e] = "sending" /\ Proceed(e, "matching")
  /\ UNCHANGED <<configVars, peer, asked, resultVars, enclaveVars>>

\* classify_envelope
Classify(code) == IF code = "reassign_required" THEN "ReassignRequired" ELSE "ApiFrame"

Reading == {"assigning", "matching"}

\* An error envelope: the body of a refused upgrade, or a text frame.
ErrorEnvelope(e) ==
  /\ pc[e] \in Reading \union {"upgrading"}
  /\ \E code \in Code : Fails(e, Classify(code))

\* The upgrade, a send or a read fails.
TransportFails(e) == pc[e] \in Connecting \union Matching /\ Fails(e, "WebSocket")

\* A Close frame, or the end of the stream.
PeerCloses(e) == pc[e] \in Reading /\ Fails(e, "ConnectionClosed")

\* Text that is neither, or a binary frame where the assignment is due.
Unexpected(e) == pc[e] \in Reading /\ Fails(e, "MalformedMessage")

\* Mutant: each read has a deadline of its own.
Ignored_Extends(e) ==
  /\ pc[e] \in Reading
  /\ left' = [left EXCEPT ![e] = config.request_timeout]
  /\ UNCHANGED <<configVars, pc, spent, peer, asked, resultVars, enclaveVars>>

\* A ping or pong.
Ignored(e) == pc[e] \in Reading /\ UNCHANGED vars

-----------------------------------------------------------------------------
(* The assignment.                                                          *)

\* Verifier::verify_attestation_document
Verifies(doc, age) == age <= config.max_attestation_age /\ Trusts(config, Pcr[doc.boot])

\* ChannelConsumer::from_attestation: the document names this key.
Accepts(a) == Verifies(a.doc, a.age) /\ a.doc = [boot |-> a.key, key |-> "channel"]

\* decode_assignment and verify_assignment: no base64, no such key, or a session.
\* The list of releases is the host's.
Assigned(e) ==
  /\ pc[e] = "assigning"
  /\ \/ Fails(e, "MalformedAssignment")
     \/ \E a \in Assignment :
          \/ ~Accepts(a) /\ Fails(e, "Channel")
          \/ /\ Accepts(a)
             /\ Enter(e, "session", 0)
             /\ peer' = [peer EXCEPT ![e] = [boot |-> a.key, releases |-> a.releases]]
             /\ UNCHANGED <<configVars, asked, resultVars, enclaveVars>>

-----------------------------------------------------------------------------
(* The match.                                                               *)

\* The bounds and the AAT, and the list of the host.
MaySend(e, q) == q.valid /\ q.release \in peer[e].releases

\* exchange_match until the frame is sent.  Sealing may fail, and give too much.
RequestMatch(e, q) ==
  /\ pc[e] = "session"
  /\ \/ ~q.valid /\ Fails(e, "MalformedRequest")
     \/ q.valid /\ ~MaySend(e, q) /\ Fails(e, "ReleaseUnavailable")
     \/ MaySend(e, q) /\ \E error \in {"Channel", "MalformedResult"} : Fails(e, error)
     \/ /\ MaySend(e, q)
        /\ asked' = [asked EXCEPT ![e] = q]
        /\ Enter(e, "sending", config.request_timeout)
        /\ UNCHANGED <<configVars, peer, resultVars, enclaveVars>>

\* A binary frame that is above the limit, or no reply to this request.
BadBinary(e) ==
  /\ pc[e] = "matching"
  /\ \E error \in {"MalformedResult", "Channel"} : Fails(e, error)

\* Mutant: the encrypted reply is taken to authenticate the signing key.
Refutes_UnverifiedKey(e, s, age) ==
  IF s.doc.key # "signing" THEN "InvalidSigningKey"
  ELSE IF s.signer # s.doc.boot \/ s.claims # asked[e] THEN "StatementInvalid" ELSE "none"

\* open_verified_match and ensure_claims_match: what is wrong with a statement.  A
\* document of the channel key holds no signing key.
Refutes(e, s, age) ==
  IF ~Verifies(s.doc, age) THEN "Attestation"
  ELSE IF s.doc.key # "signing" THEN "InvalidSigningKey"
  ELSE IF s.signer # s.doc.boot \/ s.claims # asked[e] THEN "StatementInvalid" ELSE "none"

\* An envelope opened as the reply to the request of e.
Opened(e, env) ==
  \/ ~Opens(env) /\ Fails(e, "MalformedResult")
  \/ /\ Opens(env) /\ env.body.verdict # "success"
     /\ Returns(e, env.body.verdict, None, env.body.report)
  \/ /\ Opens(env) /\ env.body.verdict = "success"
     /\ \E age \in Ages :
          LET error == Refutes(e, env.body.statement, age)
          IN IF error = "none"
             THEN Returns(e, "success", env.body.statement, env.body.report)
             ELSE Fails(e, error)

\* What enclaves of this code have signed and sealed, which those of other code
\* may have got from it.
Issued == {x.statement : x \in {y \in UNION {replies[e] : e \in Exchange} : y.verdict = "success"}}

ReplyRead(e) ==
  /\ pc[e] = "matching" /\ peer[e].boot \in Genuine
  /\ \E x \in replies[e] : Encodes(x) /\ Opened(e, ToPadded(x))

\* The enclave chooses the bytes: it may break the framing, and put together any
\* token it has or can sign with any attestation.
ForeignReplyRead(e) ==
  /\ pc[e] = "matching" /\ peer[e].boot \notin Genuine
  /\ \/ \E s \in Statement :
          /\ s.signer \in Genuine => \E i \in Issued : i.signer = s.signer /\ i.claims = s.claims
          /\ Opened(e, ToPadded(Success(s, NotProduced)))
     \/ \E reason \in Reason, cut \in {0, 1} :
          Opened(e, [ToPadded(Failed(reason, NotProduced)) EXCEPT !.length = @ - cut])

-----------------------------------------------------------------------------
(* Endings and time.                                                        *)

Closed(e) ==
  /\ pc[e] = "closing"
  /\ Enter(e, "done", 0)
  /\ UNCHANGED <<configVars, peer, asked, resultVars, enclaveVars>>

\* Mutant: the close has no deadline.
Expire_NotClosing(e) ==
  /\ pc[e] \in Waiting \ {"closing"} /\ left[e] = 0
  /\ Fails(e, "Timeout")

\* A deadline passes; the one of the close ends the wait and no more.
Expire(e) ==
  /\ pc[e] \in Waiting /\ left[e] = 0
  /\ \/ pc[e] # "closing" /\ Fails(e, "Timeout")
     \/ Closed(e)

\* The caller drops the future, or a session it has not used.
Abandon(e) ==
  /\ pc[e] \in Waiting \union {"session"}
  /\ Enter(e, "done", 0)
  /\ outcome' = [outcome EXCEPT ![e] = "dropped"]
  /\ token' = [token EXCEPT ![e] = None]
  /\ report' = [report EXCEPT ![e] = NotProduced]
  /\ UNCHANGED <<configVars, peer, asked, enclaveVars>>

Tick ==
  /\ \E e \in Exchange : pc[e] \in Waiting
  /\ \A e \in Exchange : pc[e] \in Waiting => left[e] > 0
  /\ left' = [e \in Exchange |-> IF pc[e] \in Waiting THEN left[e] - 1 ELSE left[e]]
  /\ spent' = [e \in Exchange |-> IF pc[e] \in Waiting THEN spent[e] + 1 ELSE spent[e]]
  /\ UNCHANGED <<configVars, pc, peer, asked, resultVars, enclaveVars>>

-----------------------------------------------------------------------------
(* The enclaves of this code, as EnclaveMatch has them, and what the host   *)
(* does with a sealed request: submit it, any number of times, late or      *)
(* never.                                                                   *)

LoadRelease(b, r) ==
  /\ release[b] = None
  /\ release' = [release EXCEPT ![b] = r]
  /\ UNCHANGED <<configVars, sessionVars, processed, replies, lost>>

\* The result x is sealed if it fits an envelope.
Answers(e, x) ==
  /\ replies' = [replies EXCEPT ![e] = IF Encodes(x) THEN @ \union {x} ELSE @]
  /\ lost' = IF Encodes(x) THEN lost ELSE lost \union {e}

Signed(b, q) == [claims |-> q, signer |-> b, doc |-> [boot |-> b, key |-> "signing"]]

\* Mutant: any release that is loaded will do.
RightRelease_Any(b, q) == release[b] # None
RightRelease(b, q) == q.release = release[b]

\* Mutant: no pair is remembered.
Fresh_Always(b, q) == TRUE
Fresh(b, q) == q.pair \notin processed[b]

\* Checks first, then the pair is reserved, then inference: prepare and run.
Serve(b, e) ==
  /\ asked[e] # None /\ peer[e].boot = b
  /\ release[b] # None
  /\ Cardinality(replies[e]) < MaxReplies
  /\ LET q == asked[e] IN
       \/ /\ ~RightRelease(b, q)
          /\ Answers(e, Failed("unsupported_release", NotProduced))
          /\ UNCHANGED processed
       \/ /\ RightRelease(b, q)
          /\ \/ \E reason \in Reason : Answers(e, Failed(reason, NotProduced))
             \/ ~Fresh(b, q) /\ Answers(e, Failed("replayed", NotProduced))
          /\ UNCHANGED processed
       \/ /\ RightRelease(b, q) /\ Fresh(b, q)
          /\ processed' = [processed EXCEPT ![b] = @ \union {q.pair}]
          /\ \E n \in WorkerReport :
               \/ \E reason \in Reason : Answers(e, Failed(reason, FromWorker(n)))
               \/ Answers(e, Success(Signed(b, q), FromWorker(n)))
  /\ UNCHANGED <<configVars, sessionVars, release>>

-----------------------------------------------------------------------------

Configure ==
  NewConfig \/ FromJson \/ (\E a \in Ages : SetAge(a)) \/ (\E t \in Timeouts : SetTimeout(t))
  \/ NewClient

Step(e) ==
  \/ Connect(e) \/ Upgraded(e) \/ Sent(e) \/ Assigned(e)
  \/ \E q \in Request : RequestMatch(e, q)
  \/ ReplyRead(e) \/ ForeignReplyRead(e) \/ BadBinary(e)
  \/ ErrorEnvelope(e) \/ TransportFails(e) \/ PeerCloses(e) \/ Unexpected(e) \/ Ignored(e)
  \/ Closed(e) \/ Expire(e) \/ Abandon(e)

Enclave(b) == (\E r \in Release : LoadRelease(b, r)) \/ (\E e \in Exchange : Serve(b, e))

Next == Configure \/ Tick \/ (\E e \in Exchange : Step(e)) \/ (\E b \in Genuine : Enclave(b))

Spec == Init /\ [][Next]_vars

\* Timers fire.  Nothing else need ever happen: the host may stay silent, and a
\* caller need not use its session.
Timer == Tick \/ (\E e \in Exchange : Expire(e))
FairSpec == Spec /\ WF_vars(Timer)

-----------------------------------------------------------------------------

\* What a caller accepts is a statement about its own request, signed with a key
\* of an enclave whose measurements the policy of the client names: whatever the
\* enclave it was sealed to answered, and whatever the host did (client.rs 53-103).
AcceptedIsAttested ==
  \A e \in Exchange : outcome[e] = "success" =>
    /\ token[e].claims = asked[e]
    /\ token[e].doc = [boot |-> token[e].signer, key |-> "signing"]
    /\ Trusts(config, Pcr[token[e].signer])

\* An accepted statement of an enclave of this code is one it made: it has
\* processed the pair on the release asked for.  A policy that names only such
\* enclaves has no others accepted (client.rs 58-80, routes/matches.rs 103-152).
AcceptedWasServed ==
  \A e \in Exchange : outcome[e] = "success" =>
    /\ (\A b \in Boot : Trusts(config, Pcr[b]) => b \in Genuine) => token[e].signer \in Genuine
    /\ token[e].signer \in Genuine =>
         /\ asked[e].pair \in processed[token[e].signer]
         /\ asked[e].release = release[token[e].signer]

\* One boot's results for one pair are accepted once, however often the host
\* submits the requests that carry it (replay.rs 47-73 behind client.rs 93-103).
OneResultPerPair ==
  \A e, f \in Exchange :
    (e # f /\ outcome[e] = "success" /\ outcome[f] = "success"
       /\ peer[e].boot = peer[f].boot /\ peer[e].boot \in Genuine)
      => asked[e].pair # asked[f].pair

\* Biometric data leaves sealed to a key that Nitro attests for three nonzero
\* measurements of one entry of the policy, and for a release the host lists
\* (config.rs 108-200, session.rs 94-131, 196-219).
SealedToVerified ==
  \A e \in Exchange : asked[e] # None =>
    /\ \/ config.dangerously_skip_measurements
       \/ \E m \in config.allowed_pcr_configs : Measures(m, peer[e].boot)
    /\ asked[e].valid /\ asked[e].release \in peer[e].releases
    /\ ValidAge(config)

\* A phase takes no longer than its timeout, whatever frames arrive meanwhile
\* (session.rs 177, 220, 257-280).
PhaseBounded == \A e \in Exchange : pc[e] \in Waiting => spent[e] <= Allowed(pc[e])

\* What the caller gets of an enclave of this code is its verdict and its report,
\* which is left out only where it does not fit (response.rs 60-112).
ReplyFaithful ==
  \A e \in Exchange :
    (outcome[e] \in FailureReason \union {"success"} /\ peer[e].boot \in Genuine) =>
      \E x \in replies[e] :
        /\ x.verdict = outcome[e] /\ x.statement = token[e]
        /\ \/ report[e] = x.report
           \/ EncodedLen(x) > Budget /\ report[e] = Omitted(x.report.size)

\* No report costs the caller the verdict: what is left of a result always fits an
\* envelope (response.rs 64-75).
NoVerdictLost == lost = {}

\* Every call of connect and request_match ends, although the host may be silent in
\* any phase, the close included (session.rs 66-79, 102, 177, 220).
CallsEnd == \A e \in Exchange : pc[e] \in Waiting ~> pc[e] \in {"session", "done"}

=============================================================================
