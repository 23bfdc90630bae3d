------------------------- MODULE ClientSessionProofs -------------------------
(***************************************************************************)
(* Theorems of Envelope and ClientSession, for every set of sessions,      *)
(* boots, releases and requests, every configuration that callers try, and *)
(* every size of envelopes and reports.                                    *)
(***************************************************************************)
EXTENDS ClientSession, TLAPS

-----------------------------------------------------------------------------
(* Envelopes.                                                               *)

LEMMA ReportLens ==
  ASSUME NEW n \in Nat
  PROVE  /\ ReportLen(Available(n)) = AvailableLen + n
         /\ ReportLen(Omitted(n)) = OmittedLen
         /\ ReportLen(NotProduced) = NotProducedLen
  BY DEF ReportLen, Available, Omitted, NotProduced

LEMMA LenIsNat ==
  ASSUME NEW x \in Reply
  PROVE  EncodedLen(x) \in Nat /\ x.size = StatementLen /\ x.report \in Report
<1>1. x.size = StatementLen /\ x.report \in Report
  BY DEF Reply
<1>2. x.report.size \in Nat /\ x.report.kind \in {"available", "not_produced", "omitted"}
  BY <1>1 DEF Report
<1>3. ReportLen(x.report) \in Nat
  BY <1>2, EnvelopeAssumption DEF ReportLen
<1> QED  BY <1>1, <1>3, ClientAssumption DEF EncodedLen

(* Nothing but the report changes, and that only where the whole does not fit. *)
LEMMA FittedKeeps ==
  ASSUME NEW x \in Reply
  PROVE  /\ Fitted(x) \in Reply
         /\ Fitted(x).verdict = x.verdict /\ Fitted(x).statement = x.statement
         /\ \/ Fitted(x) = x
            \/ /\ EncodedLen(x) > Budget /\ x.report.kind = "available"
               /\ Fitted(x).report = Omitted(x.report.size)
<1>1. CASE EncodedLen(x) > Budget /\ x.report.kind = "available"
  <2>1. Fitted(x) = [x EXCEPT !.report = Omitted(x.report.size)]
    BY <1>1 DEF Fitted
  <2>2. Omitted(x.report.size) \in Report
    BY DEF Reply, Report, Omitted
  <2> QED  BY <1>1, <2>1, <2>2 DEF Reply
<1>2. CASE ~(EncodedLen(x) > Budget /\ x.report.kind = "available")
  BY <1>2 DEF Fitted
<1> QED  BY <1>1, <1>2

(* What to_padded_cbor encodes, from_padded_cbor opens, and it comes back   *)
(* with no more than its report left out (response.rs 60-112).              *)
THEOREM EnvelopesOpen ==
  ASSUME NEW x \in Reply, Encodes(x)
  PROVE  /\ Opens(ToPadded(x))
         /\ ToPadded(x).body.verdict = x.verdict /\ ToPadded(x).body.statement = x.statement
         /\ \/ ToPadded(x).body.report = x.report
            \/ EncodedLen(x) > Budget /\ ToPadded(x).body.report = Omitted(x.report.size)
<1> DEFINE y == Fitted(x)
<1>1. /\ ToPadded(x).body = y /\ ToPadded(x).total = EnvelopeLen
      /\ ToPadded(x).padding = "zero" /\ ToPadded(x).length = EncodedLen(y)
  BY DEF ToPadded
<1>2. EncodedLen(y) \in Nat /\ EncodedLen(y) <= EnvelopeLen - LengthLen
  BY FittedKeeps, LenIsNat DEF Encodes, Budget
<1>3. LengthLen + EncodedLen(y) <= EnvelopeLen
  BY <1>2, EnvelopeAssumption DEF LengthLen
<1>4. ValidReport(y.report)
  <2>1. CASE y = x
    BY <2>1 DEF Encodes
  <2>2. CASE EncodedLen(x) > Budget /\ x.report.kind = "available" /\ y.report = Omitted(x.report.size)
    <3>1. x.report.size \in Nat
      BY LenIsNat DEF Report
    <3>2. EncodedLen(x) = StatementLen + (AvailableLen + x.report.size)
      BY <2>2, LenIsNat DEF EncodedLen, ReportLen
    <3>3. x.report.size > 0
      BY <2>2, <3>1, <3>2, EnvelopeAssumption, ClientAssumption DEF Budget, LengthLen
    <3> QED  BY <2>2, <3>3 DEF ValidReport, Omitted
  <2> QED  BY <2>1, <2>2, FittedKeeps
<1>5. Opens(ToPadded(x))
  BY <1>1, <1>3, <1>4 DEF Opens
<1>6. y.verdict = x.verdict /\ y.statement = x.statement
  BY FittedKeeps
<1>7. y.report = x.report \/ (EncodedLen(x) > Budget /\ y.report = Omitted(x.report.size))
  BY FittedKeeps
<1> QED  BY <1>1, <1>5, <1>6, <1>7

(* The worker's report never costs a result its envelope.                   *)
LEMMA WorkerReportsEncode ==
  ASSUME NEW x \in Reply, NEW n \in Nat, x.report \in {NotProduced, FromWorker(n)}
  PROVE  Encodes(x)
<1>1. ValidReport(x.report)
  BY EnvelopeAssumption DEF ValidReport, NotProduced, FromWorker, Omitted, Available
<1>2. CASE EncodedLen(x) > Budget /\ x.report.kind = "available"
  <2>1. Fitted(x) \in Reply /\ Fitted(x).report = Omitted(x.report.size)
    <3>1. Fitted(x) = [x EXCEPT !.report = Omitted(x.report.size)]
      BY <1>2 DEF Fitted
    <3> QED  BY <3>1, FittedKeeps DEF Reply
  <2>2. EncodedLen(Fitted(x)) = StatementLen + OmittedLen
    BY <2>1, LenIsNat DEF EncodedLen, ReportLen, Omitted
  <2> QED  BY <1>1, <2>2, ClientAssumption DEF Encodes
<1>3. CASE ~(EncodedLen(x) > Budget /\ x.report.kind = "available")
  <2>1. Fitted(x) = x
    BY <1>3 DEF Fitted
  <2>2. CASE x.report.kind = "available"
    <3>1. EncodedLen(x) <= Budget
      BY <1>3, <2>2, LenIsNat, EnvelopeAssumption DEF Budget, LengthLen
    <3> QED  BY <1>1, <2>1, <3>1 DEF Encodes
  <2>3. CASE x.report.kind # "available"
    <3>1. ReportLen(x.report) \in {NotProducedLen, OmittedLen}
      BY <2>3, LenIsNat DEF ReportLen, Report
    <3>2. EncodedLen(x) <= StatementLen + OmittedLen
      BY <3>1, LenIsNat, EnvelopeAssumption, ClientAssumption DEF EncodedLen
    <3>3. EncodedLen(x) <= Budget
      BY <3>2, LenIsNat, EnvelopeAssumption, ClientAssumption DEF Budget, LengthLen
    <3> QED  BY <1>1, <2>1, <3>3 DEF Encodes
  <2> QED  BY <2>2, <2>3
<1> QED  BY <1>2, <1>3

-----------------------------------------------------------------------------
(* The inductive invariant.                                                 *)

Peer == [boot : Boot, releases : SUBSET Release]
Early == {"idle", "session"} \union Connecting

\* The assignment of e is verified, and its request is one that may be sent.
Peered(e) == peer[e] \in Peer /\ Trusts(config, Pcr[peer[e].boot])
Admitted(e) ==
  /\ Peered(e)
  /\ asked[e] \in Request /\ asked[e].valid /\ asked[e].release \in peer[e].releases

ConfigOK ==
  /\ client # "none" => config \in Config
  /\ client = "ready" => VerifierOk(config)

\* What an exchange has, by its phase.
PhaseOK(e) ==
  /\ pc[e] # "idle" => client = "ready"
  /\ pc[e] \in {"session"} \union Matching => Peered(e)
  /\ asked[e] # None => Admitted(e)
  /\ pc[e] \in Early => asked[e] = None
  /\ pc[e] \in Matching => asked[e] # None
  /\ pc[e] \in Early \union Matching => outcome[e] = "none"
  /\ pc[e] \in Waiting => left[e] + spent[e] = Allowed(pc[e])

\* b processed q, on the release it asks for.
Processed(b, q) == q.pair \in processed[b] /\ q.release = release[b]

ServedReply(e, x) ==
  /\ asked[e] # None /\ peer[e].boot \in Genuine
  /\ x.verdict # "success" => x.statement = None
  /\ x.verdict = "success" =>
       x.statement = Signed(peer[e].boot, asked[e]) /\ Processed(peer[e].boot, asked[e])

\* Of two replies that carry a statement, both are of one exchange, or they are
\* of two boots or two pairs.
Unique ==
  \A e, f \in Exchange : \A x \in replies[e], y \in replies[f] :
    (x.verdict = "success" /\ y.verdict = "success"
       /\ peer[e].boot = peer[f].boot /\ asked[e].pair = asked[f].pair) => e = f

\* A statement that is accepted may be relied on.
Accepted(e, s) ==
  /\ asked[e] # None /\ s \in Statement
  /\ s.claims = asked[e]
  /\ s.doc = [boot |-> s.signer, key |-> "signing"]
  /\ Trusts(config, Pcr[s.signer])
  /\ s.signer \in Genuine => Processed(s.signer, asked[e])

\* What a caller gets of an enclave of this code, it said.
Said(e, result, s, r) ==
  \E x \in replies[e] :
    /\ x.verdict = result /\ x.statement = s
    /\ r = x.report \/ (EncodedLen(x) > Budget /\ r = Omitted(x.report.size))

ResultOK(e) ==
  /\ outcome[e] = "success" => Accepted(e, token[e])
  /\ (outcome[e] \in FailureReason \union {"success"} /\ peer[e].boot \in Genuine) =>
       Said(e, outcome[e], token[e], report[e])

IInv ==
  /\ TypeOK
  /\ ConfigOK
  /\ \A e \in Exchange : PhaseOK(e) /\ ResultOK(e) /\ \A x \in replies[e] : ServedReply(e, x)
  /\ Unique
  /\ lost = {}

-----------------------------------------------------------------------------
(* Types.                                                                   *)

LEMMA Timeouts_Nat ==
  ASSUME config \in Config
  PROVE  config.connect_timeout \in Nat /\ config.request_timeout \in Nat
  BY DEF Config

LEMMA EnterTypes ==
  ASSUME TypeOK, NEW e \in Exchange, NEW ph \in Phase, NEW t \in Nat, Enter(e, ph, t)
  PROVE  /\ pc' \in [Exchange -> Phase] /\ left' \in [Exchange -> Nat] /\ spent' \in [Exchange -> Nat]
  BY DEF TypeOK, Enter

(* A way out of a call keeps the types.                                     *)
LEMMA ReturnsTypes ==
  ASSUME TypeOK, config \in Config, NEW e \in Exchange,
         NEW result \in {"none", "dropped", "success"} \union FailureReason \union Error,
         NEW s \in Statement \union {None}, NEW r \in Report,
         Returns(e, result, s, r)
  PROVE  TypeOK'
<1>1. /\ pc' \in [Exchange -> Phase] /\ left' \in [Exchange -> Nat] /\ spent' \in [Exchange -> Nat]
  BY EnterTypes, Timeouts_Nat DEF Returns, Phase, Waiting
<1>2. /\ outcome' \in [Exchange -> {"none", "dropped", "success"} \union FailureReason \union Error]
      /\ token' \in [Exchange -> Statement \union {None}] /\ report' \in [Exchange -> Report]
  BY DEF TypeOK, Returns
<1> QED  BY <1>1, <1>2 DEF TypeOK, Returns, configVars, enclaveVars

LEMMA FailsTypes ==
  ASSUME TypeOK, config \in Config, NEW e \in Exchange, NEW error \in Error, Fails(e, error)
  PROVE  TypeOK'
<1>1. NotProduced \in Report
  BY DEF NotProduced, Report
<1> QED  BY <1>1, ReturnsTypes DEF Fails

-----------------------------------------------------------------------------
(* Configuration.                                                           *)

LEMMA ConfigStep ==
  ASSUME IInv, Configure
  PROVE  IInv'
<1> DEFINE Chosen ==
      /\ client \in {"none", "configured"} /\ config' \in Config
      /\ client' \in {"configured", "ready", "refused"}
      /\ (client' = "ready" => VerifierOk(config'))
      /\ UNCHANGED <<sessionVars, enclaveVars>>
<1>1. Chosen
  <2>1. CASE NewConfig
    BY <2>1, ClientAssumption DEF NewConfig, Configured
  <2>2. CASE FromJson
    BY <2>2, ClientAssumption DEF FromJson, Configured
  <2>3. ASSUME NEW a \in Ages, SetAge(a)  PROVE  Chosen
    BY <2>3, ClientAssumption DEF SetAge, WithAge, IInv, ConfigOK, Config
  <2>4. ASSUME NEW t \in Timeouts, SetTimeout(t)  PROVE  Chosen
    BY <2>4, ClientAssumption DEF SetTimeout, WithTimeout, IInv, ConfigOK, Config
  <2>5. CASE NewClient
    BY <2>5 DEF NewClient, IInv, ConfigOK
  <2> QED  BY <2>1, <2>2, <2>3, <2>4, <2>5 DEF Configure
<1>2. \A e \in Exchange : pc[e] = "idle"
  BY <1>1 DEF IInv, PhaseOK
<1>3. \A e \in Exchange : asked[e] = None /\ outcome[e] = "none" /\ replies[e] = {}
  <2> SUFFICES ASSUME NEW e \in Exchange  PROVE asked[e] = None /\ outcome[e] = "none" /\ replies[e] = {}
    OBVIOUS
  <2>1. asked[e] = None /\ outcome[e] = "none"
    BY <1>2 DEF IInv, PhaseOK, Early
  <2>2. \A x \in replies[e] : FALSE
    BY <2>1 DEF IInv, ServedReply
  <2> QED  BY <2>1, <2>2
<1>4. UNCHANGED <<pc, left, spent, peer, asked, outcome, token, report, release, processed, replies, lost>>
  BY <1>1 DEF sessionVars, phaseVars, resultVars, enclaveVars
<1>5. TypeOK'
  BY <1>1, <1>4 DEF IInv, TypeOK
<1>6. ConfigOK'
  BY <1>1 DEF ConfigOK
<1>7. ASSUME NEW e \in Exchange
      PROVE  PhaseOK(e)' /\ ResultOK(e)' /\ \A x \in replies'[e] : ServedReply(e, x)'
  BY <1>2, <1>3, <1>4 DEF PhaseOK, ResultOK, Matching, Waiting, Connecting, FailureReason
<1>8. Unique'
  BY <1>3, <1>4 DEF Unique
<1> QED  BY <1>4, <1>5, <1>6, <1>7, <1>8 DEF IInv

-----------------------------------------------------------------------------
(* Steps of an exchange.                                                    *)

\* Neither the configuration nor the enclaves move.
Apart == UNCHANGED <<configVars, enclaveVars>>

\* Nothing of f moves.
Same(f) ==
  /\ pc'[f] = pc[f] /\ left'[f] = left[f] /\ spent'[f] = spent[f]
  /\ peer'[f] = peer[f] /\ asked'[f] = asked[f]
  /\ outcome'[f] = outcome[f] /\ token'[f] = token[f] /\ report'[f] = report[f]

Holds(f) == PhaseOK(f) /\ ResultOK(f) /\ \A x \in replies[f] : ServedReply(f, x)

LEMMA Unmoved ==
  ASSUME IInv, Apart, NEW f \in Exchange, Same(f)
  PROVE  Holds(f)'
<1>1. Holds(f)
  BY DEF IInv, Holds
<1>2. UNCHANGED <<config, client, release, processed, replies, lost>>
  BY DEF Apart, configVars, enclaveVars
<1>3. Peered(f)' = Peered(f) /\ Admitted(f)' = Admitted(f)
  BY <1>2 DEF Same, Peered, Admitted
<1>4. PhaseOK(f)'
  BY <1>1, <1>2, <1>3 DEF Holds, PhaseOK, Same, Allowed
<1>5. ResultOK(f)'
  BY <1>1, <1>2 DEF Holds, ResultOK, Same, Accepted, Processed, Said
<1>6. \A x \in replies'[f] : ServedReply(f, x)'
  BY <1>1, <1>2 DEF Holds, ServedReply, Same, Processed
<1> QED  BY <1>4, <1>5, <1>6 DEF Holds

\* Only an exchange without replies may change its enclave or its request.
LEMMA StillUnique ==
  ASSUME IInv, Apart, NEW e \in Exchange, \A f \in Exchange \ {e} : Same(f),
         replies[e] = {} \/ (peer'[e] = peer[e] /\ asked'[e] = asked[e])
  PROVE  Unique'
<1>1. replies' = replies
  BY DEF Apart, enclaveVars
<1>2. \A f \in Exchange : replies[f] = {} \/ (peer'[f] = peer[f] /\ asked'[f] = asked[f])
  BY DEF Same
<1>3. Unique
  BY DEF IInv
<1> QED  BY <1>1, <1>2, <1>3 DEF Unique

LEMMA Moved ==
  ASSUME IInv, Apart, TypeOK', NEW e \in Exchange, \A f \in Exchange \ {e} : Same(f),
         replies[e] = {} \/ (peer'[e] = peer[e] /\ asked'[e] = asked[e]),
         Holds(e)'
  PROVE  IInv'
<1>1. ConfigOK' /\ lost' = {}
  BY DEF IInv, ConfigOK, Apart, configVars, enclaveVars
<1>2. \A f \in Exchange : Holds(f)'
  BY Unmoved
<1>3. Unique'
  BY StillUnique
<1> QED  BY <1>1, <1>2, <1>3 DEF IInv, Holds

LEMMA NoReplyYet ==
  ASSUME IInv, NEW e \in Exchange, asked[e] = None
  PROVE  replies[e] = {}
<1>1. \A x \in replies[e] : FALSE
  BY DEF IInv, ServedReply
<1> QED  BY <1>1

(* A way out of a call keeps the invariant, if what it gives the caller may *)
(* be given.                                                                *)
LEMMA ReturnsStep ==
  ASSUME IInv, client = "ready", NEW e \in Exchange, pc[e] \in Early \union Matching,
         NEW result \in {"success"} \union FailureReason \union Error,
         NEW s \in Statement \union {None}, NEW r \in Report,
         Returns(e, result, s, r),
         result = "success" => Accepted(e, s),
         (result \in FailureReason \union {"success"} /\ peer[e].boot \in Genuine) => Said(e, result, s, r)
  PROVE  IInv'
<1> USE DEF IInv
<1>1. config \in Config
  BY DEF ConfigOK
<1>2. TypeOK'
  BY <1>1, ReturnsTypes
<1>3. Apart /\ UNCHANGED <<peer, asked, config, client, release, processed, replies, lost>>
  BY DEF Returns, Apart, configVars, enclaveVars
<1>4. \A f \in Exchange \ {e} : Same(f)
  BY <1>3 DEF Returns, Enter, TypeOK, Same
<1>5. /\ \/ pc'[e] = "closing" /\ left'[e] = config.request_timeout /\ spent'[e] = 0
         \/ pc'[e] = "done"
      /\ outcome'[e] = result /\ token'[e] = s /\ report'[e] = r
  BY DEF Returns, Enter, TypeOK
<1>6. PhaseOK(e)'
  <2>1. pc'[e] \notin Early \union Matching \union {"idle"}
    BY <1>5 DEF Early, Matching, Connecting
  <2>2. asked'[e] # None => Admitted(e)'
    BY <1>3 DEF PhaseOK, Admitted, Peered
  <2>3. pc'[e] \in Waiting => left'[e] + spent'[e] = Allowed(pc[e])'
    BY <1>1, <1>3, <1>5, Timeouts_Nat DEF Waiting, Connecting, Matching, Allowed
  <2> QED  BY <1>3, <2>1, <2>2, <2>3 DEF PhaseOK, Early
<1>7. ResultOK(e)'
  BY <1>3, <1>5 DEF ResultOK, Accepted, Processed, Said
<1>8. \A x \in replies'[e] : ServedReply(e, x)'
  BY <1>3 DEF ServedReply, Processed
<1>9. Holds(e)'
  BY <1>6, <1>7, <1>8 DEF Holds
<1> QED  BY <1>2, <1>3, <1>4, <1>9, Moved

\* What is no result of an enclave goes to the caller as it is.
LEMMA FailsStep ==
  ASSUME IInv, client = "ready", NEW e \in Exchange, pc[e] \in Early \union Matching,
         NEW error \in Error, Fails(e, error)
  PROVE  IInv'
<1>1. NotProduced \in Report
  BY DEF NotProduced, Report
<1>2. error \notin FailureReason \union {"success"}
  BY DEF Error, FailureReason
<1> QED  BY <1>1, <1>2, ReturnsStep DEF Fails

LEMMA FailStep ==
  ASSUME IInv, NEW e \in Exchange, pc[e] \in (Early \union Matching) \ {"idle"},
         NEW error \in Error, Fails(e, error)
  PROVE  IInv'
<1>1. client = "ready"
  BY DEF IInv, PhaseOK
<1> QED  BY <1>1, FailsStep

(* The phases of connect: nothing is known of an enclave yet.               *)
LEMMA ConnectingStep ==
  ASSUME IInv, NEW e \in Exchange, Connect(e) \/ Upgraded(e) \/ Sent(e)
  PROVE  IInv'
<1> USE DEF IInv
<1>1. client = "ready" /\ config \in Config
  BY DEF Connect, Upgraded, Sent, PhaseOK, ConfigOK
<1>2. CASE Connect(e) /\ ~HasEndpoint(config)
  <2>1. Fails(e, "InvalidConfig") /\ pc[e] \in Early
    BY <1>2 DEF Connect, Early
  <2> QED  BY <1>1, <2>1, FailsStep DEF Error
<1>3. CASE (Connect(e) /\ HasEndpoint(config)) \/ Upgraded(e)
  <2>1. PICK ph \in {"upgrading", "asking"} : Enter(e, ph, Allowed(ph))
    BY <1>3 DEF Connect, Upgraded, Allowed
  <2>2. Allowed(ph) \in Nat /\ ph \in Phase
    BY <1>1, Timeouts_Nat DEF Allowed, Phase, Waiting, Connecting
  <2>3. /\ UNCHANGED <<configVars, peer, asked, resultVars, enclaveVars>>
        /\ pc[e] \in {"idle", "upgrading"}
    BY <1>3 DEF Connect, Upgraded
  <2>4. UNCHANGED <<config, client, peer, asked, outcome, token, report, release, processed, replies, lost>>
    BY <2>3 DEF configVars, resultVars, enclaveVars
  <2>5. TypeOK'
    BY <2>1, <2>2, <2>4, EnterTypes DEF TypeOK
  <2>6. \A f \in Exchange \ {e} : Same(f)
    BY <2>1, <2>4 DEF Enter, TypeOK, Same
  <2>7. pc'[e] = ph /\ left'[e] = Allowed(ph) /\ spent'[e] = 0
    BY <2>1 DEF Enter, TypeOK
  <2>8. PhaseOK(e)'
    <3>1. asked[e] = None /\ outcome[e] = "none"
      BY <2>3 DEF PhaseOK, Early, Connecting
    <3>2. left'[e] + spent'[e] = Allowed(pc[e])'
      BY <2>2, <2>4, <2>7 DEF Allowed
    <3> QED  BY <1>1, <2>4, <2>7, <3>1, <3>2 DEF PhaseOK, Matching
  <2>9. Holds(e)'
    BY <2>4, <2>8 DEF Holds, ResultOK, Accepted, Processed, Said, ServedReply
  <2> QED  BY <2>3, <2>4, <2>5, <2>6, <2>9, Moved DEF Apart
<1>4. CASE Sent(e)
  <2>1. PICK ph \in {"assigning", "matching"} : Proceed(e, ph)
             /\ pc[e] = (IF ph = "assigning" THEN "asking" ELSE "sending")
    BY <1>4 DEF Sent
  <2>2. UNCHANGED <<configVars, peer, asked, resultVars, enclaveVars>>
    BY <1>4 DEF Sent
  <2>3. UNCHANGED <<config, client, peer, asked, outcome, token, report, release, processed, replies, lost, left, spent>>
    BY <2>1, <2>2 DEF configVars, resultVars, enclaveVars, Proceed
  <2>4. pc' = [pc EXCEPT ![e] = ph] /\ ph \in Phase
    BY <2>1 DEF Proceed, Phase, Waiting, Connecting, Matching
  <2>5. TypeOK'
    BY <2>3, <2>4 DEF TypeOK
  <2>6. \A f \in Exchange \ {e} : Same(f)
    BY <2>3, <2>4 DEF TypeOK, Same
  <2>7. pc'[e] = ph
    BY <2>4 DEF TypeOK
  <2>8. PhaseOK(e)'
    <3>1. Peered(e)' = Peered(e) /\ Admitted(e)' = Admitted(e) /\ Allowed(pc[e])' = Allowed(pc[e])
      BY <2>1, <2>3, <2>7 DEF Peered, Admitted, Allowed
    <3> QED  BY <1>1, <2>1, <2>3, <2>7, <3>1 DEF PhaseOK, Early, Matching, Waiting, Connecting
  <2>9. Holds(e)'
    BY <2>3, <2>8 DEF Holds, ResultOK, Accepted, Processed, Said, ServedReply
  <2> QED  BY <2>2, <2>3, <2>5, <2>6, <2>9, Moved DEF Apart
<1> QED  BY <1>2, <1>3, <1>4

\* What the transport or the host does instead of answering.
LEMMA FrameStep ==
  ASSUME IInv, NEW e \in Exchange,
         ErrorEnvelope(e) \/ TransportFails(e) \/ PeerCloses(e) \/ Unexpected(e) \/ BadBinary(e)
  PROVE  IInv'
<1>1. pc[e] \in (Early \union Matching) \ {"idle"}
  BY DEF ErrorEnvelope, TransportFails, PeerCloses, Unexpected, BadBinary, Reading, Early, Connecting, Matching
<1>2. \E error \in Error : Fails(e, error)
  BY DEF ErrorEnvelope, TransportFails, PeerCloses, Unexpected, BadBinary, Classify, Error
<1> QED  BY <1>1, <1>2, FailStep

(* The assignment: its key is attested by an enclave that the client trusts. *)
LEMMA AssignedStep ==
  ASSUME IInv, NEW e \in Exchange, Assigned(e)
  PROVE  IInv'
<1> USE DEF IInv
<1>1. pc[e] = "assigning"
  BY DEF Assigned
<1>2. ASSUME NEW error \in {"MalformedAssignment", "Channel"}, Fails(e, error)
      PROVE  IInv'
  <2>1. pc[e] \in (Early \union Matching) \ {"idle"} /\ error \in Error
    BY <1>1 DEF Early, Connecting, Error
  <2> QED  BY <1>2, <2>1, FailStep
<1>3. ASSUME NEW a \in Assignment, Accepts(a), Enter(e, "session", 0),
             peer' = [peer EXCEPT ![e] = [boot |-> a.key, releases |-> a.releases]],
             UNCHANGED <<configVars, asked, resultVars, enclaveVars>>
      PROVE  IInv'
  <2>1. UNCHANGED <<config, client, asked, outcome, token, report, release, processed, replies, lost>>
    BY <1>3 DEF configVars, resultVars, enclaveVars
  <2>2. /\ a.doc.boot = a.key /\ a.key \in Boot /\ a.releases \in SUBSET Release
        /\ Trusts(config, Pcr[a.key])
    BY <1>3, ClientAssumption DEF Assignment, Accepts, Verifies
  <2>3. [boot |-> a.key, releases |-> a.releases] \in Peer
    BY <2>2 DEF Peer
  <2>4. peer' \in [Exchange -> Peer \union {None}]
    BY <1>3, <2>3 DEF TypeOK, Peer
  <2>5. "session" \in Phase
    BY DEF Phase
  <2>6. TypeOK'
    BY <1>3, <2>1, <2>4, <2>5, EnterTypes DEF TypeOK, Peer
  <2>7. pc'[e] = "session" /\ peer'[e] = [boot |-> a.key, releases |-> a.releases]
    BY <1>3 DEF Enter, TypeOK
  <2>8. \A f \in Exchange \ {e} : Same(f)
    BY <1>3, <2>1 DEF Enter, TypeOK, Same
  <2>9. asked[e] = None /\ outcome[e] = "none" /\ client = "ready"
    BY <1>1 DEF PhaseOK, Early, Connecting
  <2>10. replies[e] = {}
    BY <2>9, NoReplyYet
  <2>11. Peered(e)'
    BY <2>1, <2>2, <2>3, <2>7 DEF Peered
  <2>12. PhaseOK(e)'
    BY <2>1, <2>7, <2>9, <2>11 DEF PhaseOK, Matching, Waiting, Connecting
  <2>13. Holds(e)'
    BY <2>1, <2>9, <2>10, <2>12 DEF Holds, ResultOK, FailureReason
  <2> QED  BY <1>3, <2>6, <2>8, <2>10, <2>13, Moved DEF Apart
<1> QED  BY <1>2, <1>3 DEF Assigned

(* The request is sealed: it may be sent, and to the enclave that was       *)
(* verified.                                                                *)
LEMMA RequestStep ==
  ASSUME IInv, NEW e \in Exchange, NEW q \in Request, RequestMatch(e, q)
  PROVE  IInv'
<1> USE DEF IInv
<1>1. pc[e] = "session" /\ client = "ready" /\ config \in Config
  BY DEF RequestMatch, PhaseOK, ConfigOK
<1>2. ASSUME NEW error \in {"MalformedRequest", "ReleaseUnavailable", "Channel", "MalformedResult"},
             Fails(e, error)
      PROVE  IInv'
  <2>1. pc[e] \in (Early \union Matching) \ {"idle"} /\ error \in Error
    BY <1>1 DEF Early, Error
  <2> QED  BY <1>2, <2>1, FailStep
<1>3. ASSUME MaySend(e, q), asked' = [asked EXCEPT ![e] = q],
             Enter(e, "sending", config.request_timeout),
             UNCHANGED <<configVars, peer, resultVars, enclaveVars>>
      PROVE  IInv'
  <2>1. UNCHANGED <<config, client, peer, outcome, token, report, release, processed, replies, lost>>
    BY <1>3 DEF configVars, resultVars, enclaveVars
  <2>2. q # None
    BY ClientAssumption
  <2>3. "sending" \in Phase
    BY DEF Phase, Waiting, Matching
  <2>4. asked' \in [Exchange -> Request \union {None}]
    BY <1>3 DEF TypeOK
  <2>5. TypeOK'
    BY <1>1, <1>3, <2>1, <2>3, <2>4, EnterTypes, Timeouts_Nat DEF TypeOK
  <2>6. /\ pc'[e] = "sending" /\ left'[e] = config.request_timeout /\ spent'[e] = 0
        /\ asked'[e] = q
    BY <1>3 DEF Enter, TypeOK
  <2>7. \A f \in Exchange \ {e} : Same(f)
    BY <1>3, <2>1 DEF Enter, TypeOK, Same
  <2>8. asked[e] = None /\ outcome[e] = "none" /\ Peered(e)
    BY <1>1 DEF PhaseOK, Early
  <2>9. replies[e] = {}
    BY <2>8, NoReplyYet
  <2>10. Peered(e)' /\ Admitted(e)'
    BY <1>3, <2>1, <2>6, <2>8 DEF Peered, Admitted, MaySend
  <2>11. left'[e] + spent'[e] = Allowed(pc[e])'
    BY <1>1, <2>1, <2>6, Timeouts_Nat DEF Allowed
  <2>12. PhaseOK(e)'
    BY <1>1, <2>1, <2>2, <2>6, <2>8, <2>10, <2>11 DEF PhaseOK, Early, Connecting
  <2>13. Holds(e)'
    BY <2>1, <2>8, <2>9, <2>12 DEF Holds, ResultOK, FailureReason
  <2> QED  BY <1>3, <2>5, <2>7, <2>9, <2>13, Moved DEF Apart
<1> QED  BY <1>2, <1>3 DEF RequestMatch

\* Where a reply is read, there is a request.
LEMMA Matched ==
  ASSUME IInv, NEW e \in Exchange, pc[e] = "matching"
  PROVE  /\ client = "ready" /\ pc[e] \in (Early \union Matching) \ {"idle"}
         /\ asked[e] # None /\ asked[e] \in Request /\ peer[e] \in Peer
<1>1. pc[e] \in Matching /\ Matching \subseteq Early \union Matching /\ pc[e] # "idle"
  BY DEF Matching
<1> QED  BY <1>1 DEF IInv, PhaseOK, Admitted, Peered

\* A statement nothing is wrong with may be accepted, if a genuine signer did
\* process what it says.
LEMMA Verified ==
  ASSUME IInv, NEW e \in Exchange, pc[e] = "matching",
         NEW s \in Statement, NEW age \in Ages, Refutes(e, s, age) = "none",
         s.signer \in Genuine => Processed(s.signer, asked[e]) \/ s.claims # asked[e]
  PROVE  Accepted(e, s)
<1>1. Verifies(s.doc, age) /\ s.doc.key = "signing" /\ s.signer = s.doc.boot /\ s.claims = asked[e]
  BY DEF Refutes
<1>2. s.doc \in Doc
  BY DEF Statement
<1>3. s.doc = [boot |-> s.signer, key |-> "signing"]
  BY <1>1, <1>2 DEF Doc
<1> QED  BY <1>1, <1>3, Matched DEF Accepted, Verifies

LEMMA ReadStep ==
  ASSUME IInv, NEW e \in Exchange, pc[e] = "matching", NEW env,
         env.body.verdict \in {"success"} \union FailureReason, env.body.report \in Report,
         env.body.verdict = "success" =>
           /\ env.body.statement \in Statement
           /\ env.body.statement.signer \in Genuine =>
                Processed(env.body.statement.signer, asked[e]) \/ env.body.statement.claims # asked[e],
         peer[e].boot \in Genuine =>
           Said(e, env.body.verdict, IF env.body.verdict = "success" THEN env.body.statement ELSE None,
                env.body.report),
         Opened(e, env)
  PROVE  IInv'
<1>1. ASSUME NEW error \in {"MalformedResult", "Attestation", "InvalidSigningKey", "StatementInvalid"},
             Fails(e, error)
      PROVE  IInv'
  BY <1>1, Matched, FailStep DEF Error
<1>2. CASE ~Opens(env) /\ Fails(e, "MalformedResult")
  BY <1>1, <1>2
<1>3. CASE env.body.verdict # "success" /\ Returns(e, env.body.verdict, None, env.body.report)
  <2>1. env.body.verdict \in FailureReason
    BY <1>3
  <2>2. peer[e].boot \in Genuine => Said(e, env.body.verdict, None, env.body.report)
    BY <1>3
  <2> HIDE DEF FailureReason
  <2> QED  BY <1>3, <2>1, <2>2, Matched, ReturnsStep
<1>4. ASSUME NEW age \in Ages, env.body.verdict = "success",
             IF Refutes(e, env.body.statement, age) = "none"
             THEN Returns(e, "success", env.body.statement, env.body.report)
             ELSE Fails(e, Refutes(e, env.body.statement, age))
      PROVE  IInv'
  <2>1. CASE Refutes(e, env.body.statement, age) = "none"
    <3>1. Accepted(e, env.body.statement)
      BY <1>4, <2>1, Verified
    <3>2. peer[e].boot \in Genuine => Said(e, "success", env.body.statement, env.body.report)
      BY <1>4
    <3> QED  BY <1>4, <2>1, <3>1, <3>2, Matched, ReturnsStep
  <2>2. CASE Refutes(e, env.body.statement, age) # "none"
    <3>1. Refutes(e, env.body.statement, age) \in {"Attestation", "InvalidSigningKey", "StatementInvalid"}
      BY <2>2 DEF Refutes
    <3> QED  BY <1>1, <1>4, <2>2, <3>1
  <2> QED  BY <2>1, <2>2
<1> QED  BY <1>2, <1>3, <1>4 DEF Opened

(* The reply of an enclave of this code.                                    *)
LEMMA ReplyStep ==
  ASSUME IInv, NEW e \in Exchange, ReplyRead(e)
  PROVE  IInv'
<1>1. pc[e] = "matching" /\ peer[e].boot \in Genuine
  BY DEF ReplyRead
<1>2. PICK x \in replies[e] : Encodes(x) /\ Opened(e, ToPadded(x))
  BY DEF ReplyRead
<1>3. x \in Reply /\ ServedReply(e, x)
  BY <1>2 DEF IInv, TypeOK
<1> DEFINE y == ToPadded(x).body
<1>4. /\ y.verdict = x.verdict /\ y.statement = x.statement
      /\ y.report = x.report \/ (EncodedLen(x) > Budget /\ y.report = Omitted(x.report.size))
  BY <1>2, <1>3, EnvelopesOpen
<1>5. y.report \in Report /\ y.verdict \in {"success"} \union FailureReason
  <2>1. y = Fitted(x)
    BY DEF ToPadded
  <2>2. y \in Reply
    BY <1>3, <2>1, FittedKeeps
  <2> QED  BY <2>2 DEF Reply
<1>6. ASSUME y.verdict = "success"
      PROVE  /\ y.statement \in Statement /\ y.statement.signer = peer[e].boot
             /\ Processed(peer[e].boot, asked[e])
  <2>1. y.statement = Signed(peer[e].boot, asked[e]) /\ Processed(peer[e].boot, asked[e])
    BY <1>3, <1>4, <1>6 DEF ServedReply
  <2>2. peer[e].boot \in Boot /\ asked[e] \in Request
    BY <1>1, Matched DEF Peer
  <2> QED  BY <2>1, <2>2 DEF Signed, Statement, Doc
<1>7. Said(e, y.verdict, IF y.verdict = "success" THEN y.statement ELSE None, y.report)
  <2>1. x.verdict # "success" => x.statement = None
    BY <1>3 DEF ServedReply
  <2> QED  BY <1>2, <1>4, <2>1 DEF Said
<1> HIDE DEF y
<1> QED  BY <1>1, <1>2, <1>5, <1>6, <1>7, ReadStep DEF y

(* A reply of other code: what it says of genuine signers is what they      *)
(* issued.                                                                  *)
LEMMA ForeignStep ==
  ASSUME IInv, NEW e \in Exchange, ForeignReplyRead(e)
  PROVE  IInv'
<1>1. pc[e] = "matching" /\ peer[e].boot \notin Genuine
  BY DEF ForeignReplyRead
<1>2. NotProduced \in Report
  BY DEF NotProduced, Report
<1>3. ASSUME NEW s \in Statement,
             s.signer \in Genuine => \E i \in Issued : i.signer = s.signer /\ i.claims = s.claims,
             Opened(e, ToPadded(Success(s, NotProduced)))
      PROVE  IInv'
  <2> DEFINE x == Success(s, NotProduced)
             y == ToPadded(x).body
  <2>1. x.report.kind = "not_produced"
    BY DEF Success, NotProduced
  <2>2. y = x
    BY <2>1 DEF ToPadded, Fitted
  <2>3. y.verdict = "success" /\ y.statement = s /\ y.report = NotProduced
    BY <2>2 DEF Success
  <2>4. ASSUME s.signer \in Genuine, s.claims = asked[e]
        PROVE  Processed(s.signer, asked[e])
    <3>1. PICK i \in Issued : i.signer = s.signer /\ i.claims = s.claims
      BY <1>3, <2>4
    <3>2. PICK f \in Exchange : \E z \in replies[f] : z.verdict = "success" /\ i = z.statement
      BY DEF Issued
    <3>3. i = Signed(peer[f].boot, asked[f]) /\ Processed(peer[f].boot, asked[f])
      BY <3>2 DEF IInv, ServedReply
    <3>4. peer[f].boot = s.signer /\ asked[f] = asked[e]
      BY <2>4, <3>1, <3>3 DEF Signed
    <3> QED  BY <3>3, <3>4
  <2> HIDE DEF y
  <2> QED  BY <1>1, <1>2, <1>3, <2>3, <2>4, ReadStep DEF y
<1>4. ASSUME NEW reason \in Reason, NEW cut \in {0, 1},
             Opened(e, [ToPadded(Failed(reason, NotProduced)) EXCEPT !.length = @ - cut])
      PROVE  IInv'
  <2> DEFINE x == Failed(reason, NotProduced)
             env == [ToPadded(x) EXCEPT !.length = @ - cut]
  <2>1. x.report.kind = "not_produced" /\ x.verdict = reason /\ x.report = NotProduced
    BY DEF Failed, NotProduced
  <2>2. env.body = x
    BY <2>1 DEF ToPadded, Fitted
  <2>3. env.body.verdict = reason /\ env.body.report = NotProduced
    BY <2>1, <2>2
  <2>4. reason \in FailureReason /\ reason # "success"
    BY ClientAssumption DEF FailureReason
  <2>5. Opened(e, env)
    BY <1>4
  <2> HIDE DEF env, FailureReason
  <2> QED  BY <1>1, <1>2, <2>3, <2>4, <2>5, ReadStep
<1> QED  BY <1>3, <1>4 DEF ForeignReplyRead

(* Calls end: the close is over, a deadline passes, or the caller gives up. *)
LEMMA EndStep ==
  ASSUME IInv, NEW e \in Exchange, Closed(e) \/ Abandon(e)
  PROVE  IInv'
<1> USE DEF IInv
<1>1. client = "ready" /\ config \in Config /\ pc[e] # "idle"
  BY DEF Closed, Abandon, Waiting, Connecting, Matching, PhaseOK, ConfigOK
<1>2. Enter(e, "done", 0) /\ UNCHANGED <<configVars, peer, asked, enclaveVars>>
  BY DEF Closed, Abandon
<1>3. UNCHANGED <<config, client, peer, asked, release, processed, replies, lost>>
  BY <1>2 DEF configVars, enclaveVars
<1>4. \/ UNCHANGED <<outcome, token, report>>
      \/ /\ outcome' = [outcome EXCEPT ![e] = "dropped"]
         /\ token' = [token EXCEPT ![e] = None]
         /\ report' = [report EXCEPT ![e] = NotProduced]
  BY DEF Closed, Abandon, resultVars
<1>5. NotProduced \in Report /\ "done" \in Phase
  BY DEF NotProduced, Report, Phase
<1>6. TypeOK'
  <2>1. /\ pc' \in [Exchange -> Phase] /\ left' \in [Exchange -> Nat] /\ spent' \in [Exchange -> Nat]
    BY <1>2, <1>5, EnterTypes
  <2> QED  BY <1>3, <1>4, <1>5, <2>1 DEF TypeOK
<1>7. \A f \in Exchange \ {e} : Same(f)
  BY <1>2, <1>3, <1>4 DEF Enter, TypeOK, Same
<1>8. pc'[e] = "done"
  BY <1>2 DEF Enter, TypeOK
<1>9. PhaseOK(e)'
  <2>1. Peered(e)' = Peered(e) /\ Admitted(e)' = Admitted(e)
    BY <1>3 DEF Peered, Admitted
  <2> QED  BY <1>1, <1>3, <1>8, <2>1 DEF PhaseOK, Early, Matching, Waiting, Connecting
<1>10. ResultOK(e)'
  <2>1. CASE UNCHANGED <<outcome, token, report>>
    BY <1>3, <2>1 DEF ResultOK, Accepted, Processed, Said
  <2>2. CASE outcome' = [outcome EXCEPT ![e] = "dropped"]
    <3>1. outcome'[e] = "dropped"
      BY <2>2 DEF TypeOK
    <3> QED  BY <3>1 DEF ResultOK, FailureReason
  <2> QED  BY <1>4, <2>1, <2>2
<1>11. Holds(e)'
  BY <1>3, <1>9, <1>10 DEF Holds, ServedReply, Processed
<1> QED  BY <1>2, <1>3, <1>6, <1>7, <1>11, Moved DEF Apart

LEMMA ExpireStep ==
  ASSUME IInv, NEW e \in Exchange, Expire(e)
  PROVE  IInv'
<1>1. CASE Closed(e)
  BY <1>1, EndStep
<1>2. CASE pc[e] # "closing" /\ Fails(e, "Timeout")
  <2>1. pc[e] \in (Early \union Matching) \ {"idle"} /\ "Timeout" \in Error
    BY <1>2 DEF Expire, Waiting, Connecting, Matching, Early, Error
  <2> QED  BY <1>2, <2>1, FailStep
<1> QED  BY <1>1, <1>2 DEF Expire

(* Time passes for all that wait, and the sum of what is left and what is   *)
(* spent stays.                                                             *)
LEMMA TickStep ==
  ASSUME IInv, Tick
  PROVE  IInv'
<1> USE DEF IInv
<1>1. UNCHANGED <<config, client, pc, peer, asked, outcome, token, report, release, processed, replies, lost>>
  BY DEF Tick, configVars, resultVars, enclaveVars
<1>2. \A e \in Exchange : pc[e] \in Waiting =>
        left'[e] = left[e] - 1 /\ spent'[e] = spent[e] + 1 /\ left[e] > 0
  BY DEF Tick
<1>3. left' \in [Exchange -> Nat] /\ spent' \in [Exchange -> Nat]
  <2>1. left \in [Exchange -> Nat] /\ spent \in [Exchange -> Nat]
    BY DEF TypeOK
  <2>2. \A e \in Exchange : /\ (IF pc[e] \in Waiting THEN left[e] - 1 ELSE left[e]) \in Nat
                            /\ (IF pc[e] \in Waiting THEN spent[e] + 1 ELSE spent[e]) \in Nat
    BY <1>2, <2>1
  <2> QED  BY <2>2 DEF Tick
<1>4. TypeOK'
  BY <1>1, <1>3 DEF TypeOK
<1>5. ASSUME NEW e \in Exchange
      PROVE  Holds(e)'
  <2>1. Peered(e)' = Peered(e) /\ Admitted(e)' = Admitted(e) /\ Allowed(pc[e])' = Allowed(pc[e])
    BY <1>1 DEF Peered, Admitted, Allowed
  <2>2. pc'[e] \in Waiting => left'[e] + spent'[e] = left[e] + spent[e]
    <3>1. left[e] \in Nat /\ spent[e] \in Nat
      BY DEF TypeOK
    <3> QED  BY <1>1, <1>2, <3>1
  <2>3. PhaseOK(e)'
    BY <1>1, <2>1, <2>2 DEF PhaseOK
  <2>4. ResultOK(e)'
    BY <1>1 DEF ResultOK, Accepted, Processed, Said
  <2> QED  BY <1>1, <2>3, <2>4 DEF Holds, ServedReply, Processed
<1>6. Unique' /\ ConfigOK'
  BY <1>1 DEF Unique, ConfigOK
<1> QED  BY <1>1, <1>4, <1>5, <1>6 DEF Holds

-----------------------------------------------------------------------------
(* Steps of an enclave.                                                     *)

\* The client does not move, and what was processed stays so.
LEMMA EnclaveKeeps ==
  ASSUME IInv, UNCHANGED <<configVars, sessionVars>>, NEW e \in Exchange, replies[e] \subseteq replies'[e],
         \A b \in Genuine, q \in Request : Processed(b, q) => Processed(b, q)'
  PROVE  PhaseOK(e)' /\ ResultOK(e)' /\ \A x \in replies[e] : ServedReply(e, x)'
<1> USE DEF IInv
<1>1. UNCHANGED <<config, client, pc, left, spent, peer, asked, outcome, token, report>>
  BY DEF configVars, sessionVars, phaseVars, resultVars
<1>2. PhaseOK(e)'
  BY <1>1 DEF PhaseOK, Peered, Admitted, Allowed
<1>3. asked[e] # None => asked[e] \in Request
  BY DEF TypeOK
<1>4. Accepted(e, token[e]) => Accepted(e, token[e])'
  BY <1>1, <1>3 DEF Accepted
<1>5. Said(e, outcome[e], token[e], report[e]) => Said(e, outcome[e], token[e], report[e])'
  BY <1>1 DEF Said
<1>6. ResultOK(e)'
  BY <1>1, <1>4, <1>5 DEF ResultOK
<1>7. \A x \in replies[e] : ServedReply(e, x)'
  BY <1>1, <1>3 DEF ServedReply, Signed
<1> QED  BY <1>2, <1>6, <1>7

LEMMA LoadStep ==
  ASSUME IInv, NEW b \in Genuine, NEW r \in Release, LoadRelease(b, r)
  PROVE  IInv'
<1> USE DEF IInv
<1>1. UNCHANGED <<configVars, sessionVars, processed, replies, lost>>
  BY DEF LoadRelease
<1>2. TypeOK'
  BY <1>1 DEF TypeOK, LoadRelease, configVars, sessionVars, phaseVars, resultVars
<1>3. ASSUME NEW c \in Genuine, NEW q \in Request, Processed(c, q)
      PROVE  Processed(c, q)'
  <2>1. q.release # None
    BY ClientAssumption DEF RequestShape
  <2>2. release[c] # None
    BY <1>3, <2>1 DEF Processed
  <2>3. release'[c] = release[c]
    BY <2>2 DEF LoadRelease, TypeOK
  <2> QED  BY <1>1, <1>3, <2>3 DEF Processed
<1>4. \A e \in Exchange : PhaseOK(e)' /\ ResultOK(e)' /\ \A x \in replies[e] : ServedReply(e, x)'
  BY <1>1, <1>3, EnclaveKeeps
<1>5. Unique' /\ ConfigOK'
  BY <1>1 DEF Unique, ConfigOK, configVars, sessionVars
<1> QED  BY <1>1, <1>2, <1>4, <1>5

\* Every answer of Serve is encoded.
LEMMA Answered ==
  ASSUME IInv, NEW e \in Exchange, NEW x \in Reply, NEW n \in Nat,
         x.report \in {NotProduced, FromWorker(n)}, Answers(e, x)
  PROVE  lost' = lost /\ replies' = [replies EXCEPT ![e] = @ \union {x}]
  BY WorkerReportsEncode DEF Answers

LEMMA ReplyShape ==
  ASSUME NEW r \in Report
  PROVE  /\ \A reason \in FailureReason : Failed(reason, r) \in Reply
         /\ \A s \in Statement : Success(s, r) \in Reply
  BY DEF Failed, Success, Reply

(* The enclave answers once a statement for a pair: the pair is reserved.   *)
LEMMA ServeStep ==
  ASSUME IInv, NEW b \in Genuine, NEW e \in Exchange, Serve(b, e)
  PROVE  IInv'
<1> USE DEF IInv
<1> DEFINE q == asked[e]
<1>1. q # None /\ q \in Request /\ peer[e].boot = b /\ b \in Boot
      /\ UNCHANGED <<configVars, sessionVars, release>>
  BY ClientAssumption DEF Serve, TypeOK
<1>2. UNCHANGED <<config, client, pc, left, spent, peer, asked, outcome, token, report, release>>
  BY <1>1 DEF configVars, sessionVars, phaseVars, resultVars
<1>3. \A n \in Nat : FromWorker(n) \in Report
  BY EnvelopeAssumption DEF FromWorker, Omitted, Available, Report
<1>4. NotProduced \in Report /\ 0 \in Nat
  BY DEF NotProduced, Report
<1>5. Signed(b, q) \in Statement
  BY <1>1 DEF Signed, Statement, Doc
<1>6. \E x \in Reply :
        /\ lost' = lost /\ replies' = [replies EXCEPT ![e] = @ \union {x}]
        /\ x.verdict # "success" => x.statement = None
        /\ \/ x.verdict # "success" /\ (processed' = processed
                \/ processed' = [processed EXCEPT ![b] = @ \union {q.pair}])
           \/ /\ x.verdict = "success" /\ x.statement = Signed(b, q)
              /\ RightRelease(b, q) /\ Fresh(b, q)
              /\ processed' = [processed EXCEPT ![b] = @ \union {q.pair}]
  <2> DEFINE Chosen(x) ==
        /\ lost' = lost /\ replies' = [replies EXCEPT ![e] = @ \union {x}]
        /\ x.verdict # "success" => x.statement = None
        /\ \/ x.verdict # "success" /\ (processed' = processed
                \/ processed' = [processed EXCEPT ![b] = @ \union {q.pair}])
           \/ /\ x.verdict = "success" /\ x.statement = Signed(b, q)
              /\ RightRelease(b, q) /\ Fresh(b, q)
              /\ processed' = [processed EXCEPT ![b] = @ \union {q.pair}]
  <2>1. ASSUME NEW reason \in FailureReason, NEW n \in Nat, NEW r \in {NotProduced, FromWorker(n)},
               Answers(e, Failed(reason, r)),
               processed' = processed \/ processed' = [processed EXCEPT ![b] = @ \union {q.pair}]
        PROVE  \E x \in Reply : Chosen(x)
    <3>1. Failed(reason, r) \in Reply
      BY <1>3, <1>4, ReplyShape
    <3>2. /\ Failed(reason, r).report = r /\ Failed(reason, r).statement = None
          /\ Failed(reason, r).verdict # "success"
      BY DEF Failed, FailureReason
    <3>3. lost' = lost /\ replies' = [replies EXCEPT ![e] = @ \union {Failed(reason, r)}]
      BY <2>1, <3>1, <3>2, Answered
    <3>4. Chosen(Failed(reason, r))
      BY <2>1, <3>2, <3>3
    <3> QED  BY <3>1, <3>4
  <2>2. ASSUME NEW n \in Nat, Answers(e, Success(Signed(b, q), FromWorker(n))),
               RightRelease(b, q), Fresh(b, q),
               processed' = [processed EXCEPT ![b] = @ \union {q.pair}]
        PROVE  \E x \in Reply : Chosen(x)
    <3> DEFINE x == Success(Signed(b, q), FromWorker(n))
    <3>1. x \in Reply
      BY <1>3, <1>5, ReplyShape
    <3>2. x.report = FromWorker(n) /\ x.statement = Signed(b, q) /\ x.verdict = "success"
      BY DEF Success
    <3> HIDE DEF x
    <3>3. lost' = lost /\ replies' = [replies EXCEPT ![e] = @ \union {x}]
      BY <2>2, <3>1, <3>2, Answered DEF x
    <3>4. Chosen(x)
      BY <2>2, <3>2, <3>3
    <3> QED  BY <3>1, <3>4
  <2>3. "unsupported_release" \in FailureReason /\ "replayed" \in FailureReason
        /\ Reason \subseteq FailureReason /\ WorkerReport \subseteq Nat
    BY ClientAssumption DEF FailureReason
  <2>4. CASE /\ ~RightRelease(b, q) /\ Answers(e, Failed("unsupported_release", NotProduced))
             /\ UNCHANGED processed
    BY <1>4, <2>1, <2>3, <2>4
  <2>5. CASE /\ UNCHANGED processed
             /\ \/ \E reason \in Reason : Answers(e, Failed(reason, NotProduced))
                \/ Answers(e, Failed("replayed", NotProduced))
    BY <1>4, <2>1, <2>3, <2>5
  <2>6. ASSUME RightRelease(b, q), Fresh(b, q), NEW n \in WorkerReport,
               processed' = [processed EXCEPT ![b] = @ \union {q.pair}],
               \/ \E reason \in Reason : Answers(e, Failed(reason, FromWorker(n)))
               \/ Answers(e, Success(Signed(b, q), FromWorker(n)))
        PROVE  \E x \in Reply : Chosen(x)
    BY <2>1, <2>2, <2>3, <2>6
  <2>7. \E x \in Reply : Chosen(x)
    BY <2>4, <2>5, <2>6 DEF Serve
  <2> QED  BY <2>7
<1>7. PICK x \in Reply :
        /\ lost' = lost /\ replies' = [replies EXCEPT ![e] = @ \union {x}]
        /\ x.verdict # "success" => x.statement = None
        /\ \/ x.verdict # "success" /\ (processed' = processed
                \/ processed' = [processed EXCEPT ![b] = @ \union {q.pair}])
           \/ /\ x.verdict = "success" /\ x.statement = Signed(b, q)
              /\ RightRelease(b, q) /\ Fresh(b, q)
              /\ processed' = [processed EXCEPT ![b] = @ \union {q.pair}]
  BY <1>6
<1>8. /\ replies' \in [Exchange -> SUBSET Reply]
      /\ replies'[e] = replies[e] \union {x} /\ \A f \in Exchange \ {e} : replies'[f] = replies[f]
  BY <1>7 DEF TypeOK
<1>9. /\ processed' \in [Genuine -> SUBSET Pair] /\ \A c \in Genuine : processed[c] \subseteq processed'[c]
      /\ x.verdict = "success" => q.pair \in processed'[b]
  <2>1. q.pair \in Pair
    BY <1>1, ClientAssumption DEF RequestShape
  <2>2. processed \in [Genuine -> SUBSET Pair]
    BY DEF TypeOK
  <2> QED  BY <1>7, <2>1, <2>2
<1>10. TypeOK'
  BY <1>2, <1>7, <1>8, <1>9 DEF TypeOK
<1>11. \A c \in Genuine, p \in Request : Processed(c, p) => Processed(c, p)'
  BY <1>2, <1>9 DEF Processed
<1>12. \A f \in Exchange : PhaseOK(f)' /\ ResultOK(f)' /\ \A z \in replies[f] : ServedReply(f, z)'
  BY <1>1, <1>8, <1>11, EnclaveKeeps
<1>13. ServedReply(e, x)'
  BY <1>1, <1>2, <1>7, <1>9 DEF ServedReply, Processed, RightRelease, Signed
<1>14. \A f \in Exchange : \A z \in replies'[f] : ServedReply(f, z)'
  BY <1>8, <1>12, <1>13
<1>15. Unique'
  <2> SUFFICES ASSUME NEW f \in Exchange, NEW g \in Exchange, NEW y \in replies'[f], NEW z \in replies'[g],
                      y.verdict = "success", z.verdict = "success",
                      peer[f].boot = peer[g].boot, asked[f].pair = asked[g].pair
               PROVE  f = g
    BY <1>2 DEF Unique
  <2>1. CASE y \in replies[f] /\ z \in replies[g]
    BY <2>1 DEF Unique
  <2>2. ASSUME NEW h \in Exchange, NEW u \in replies[h], u.verdict = "success", x.verdict = "success",
               peer[h].boot = peer[e].boot, asked[h].pair = asked[e].pair
        PROVE  FALSE
    <3>1. asked[h].pair \in processed[b]
      BY <1>1, <2>2 DEF ServedReply, Processed
    <3>2. asked[e].pair \notin processed[b]
      BY <1>7, <2>2 DEF Fresh
    <3> QED  BY <2>2, <3>1, <3>2
  <2>3. CASE y \notin replies[f]
    <3>1. f = e /\ y = x
      BY <1>8, <2>3
    <3>2. CASE z \in replies[g]
      BY <2>2, <3>1, <3>2
    <3>3. CASE z \notin replies[g]
      BY <1>8, <3>1, <3>3
    <3> QED  BY <3>2, <3>3
  <2>4. CASE z \notin replies[g]
    <3>1. g = e /\ z = x
      BY <1>8, <2>4
    <3>2. CASE y \in replies[f]
      BY <2>2, <3>1, <3>2
    <3>3. CASE y \notin replies[f]
      BY <1>8, <3>1, <3>3
    <3> QED  BY <3>2, <3>3
  <2> QED  BY <2>1, <2>3, <2>4
<1>16. ConfigOK' /\ lost' = {}
  BY <1>2, <1>7 DEF ConfigOK
<1> QED  BY <1>10, <1>12, <1>14, <1>15, <1>16

-----------------------------------------------------------------------------
(* Theorems.                                                                *)

LEMMA Initially == Init => IInv
<1> SUFFICES ASSUME Init  PROVE IInv
  OBVIOUS
<1>1. NotProduced \in Report /\ "idle" \in Phase
  BY DEF NotProduced, Report, Phase
<1>2. TypeOK
  BY <1>1 DEF Init, TypeOK
<1>3. ASSUME NEW e \in Exchange
      PROVE  PhaseOK(e) /\ ResultOK(e) /\ \A x \in replies[e] : ServedReply(e, x)
  BY <1>3 DEF Init, PhaseOK, ResultOK, FailureReason, Matching, Waiting, Connecting
<1>4. ConfigOK /\ Unique /\ lost = {}
  BY DEF Init, ConfigOK, Unique
<1> QED  BY <1>2, <1>3, <1>4 DEF IInv

LEMMA StutterStep == IInv /\ UNCHANGED vars => IInv'
<1> SUFFICES ASSUME IInv, UNCHANGED vars  PROVE IInv'
  OBVIOUS
<1>1. UNCHANGED <<config, client, pc, left, spent, peer, asked, outcome, token, report,
                  release, processed, replies, lost>>
  BY DEF vars, configVars, sessionVars, phaseVars, resultVars, enclaveVars
<1> QED  BY <1>1 DEF IInv, TypeOK, ConfigOK, PhaseOK, Peered, Admitted, Allowed, ResultOK, Accepted,
                     Processed, Said, ServedReply, Unique

LEMMA StepKeeps ==
  ASSUME IInv, NEW e \in Exchange, Step(e)
  PROVE  IInv'
<1>1. CASE Connect(e) \/ Upgraded(e) \/ Sent(e)
  BY <1>1, ConnectingStep
<1>2. CASE Assigned(e)
  BY <1>2, AssignedStep
<1>3. CASE \E q \in Request : RequestMatch(e, q)
  BY <1>3, RequestStep
<1>4. CASE ReplyRead(e)
  BY <1>4, ReplyStep
<1>5. CASE ForeignReplyRead(e)
  BY <1>5, ForeignStep
<1>6. CASE ErrorEnvelope(e) \/ TransportFails(e) \/ PeerCloses(e) \/ Unexpected(e) \/ BadBinary(e)
  BY <1>6, FrameStep
<1>7. CASE Ignored(e)
  BY <1>7, StutterStep DEF Ignored
<1>8. CASE Closed(e) \/ Abandon(e)
  BY <1>8, EndStep
<1>9. CASE Expire(e)
  BY <1>9, ExpireStep
<1> QED  BY <1>1, <1>2, <1>3, <1>4, <1>5, <1>6, <1>7, <1>8, <1>9 DEF Step

(* The inductive invariant of the client and of the enclaves it talks to.   *)
THEOREM Invariance == Spec => []IInv
<1>1. IInv /\ [Next]_vars => IInv'
  <2> SUFFICES ASSUME IInv, [Next]_vars  PROVE IInv'
    OBVIOUS
  <2>1. CASE Configure
    BY <2>1, ConfigStep
  <2>2. CASE Tick
    BY <2>2, TickStep
  <2>3. ASSUME NEW e \in Exchange, Step(e)  PROVE IInv'
    BY <2>3, StepKeeps
  <2>4. ASSUME NEW b \in Genuine, Enclave(b)  PROVE IInv'
    <3>1. CASE \E r \in Release : LoadRelease(b, r)
      BY <3>1, LoadStep
    <3>2. CASE \E e \in Exchange : Serve(b, e)
      BY <3>2, ServeStep
    <3> QED  BY <2>4, <3>1, <3>2 DEF Enclave
  <2>5. CASE UNCHANGED vars
    BY <2>5, StutterStep
  <2> QED  BY <2>1, <2>2, <2>3, <2>4, <2>5 DEF Next
<1> QED  BY Initially, <1>1, PTL DEF Spec

(* Configurations, exchanges and replies keep their types.                  *)
THEOREM TypeCorrect == Spec => []TypeOK
<1>1. IInv => TypeOK
  BY DEF IInv
<1> QED  BY <1>1, Invariance, PTL

(* An accepted statement is about the caller's request and signed with a    *)
(* key that an enclave of the policy attests (client.rs 57-103).            *)
THEOREM AcceptedAttested == Spec => []AcceptedIsAttested
<1>1. IInv => AcceptedIsAttested
  BY DEF IInv, ResultOK, Accepted, AcceptedIsAttested
<1> QED  BY <1>1, Invariance, PTL

(* An enclave of this code that is said to have signed has processed the    *)
(* request; with a policy of such enclaves, every signer is one.            *)
THEOREM AcceptedServed == Spec => []AcceptedWasServed
<1>1. IInv => AcceptedWasServed
  <2> SUFFICES ASSUME IInv, NEW e \in Exchange, outcome[e] = "success"
               PROVE  /\ (\A b \in Boot : Trusts(config, Pcr[b]) => b \in Genuine) => token[e].signer \in Genuine
                      /\ token[e].signer \in Genuine =>
                           /\ asked[e].pair \in processed[token[e].signer]
                           /\ asked[e].release = release[token[e].signer]
    BY DEF AcceptedWasServed
  <2>1. Accepted(e, token[e])
    BY DEF IInv, ResultOK
  <2>2. token[e].signer \in Boot
    BY <2>1 DEF Accepted, Statement
  <2> QED  BY <2>1, <2>2 DEF Accepted, Processed
<1> QED  BY <1>1, Invariance, PTL

(* However often requests are submitted, one statement of a boot for a pair *)
(* is accepted.                                                             *)
THEOREM OneResult == Spec => []OneResultPerPair
<1>1. IInv => OneResultPerPair
  <2> SUFFICES ASSUME IInv, NEW e \in Exchange, NEW f \in Exchange, e # f,
                      outcome[e] = "success", outcome[f] = "success",
                      peer[e].boot = peer[f].boot, peer[e].boot \in Genuine
               PROVE  asked[e].pair # asked[f].pair
    BY DEF OneResultPerPair
  <2>1. Said(e, "success", token[e], report[e]) /\ Said(f, "success", token[f], report[f])
    BY DEF IInv, ResultOK
  <2> QED  BY <2>1 DEF IInv, Said, Unique
<1> QED  BY <1>1, Invariance, PTL

(* Requests are sealed only to a key whose enclave has three nonzero        *)
(* measurements in common with the policy (session.rs 204-216).             *)
THEOREM SealedVerified == Spec => []SealedToVerified
<1>1. IInv => SealedToVerified
  <2> SUFFICES ASSUME IInv, NEW e \in Exchange, asked[e] # None
               PROVE  /\ \/ config.dangerously_skip_measurements
                         \/ \E m \in config.allowed_pcr_configs : Measures(m, peer[e].boot)
                      /\ asked[e].valid /\ asked[e].release \in peer[e].releases
                      /\ ValidAge(config)
    BY DEF SealedToVerified
  <2>1. Admitted(e) /\ VerifierOk(config)
    BY DEF IInv, PhaseOK, ConfigOK, Early
  <2>2. ASSUME ~config.dangerously_skip_measurements
        PROVE  \E m \in config.allowed_pcr_configs : Measures(m, peer[e].boot)
    <3>1. PICK m \in config.allowed_pcr_configs :
            \A k \in DOMAIN m : Pcr[peer[e].boot][m[k].index] = m[k].value
      BY <2>1, <2>2 DEF Admitted, Peered, Trusts
    <3>2. \A index \in 0..2 : \E k \in DOMAIN m : m[k].index = index /\ m[k].value # "zero"
      BY <2>1, <2>2, <3>1 DEF VerifierOk, WellFormed, Pinned
    <3> QED  BY <3>1, <3>2 DEF Measures
  <2> QED  BY <2>1, <2>2 DEF Admitted, VerifierOk
<1> QED  BY <1>1, Invariance, PTL

(* No phase outlasts its timeout (session.rs 176-192, 219-237).             *)
THEOREM PhasesBounded == Spec => []PhaseBounded
<1>1. IInv => PhaseBounded
  <2> SUFFICES ASSUME IInv, NEW e \in Exchange, pc[e] \in Waiting
               PROVE  spent[e] <= Allowed(pc[e])
    BY DEF PhaseBounded
  <2>1. left[e] \in Nat /\ spent[e] \in Nat /\ left[e] + spent[e] = Allowed(pc[e])
    BY DEF IInv, TypeOK, PhaseOK
  <2> QED  BY <2>1
<1> QED  BY <1>1, Invariance, PTL

(* Verdict and report reach the caller as the enclave gave them, but for a  *)
(* report that does not fit.                                                *)
THEOREM RepliesFaithful == Spec => []ReplyFaithful
<1>1. IInv => ReplyFaithful
  <2> SUFFICES ASSUME IInv, NEW e \in Exchange,
                      outcome[e] \in FailureReason \union {"success"}, peer[e].boot \in Genuine
               PROVE  Said(e, outcome[e], token[e], report[e])
    BY DEF ReplyFaithful, Said
  <2> QED  BY DEF IInv, ResultOK
<1> QED  BY <1>1, Invariance, PTL

(* Every verdict fits its envelope, whatever the worker reports.            *)
THEOREM NoneLost == Spec => []NoVerdictLost
<1>1. IInv => NoVerdictLost
  BY DEF IInv, NoVerdictLost
<1> QED  BY <1>1, Invariance, PTL

=============================================================================
