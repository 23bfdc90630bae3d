------------------------- MODULE HostSessionProofs -------------------------
(***************************************************************************)
(* Theorems of HostSession, for every set of sessions and pairs and every  *)
(* configuration of the host.                                              *)
(***************************************************************************)
EXTENDS HostSession, FiniteSetTheorems, TLAPS

-----------------------------------------------------------------------------
(* The inductive invariant.                                                 *)

\* Time that the phases before ph can have taken.
Spent(ph) ==
  CASE ph \in {"none", "request"} -> 0
    [] ph = "attest" -> Idle
    [] ph = "assign" -> Idle + Control
    [] ph = "match" -> 2 * Idle + Control
    [] ph = "slots" -> 3 * Idle + Control
    [] ph = "run" -> 3 * Idle + 2 * Control
    [] ph = "reply" -> 3 * Idle + 2 * Control + LastSlot + Margin
    [] OTHER -> 4 * Idle + 2 * Control + LastSlot + Margin

\* A session took no longer than its phases allow.
OnTime(s) ==
  /\ phase[s] = "none" => held[s] = 0
  /\ phase[s] # "none" => clock[s] <= Allowed(phase[s]) /\ held[s] <= Spent(phase[s]) + clock[s]

Clean == {"at_capacity", "idle_timeout", "enclave_not_ready", "reassign_required"}

\* A match call belongs to the session that sent it, and has its frame.
CallOK(s) ==
  /\ phase[s] \in {"request", "attest", "assign", "match", "slots", "reply"} => call[s] = "none"
  /\ phase[s] \in {"slots", "run"} => frame[s] \in Frame
  /\ key[s] <= boot
  /\ call[s] # "none" => frame[s] \in Frame
  /\ call[s] \in {"sent", "queued", "inferring"} => up
  /\ call[s] \in {"queued", "inferring"} => frame[s].to = boot
  /\ call[s] = "answered" => ans[s] # "none"

\* Where the result came from, on its way to the peer.
ResultOK(s) ==
  /\ phase[s] = "run" /\ call[s] = "answered" /\ ans[s] = "result" =>
       by[s] = frame[s].to /\ by[s] >= key[s]
  /\ phase[s] = "reply" => by[s] = frame[s].to /\ by[s] >= key[s]
  /\ told[s] = "result" =>
       phase[s] = "close" /\ by[s] = frame[s].to /\ by[s] >= key[s] /\ call[s] = "none"

\* Nothing is reserved before the call, nor after one of the clean errors.
KeptOK(s) ==
  /\ phase[s] \in {"request", "attest", "assign", "match", "slots"} => ~kept[s]
  /\ call[s] = "sent" => ~kept[s]
  /\ call[s] = "answered" /\ ans[s] \in Clean => ~kept[s]
  /\ err[s] \in Clean => call[s] = "none" /\ ~kept[s] /\ phase[s] \in {"report", "close"}
  /\ told[s] \in Clean => call[s] = "none" /\ ~kept[s] /\ phase[s] \in {"none", "close"}

IInv ==
  /\ TypeOK
  /\ PermitsConserved
  /\ \A s \in Session : OnTime(s) /\ CallOK(s) /\ ResultOK(s) /\ KeptOK(s)

\* What a step can do to the permits.
PermitsMove ==
  \/ permits' = permits /\ Live' = Live
  \/ \E s \in Session \ Live : permits' = permits - 1 /\ Live' = Live \union {s}
  \/ \E s \in Live : permits' = permits + 1 /\ Live' = Live \ {s}

-----------------------------------------------------------------------------
(* Steps.                                                                   *)

(* Every step keeps the types.                                              *)
LEMMA TypeStep ==
  ASSUME TypeOK, [Next]_vars
  PROVE  TypeOK'
<1> USE SessionAssumption DEF Waits, Retryable, Final, Answer, TypeOK, enclaveVars, sessionVars, callVars
<1>1. ASSUME NEW s \in Session, HostStep(s) PROVE TypeOK'
  <2>1. CASE Accept(s)
    BY <2>1 DEF Accept, Go
  <2>2. CASE Refuse(s)
    BY <2>2 DEF Refuse
  <2>3. CASE AssignmentRequest(s)
    BY <2>3 DEF AssignmentRequest, Go, In
  <2>4. CASE BadFrame(s)
    BY <2>4 DEF BadFrame, Fail, Go, In
  <2>5. CASE PeerCloses(s)
    BY <2>5 DEF PeerCloses, Leave, Go, In
  <2>6. CASE Attested(s)
    BY <2>6 DEF Attested, Go, In
  <2>7. CASE AssignmentSent(s)
    BY <2>7 DEF AssignmentSent, Go, In
  <2>8. CASE MatchFrame(s)
    BY <2>8 DEF MatchFrame, Go, In, Frame
  <2>9. CASE SlotsKnown(s)
    BY <2>9 DEF SlotsKnown, Go, Fail, In
  <2>10. CASE Unreachable(s)
    BY <2>10 DEF Unreachable, Fail, Go, In
  <2>11. CASE Answered(s)
    BY <2>11 DEF Answered, EndCall, Go, Fail, In
  <2>12. CASE ResultSent(s)
    BY <2>12 DEF ResultSent, Leave, Go, In
  <2>13. CASE SendFails(s)
    BY <2>13 DEF SendFails, Fail, Go, In
  <2>14. CASE \E heard \in BOOLEAN : Report(s, heard)
    BY <2>14 DEF Report, In
  <2>15. CASE Close(s)
    BY <2>15 DEF Close, Forget, Go
  <2>16. CASE Expire(s)
    <3>0. phase[s] # "none" /\ clock[s] >= Allowed(phase[s])
      BY <2>16 DEF Expire
    <3>1. CASE TimesOut(s, "idle_timeout", {"request", "match"})
      BY <3>0, <3>1 DEF TimesOut, Fail, Go, In
    <3>2. CASE TimesOut(s, "enclave_timeout", {"attest", "slots", "run"})
      BY <3>0, <3>2 DEF TimesOut, Fail, Go, In
    <3>3. CASE TimesOut(s, "client_disconnected", {"assign", "reply"})
      BY <3>0, <3>3 DEF TimesOut, Fail, Go, In
    <3>4. CASE Report(s, FALSE)
      BY <3>0, <3>4 DEF Report, In
    <3>5. CASE Close(s)
      BY <3>0, <3>5 DEF Close, Forget, Go
    <3> QED  BY <2>16, <3>1, <3>2, <3>3, <3>4, <3>5 DEF Expire
  <2> QED  BY <1>1, <2>1, <2>2, <2>3, <2>4, <2>5, <2>6, <2>7, <2>8, <2>9, <2>10, <2>11, <2>12, <2>13, <2>14, <2>15, <2>16 DEF HostStep
<1>2. ASSUME NEW s \in Session, EnclaveStep(s) PROVE TypeOK'
  <2>1. CASE Refused(s)
    BY <2>1 DEF Refused, AtEnclave, Reply
  <2>2. CASE NotOpened(s)
    BY <2>2 DEF NotOpened, AtEnclave, Reply
  <2>3. CASE Rejected(s)
    BY <2>3 DEF Rejected, AtEnclave, Reply, Opens
  <2>4. CASE Reserved(s)
    BY <2>4 DEF Reserved, AtEnclave, Opens, Replay!Accept, Replay!Move
  <2>5. CASE Busy(s)
    <3>1. call[s] = "queued" /\ up /\ UNCHANGED <<up, loaded, boot, permits, sessionVars, held, told, frame>>
      BY <2>5 DEF Busy, AtEnclave
    <3>2. status' \in [Pair -> {"fresh", "reserved", "ran"}]
      BY <2>5 DEF Busy, Replay!Withdraw, Replay!Move
    <3>3. call' = [call EXCEPT ![s] = "answered"] /\ ans' = [ans EXCEPT ![s] = "enclave_not_ready"]
          /\ by' = [by EXCEPT ![s] = boot] /\ kept' = [kept EXCEPT ![s] = FALSE]
      BY <2>5 DEF Busy, Reply
    <3> QED  BY <3>1, <3>2, <3>3
  <2>6. CASE Inferring(s)
    BY <2>6 DEF Inferring, AtEnclave, Replay!Infer, Replay!Move
  <2>7. CASE Done(s)
    BY <2>7 DEF Done, AtEnclave, Reply
  <2>8. CASE Dropped(s)
    BY <2>8 DEF Dropped, EndCall
  <2>9. CASE Abandoned(s)
    BY <2>9 DEF Abandoned, AtEnclave, Opens, EndCall, Replay!Accept, Replay!Move
  <2> QED  BY <1>2, <2>1, <2>2, <2>3, <2>4, <2>5, <2>6, <2>7, <2>8, <2>9 DEF EnclaveStep
<1>3. CASE Exit
  BY <1>3 DEF Exit, Replay!NewKey
<1>4. CASE Boot
  BY <1>4 DEF Boot
<1>5. CASE LoadRelease
  BY <1>5 DEF LoadRelease
<1>6. CASE Tick
  BY <1>6 DEF Tick
<1>7. CASE UNCHANGED vars
  BY <1>7 DEF vars
<1> QED  BY <1>1, <1>2, <1>3, <1>4, <1>5, <1>6, <1>7 DEF Next

(* Every phase ends within its deadline, so the times add up.               *)
LEMMA TimeStep ==
  ASSUME TypeOK, \A r \in Session : OnTime(r), [Next]_vars
  PROVE  \A r \in Session : OnTime(r)'
<1> USE SessionAssumption DEF Waits, TypeOK, OnTime, Allowed, Spent, enclaveVars, sessionVars, callVars
<1>1. ASSUME NEW s \in Session, HostStep(s) PROVE \A r \in Session : OnTime(r)'
  <2>1. CASE Accept(s)
    BY <2>1 DEF Accept, Go
  <2>2. CASE Refuse(s)
    BY <2>2 DEF Refuse
  <2>3. CASE AssignmentRequest(s)
    BY <2>3 DEF AssignmentRequest, Go, In
  <2>4. CASE BadFrame(s)
    BY <2>4 DEF BadFrame, Fail, Go, In
  <2>5. CASE PeerCloses(s)
    BY <2>5 DEF PeerCloses, Leave, Go, In
  <2>6. CASE Attested(s)
    BY <2>6 DEF Attested, Go, In
  <2>7. CASE AssignmentSent(s)
    BY <2>7 DEF AssignmentSent, Go, In
  <2>8. CASE MatchFrame(s)
    BY <2>8 DEF MatchFrame, Go, In, Frame
  <2>9. CASE SlotsKnown(s)
    BY <2>9 DEF SlotsKnown, Go, Fail, In
  <2>10. CASE Unreachable(s)
    BY <2>10 DEF Unreachable, Fail, Go, In
  <2>11. CASE Answered(s)
    BY <2>11 DEF Answered, EndCall, Go, Fail, In
  <2>12. CASE ResultSent(s)
    BY <2>12 DEF ResultSent, Leave, Go, In
  <2>13. CASE SendFails(s)
    BY <2>13 DEF SendFails, Fail, Go, In
  <2>14. CASE \E heard \in BOOLEAN : Report(s, heard)
    BY <2>14 DEF Report, In
  <2>15. CASE Close(s)
    BY <2>15 DEF Close, Forget, Go
  <2>16. CASE Expire(s)
    <3>0. phase[s] # "none" /\ clock[s] >= Allowed(phase[s])
      BY <2>16 DEF Expire
    <3>1. CASE TimesOut(s, "idle_timeout", {"request", "match"})
      BY <3>0, <3>1 DEF TimesOut, Fail, Go, In
    <3>2. CASE TimesOut(s, "enclave_timeout", {"attest", "slots", "run"})
      BY <3>0, <3>2 DEF TimesOut, Fail, Go, In
    <3>3. CASE TimesOut(s, "client_disconnected", {"assign", "reply"})
      BY <3>0, <3>3 DEF TimesOut, Fail, Go, In
    <3>4. CASE Report(s, FALSE)
      BY <3>0, <3>4 DEF Report, In
    <3>5. CASE Close(s)
      BY <3>0, <3>5 DEF Close, Forget, Go
    <3> QED  BY <2>16, <3>1, <3>2, <3>3, <3>4, <3>5 DEF Expire
  <2> QED  BY <1>1, <2>1, <2>2, <2>3, <2>4, <2>5, <2>6, <2>7, <2>8, <2>9, <2>10, <2>11, <2>12, <2>13, <2>14, <2>15, <2>16 DEF HostStep
<1>2. ASSUME NEW s \in Session, EnclaveStep(s) PROVE \A r \in Session : OnTime(r)'
  <2>1. CASE Refused(s)
    BY <2>1 DEF Refused, AtEnclave, Reply
  <2>2. CASE NotOpened(s)
    BY <2>2 DEF NotOpened, AtEnclave, Reply
  <2>3. CASE Rejected(s)
    BY <2>3 DEF Rejected, AtEnclave, Reply, Opens
  <2>4. CASE Reserved(s)
    BY <2>4 DEF Reserved, AtEnclave, Opens, Replay!Accept, Replay!Move
  <2>5. CASE Busy(s)
    BY <2>5 DEF Busy, AtEnclave, Reply, Replay!Withdraw, Replay!Move
  <2>6. CASE Inferring(s)
    BY <2>6 DEF Inferring, AtEnclave, Replay!Infer, Replay!Move
  <2>7. CASE Done(s)
    BY <2>7 DEF Done, AtEnclave, Reply
  <2>8. CASE Dropped(s)
    BY <2>8 DEF Dropped, EndCall
  <2>9. CASE Abandoned(s)
    BY <2>9 DEF Abandoned, AtEnclave, Opens, EndCall, Replay!Accept, Replay!Move
  <2> QED  BY <1>2, <2>1, <2>2, <2>3, <2>4, <2>5, <2>6, <2>7, <2>8, <2>9 DEF EnclaveStep
<1>3. CASE Exit
  BY <1>3 DEF Exit, Replay!NewKey
<1>4. CASE Boot
  BY <1>4 DEF Boot
<1>5. CASE LoadRelease
  BY <1>5 DEF LoadRelease
<1>6. CASE Tick
  BY <1>6 DEF Tick
<1>7. CASE UNCHANGED vars
  BY <1>7 DEF vars
<1> QED  BY <1>1, <1>2, <1>3, <1>4, <1>5, <1>6, <1>7 DEF Next

(* A step keeps the live sessions and the permits, or moves one of each.    *)
LEMMA PermitStep ==
  ASSUME TypeOK, [Next]_vars
  PROVE  PermitsMove
<1> USE SessionAssumption DEF Waits, TypeOK, Live, PermitsMove, enclaveVars, sessionVars, callVars
<1>1. ASSUME NEW s \in Session, HostStep(s) PROVE PermitsMove
  <2>1. CASE Accept(s)
    BY <2>1 DEF Accept, Go
  <2>2. CASE Refuse(s)
    BY <2>2 DEF Refuse
  <2>3. CASE AssignmentRequest(s)
    BY <2>3 DEF AssignmentRequest, Go, In
  <2>4. CASE BadFrame(s)
    BY <2>4 DEF BadFrame, Fail, Go, In
  <2>5. CASE PeerCloses(s)
    BY <2>5 DEF PeerCloses, Leave, Go, In
  <2>6. CASE Attested(s)
    BY <2>6 DEF Attested, Go, In
  <2>7. CASE AssignmentSent(s)
    BY <2>7 DEF AssignmentSent, Go, In
  <2>8. CASE MatchFrame(s)
    BY <2>8 DEF MatchFrame, Go, In, Frame
  <2>9. CASE SlotsKnown(s)
    BY <2>9 DEF SlotsKnown, Go, Fail, In
  <2>10. CASE Unreachable(s)
    BY <2>10 DEF Unreachable, Fail, Go, In
  <2>11. CASE Answered(s)
    BY <2>11 DEF Answered, EndCall, Go, Fail, In
  <2>12. CASE ResultSent(s)
    BY <2>12 DEF ResultSent, Leave, Go, In
  <2>13. CASE SendFails(s)
    BY <2>13 DEF SendFails, Fail, Go, In
  <2>14. CASE \E heard \in BOOLEAN : Report(s, heard)
    BY <2>14 DEF Report, In
  <2>15. CASE Close(s)
    BY <2>15 DEF Close, Forget, Go
  <2>16. CASE Expire(s)
    <3>0. phase[s] # "none" /\ clock[s] >= Allowed(phase[s])
      BY <2>16 DEF Expire
    <3>1. CASE TimesOut(s, "idle_timeout", {"request", "match"})
      BY <3>0, <3>1 DEF TimesOut, Fail, Go, In
    <3>2. CASE TimesOut(s, "enclave_timeout", {"attest", "slots", "run"})
      BY <3>0, <3>2 DEF TimesOut, Fail, Go, In
    <3>3. CASE TimesOut(s, "client_disconnected", {"assign", "reply"})
      BY <3>0, <3>3 DEF TimesOut, Fail, Go, In
    <3>4. CASE Report(s, FALSE)
      BY <3>0, <3>4 DEF Report, In
    <3>5. CASE Close(s)
      BY <3>0, <3>5 DEF Close, Forget, Go
    <3> QED  BY <2>16, <3>1, <3>2, <3>3, <3>4, <3>5 DEF Expire
  <2> QED  BY <1>1, <2>1, <2>2, <2>3, <2>4, <2>5, <2>6, <2>7, <2>8, <2>9, <2>10, <2>11, <2>12, <2>13, <2>14, <2>15, <2>16 DEF HostStep
<1>2. ASSUME NEW s \in Session, EnclaveStep(s) PROVE PermitsMove
  <2>1. CASE Refused(s)
    BY <2>1 DEF Refused, AtEnclave, Reply
  <2>2. CASE NotOpened(s)
    BY <2>2 DEF NotOpened, AtEnclave, Reply
  <2>3. CASE Rejected(s)
    BY <2>3 DEF Rejected, AtEnclave, Reply, Opens
  <2>4. CASE Reserved(s)
    BY <2>4 DEF Reserved, AtEnclave, Opens, Replay!Accept, Replay!Move
  <2>5. CASE Busy(s)
    BY <2>5 DEF Busy, AtEnclave, Reply, Replay!Withdraw, Replay!Move
  <2>6. CASE Inferring(s)
    BY <2>6 DEF Inferring, AtEnclave, Replay!Infer, Replay!Move
  <2>7. CASE Done(s)
    BY <2>7 DEF Done, AtEnclave, Reply
  <2>8. CASE Dropped(s)
    BY <2>8 DEF Dropped, EndCall
  <2>9. CASE Abandoned(s)
    BY <2>9 DEF Abandoned, AtEnclave, Opens, EndCall, Replay!Accept, Replay!Move
  <2> QED  BY <1>2, <2>1, <2>2, <2>3, <2>4, <2>5, <2>6, <2>7, <2>8, <2>9 DEF EnclaveStep
<1>3. CASE Exit
  BY <1>3 DEF Exit, Replay!NewKey
<1>4. CASE Boot
  BY <1>4 DEF Boot
<1>5. CASE LoadRelease
  BY <1>5 DEF LoadRelease
<1>6. CASE Tick
  BY <1>6 DEF Tick
<1>7. CASE UNCHANGED vars
  BY <1>7 DEF vars
<1> QED  BY <1>1, <1>2, <1>3, <1>4, <1>5, <1>6, <1>7 DEF Next

(* A call stays with its session, and so does the origin of its answer.     *)
LEMMA CallStep ==
  ASSUME TypeOK, \A r \in Session : CallOK(r) /\ ResultOK(r) /\ KeptOK(r), [Next]_vars
  PROVE  \A r \in Session : CallOK(r)'
<1> USE SessionAssumption DEF Waits, TypeOK, CallOK, Frame, enclaveVars, sessionVars, callVars
<1>1. ASSUME NEW s \in Session, HostStep(s) PROVE \A r \in Session : CallOK(r)'
  <2>1. CASE Accept(s)
    BY <2>1 DEF Accept, Go
  <2>2. CASE Refuse(s)
    BY <2>2 DEF Refuse
  <2>3. CASE AssignmentRequest(s)
    BY <2>3 DEF AssignmentRequest, Go, In
  <2>4. CASE BadFrame(s)
    BY <2>4 DEF BadFrame, Fail, Go, In
  <2>5. CASE PeerCloses(s)
    BY <2>5 DEF PeerCloses, Leave, Go, In
  <2>6. CASE Attested(s)
    BY <2>6 DEF Attested, Go, In
  <2>7. CASE AssignmentSent(s)
    BY <2>7 DEF AssignmentSent, Go, In
  <2>8. CASE MatchFrame(s)
    BY <2>8 DEF MatchFrame, Go, In, Frame
  <2>9. CASE SlotsKnown(s)
    BY <2>9 DEF SlotsKnown, Go, Fail, In
  <2>10. CASE Unreachable(s)
    BY <2>10 DEF Unreachable, Fail, Go, In
  <2>11. CASE Answered(s)
    BY <2>11 DEF Answered, EndCall, Go, Fail, In
  <2>12. CASE ResultSent(s)
    BY <2>12 DEF ResultSent, Leave, Go, In
  <2>13. CASE SendFails(s)
    BY <2>13 DEF SendFails, Fail, Go, In
  <2>14. CASE \E heard \in BOOLEAN : Report(s, heard)
    BY <2>14 DEF Report, In
  <2>15. CASE Close(s)
    BY <2>15 DEF Close, Forget, Go
  <2>16. CASE Expire(s)
    <3>0. phase[s] # "none" /\ clock[s] >= Allowed(phase[s])
      BY <2>16 DEF Expire
    <3>1. CASE TimesOut(s, "idle_timeout", {"request", "match"})
      BY <3>0, <3>1 DEF TimesOut, Fail, Go, In
    <3>2. CASE TimesOut(s, "enclave_timeout", {"attest", "slots", "run"})
      BY <3>0, <3>2 DEF TimesOut, Fail, Go, In
    <3>3. CASE TimesOut(s, "client_disconnected", {"assign", "reply"})
      BY <3>0, <3>3 DEF TimesOut, Fail, Go, In
    <3>4. CASE Report(s, FALSE)
      BY <3>0, <3>4 DEF Report, In
    <3>5. CASE Close(s)
      BY <3>0, <3>5 DEF Close, Forget, Go
    <3> QED  BY <2>16, <3>1, <3>2, <3>3, <3>4, <3>5 DEF Expire
  <2> QED  BY <1>1, <2>1, <2>2, <2>3, <2>4, <2>5, <2>6, <2>7, <2>8, <2>9, <2>10, <2>11, <2>12, <2>13, <2>14, <2>15, <2>16 DEF HostStep
<1>2. ASSUME NEW s \in Session, EnclaveStep(s) PROVE \A r \in Session : CallOK(r)'
  <2>1. CASE Refused(s)
    BY <2>1 DEF Refused, AtEnclave, Reply
  <2>2. CASE NotOpened(s)
    BY <2>2 DEF NotOpened, AtEnclave, Reply
  <2>3. CASE Rejected(s)
    BY <2>3 DEF Rejected, AtEnclave, Reply, Opens
  <2>4. CASE Reserved(s)
    BY <2>4 DEF Reserved, AtEnclave, Opens, Replay!Accept, Replay!Move
  <2>5. CASE Busy(s)
    BY <2>5 DEF Busy, AtEnclave, Reply, Replay!Withdraw, Replay!Move
  <2>6. CASE Inferring(s)
    BY <2>6 DEF Inferring, AtEnclave, Replay!Infer, Replay!Move
  <2>7. CASE Done(s)
    BY <2>7 DEF Done, AtEnclave, Reply
  <2>8. CASE Dropped(s)
    BY <2>8 DEF Dropped, EndCall
  <2>9. CASE Abandoned(s)
    BY <2>9 DEF Abandoned, AtEnclave, Opens, EndCall, Replay!Accept, Replay!Move
  <2> QED  BY <1>2, <2>1, <2>2, <2>3, <2>4, <2>5, <2>6, <2>7, <2>8, <2>9 DEF EnclaveStep
<1>3. CASE Exit
  BY <1>3 DEF Exit, Replay!NewKey
<1>4. CASE Boot
  BY <1>4 DEF Boot
<1>5. CASE LoadRelease
  BY <1>5 DEF LoadRelease
<1>6. CASE Tick
  BY <1>6 DEF Tick
<1>7. CASE UNCHANGED vars
  BY <1>7 DEF vars
<1> QED  BY <1>1, <1>2, <1>3, <1>4, <1>5, <1>6, <1>7 DEF Next

(* A result keeps its origin on the way to the peer.                        *)
LEMMA ResultStep ==
  ASSUME TypeOK, \A r \in Session : CallOK(r) /\ ResultOK(r), [Next]_vars
  PROVE  \A r \in Session : ResultOK(r)'
<1> USE SessionAssumption DEF Waits, TypeOK, CallOK, ResultOK, Frame, Retryable, Final, enclaveVars, sessionVars, callVars
<1>1. ASSUME NEW s \in Session, HostStep(s) PROVE \A r \in Session : ResultOK(r)'
  <2>1. CASE Accept(s)
    BY <2>1 DEF Accept, Go
  <2>2. CASE Refuse(s)
    BY <2>2 DEF Refuse
  <2>3. CASE AssignmentRequest(s)
    BY <2>3 DEF AssignmentRequest, Go, In
  <2>4. CASE BadFrame(s)
    BY <2>4 DEF BadFrame, Fail, Go, In
  <2>5. CASE PeerCloses(s)
    BY <2>5 DEF PeerCloses, Leave, Go, In
  <2>6. CASE Attested(s)
    BY <2>6 DEF Attested, Go, In
  <2>7. CASE AssignmentSent(s)
    BY <2>7 DEF AssignmentSent, Go, In
  <2>8. CASE MatchFrame(s)
    BY <2>8 DEF MatchFrame, Go, In, Frame
  <2>9. CASE SlotsKnown(s)
    BY <2>9 DEF SlotsKnown, Go, Fail, In
  <2>10. CASE Unreachable(s)
    BY <2>10 DEF Unreachable, Fail, Go, In
  <2>11. CASE Answered(s)
    BY <2>11 DEF Answered, EndCall, Go, Fail, In
  <2>12. CASE ResultSent(s)
    BY <2>12 DEF ResultSent, Leave, Go, In
  <2>13. CASE SendFails(s)
    BY <2>13 DEF SendFails, Fail, Go, In
  <2>14. CASE \E heard \in BOOLEAN : Report(s, heard)
    BY <2>14 DEF Report, In
  <2>15. CASE Close(s)
    BY <2>15 DEF Close, Forget, Go
  <2>16. CASE Expire(s)
    <3>0. phase[s] # "none" /\ clock[s] >= Allowed(phase[s])
      BY <2>16 DEF Expire
    <3>1. CASE TimesOut(s, "idle_timeout", {"request", "match"})
      BY <3>0, <3>1 DEF TimesOut, Fail, Go, In
    <3>2. CASE TimesOut(s, "enclave_timeout", {"attest", "slots", "run"})
      BY <3>0, <3>2 DEF TimesOut, Fail, Go, In
    <3>3. CASE TimesOut(s, "client_disconnected", {"assign", "reply"})
      BY <3>0, <3>3 DEF TimesOut, Fail, Go, In
    <3>4. CASE Report(s, FALSE)
      BY <3>0, <3>4 DEF Report, In
    <3>5. CASE Close(s)
      BY <3>0, <3>5 DEF Close, Forget, Go
    <3> QED  BY <2>16, <3>1, <3>2, <3>3, <3>4, <3>5 DEF Expire
  <2> QED  BY <1>1, <2>1, <2>2, <2>3, <2>4, <2>5, <2>6, <2>7, <2>8, <2>9, <2>10, <2>11, <2>12, <2>13, <2>14, <2>15, <2>16 DEF HostStep
<1>2. ASSUME NEW s \in Session, EnclaveStep(s) PROVE \A r \in Session : ResultOK(r)'
  <2>1. CASE Refused(s)
    BY <2>1 DEF Refused, AtEnclave, Reply
  <2>2. CASE NotOpened(s)
    BY <2>2 DEF NotOpened, AtEnclave, Reply
  <2>3. CASE Rejected(s)
    BY <2>3 DEF Rejected, AtEnclave, Reply, Opens
  <2>4. CASE Reserved(s)
    BY <2>4 DEF Reserved, AtEnclave, Opens, Replay!Accept, Replay!Move
  <2>5. CASE Busy(s)
    BY <2>5 DEF Busy, AtEnclave, Reply, Replay!Withdraw, Replay!Move
  <2>6. CASE Inferring(s)
    BY <2>6 DEF Inferring, AtEnclave, Replay!Infer, Replay!Move
  <2>7. CASE Done(s)
    BY <2>7 DEF Done, AtEnclave, Reply
  <2>8. CASE Dropped(s)
    BY <2>8 DEF Dropped, EndCall
  <2>9. CASE Abandoned(s)
    BY <2>9 DEF Abandoned, AtEnclave, Opens, EndCall, Replay!Accept, Replay!Move
  <2> QED  BY <1>2, <2>1, <2>2, <2>3, <2>4, <2>5, <2>6, <2>7, <2>8, <2>9 DEF EnclaveStep
<1>3. CASE Exit
  BY <1>3 DEF Exit, Replay!NewKey
<1>4. CASE Boot
  BY <1>4 DEF Boot
<1>5. CASE LoadRelease
  BY <1>5 DEF LoadRelease
<1>6. CASE Tick
  BY <1>6 DEF Tick
<1>7. CASE UNCHANGED vars
  BY <1>7 DEF vars
<1> QED  BY <1>1, <1>2, <1>3, <1>4, <1>5, <1>6, <1>7 DEF Next

(* The clean errors leave nothing behind in the enclave.                    *)
LEMMA KeptStep ==
  ASSUME TypeOK, \A r \in Session : CallOK(r) /\ KeptOK(r), [Next]_vars
  PROVE  \A r \in Session : KeptOK(r)'
<1> USE SessionAssumption DEF Waits, TypeOK, CallOK, KeptOK, Clean, Answer, enclaveVars, sessionVars, callVars
<1>1. ASSUME NEW s \in Session, HostStep(s) PROVE \A r \in Session : KeptOK(r)'
  <2>1. CASE Accept(s)
    BY <2>1 DEF Accept, Go
  <2>2. CASE Refuse(s)
    BY <2>2 DEF Refuse
  <2>3. CASE AssignmentRequest(s)
    BY <2>3 DEF AssignmentRequest, Go, In
  <2>4. CASE BadFrame(s)
    BY <2>4 DEF BadFrame, Fail, Go, In
  <2>5. CASE PeerCloses(s)
    BY <2>5 DEF PeerCloses, Leave, Go, In
  <2>6. CASE Attested(s)
    BY <2>6 DEF Attested, Go, In
  <2>7. CASE AssignmentSent(s)
    BY <2>7 DEF AssignmentSent, Go, In
  <2>8. CASE MatchFrame(s)
    BY <2>8 DEF MatchFrame, Go, In, Frame
  <2>9. CASE SlotsKnown(s)
    BY <2>9 DEF SlotsKnown, Go, Fail, In
  <2>10. CASE Unreachable(s)
    BY <2>10 DEF Unreachable, Fail, Go, In
  <2>11. CASE Answered(s)
    BY <2>11 DEF Answered, EndCall, Go, Fail, In
  <2>12. CASE ResultSent(s)
    BY <2>12 DEF ResultSent, Leave, Go, In
  <2>13. CASE SendFails(s)
    BY <2>13 DEF SendFails, Fail, Go, In
  <2>14. CASE \E heard \in BOOLEAN : Report(s, heard)
    BY <2>14 DEF Report, In
  <2>15. CASE Close(s)
    BY <2>15 DEF Close, Forget, Go
  <2>16. CASE Expire(s)
    <3>0. phase[s] # "none" /\ clock[s] >= Allowed(phase[s])
      BY <2>16 DEF Expire
    <3>1. CASE TimesOut(s, "idle_timeout", {"request", "match"})
      BY <3>0, <3>1 DEF TimesOut, Fail, Go, In
    <3>2. CASE TimesOut(s, "enclave_timeout", {"attest", "slots", "run"})
      BY <3>0, <3>2 DEF TimesOut, Fail, Go, In
    <3>3. CASE TimesOut(s, "client_disconnected", {"assign", "reply"})
      BY <3>0, <3>3 DEF TimesOut, Fail, Go, In
    <3>4. CASE Report(s, FALSE)
      BY <3>0, <3>4 DEF Report, In
    <3>5. CASE Close(s)
      BY <3>0, <3>5 DEF Close, Forget, Go
    <3> QED  BY <2>16, <3>1, <3>2, <3>3, <3>4, <3>5 DEF Expire
  <2> QED  BY <1>1, <2>1, <2>2, <2>3, <2>4, <2>5, <2>6, <2>7, <2>8, <2>9, <2>10, <2>11, <2>12, <2>13, <2>14, <2>15, <2>16 DEF HostStep
<1>2. ASSUME NEW s \in Session, EnclaveStep(s) PROVE \A r \in Session : KeptOK(r)'
  <2>1. CASE Refused(s)
    BY <2>1 DEF Refused, AtEnclave, Reply
  <2>2. CASE NotOpened(s)
    BY <2>2 DEF NotOpened, AtEnclave, Reply
  <2>3. CASE Rejected(s)
    BY <2>3 DEF Rejected, AtEnclave, Reply, Opens
  <2>4. CASE Reserved(s)
    BY <2>4 DEF Reserved, AtEnclave, Opens, Replay!Accept, Replay!Move
  <2>5. CASE Busy(s)
    BY <2>5 DEF Busy, AtEnclave, Reply, Replay!Withdraw, Replay!Move
  <2>6. CASE Inferring(s)
    BY <2>6 DEF Inferring, AtEnclave, Replay!Infer, Replay!Move
  <2>7. CASE Done(s)
    BY <2>7 DEF Done, AtEnclave, Reply
  <2>8. CASE Dropped(s)
    BY <2>8 DEF Dropped, EndCall
  <2>9. CASE Abandoned(s)
    BY <2>9 DEF Abandoned, AtEnclave, Opens, EndCall, Replay!Accept, Replay!Move
  <2> QED  BY <1>2, <2>1, <2>2, <2>3, <2>4, <2>5, <2>6, <2>7, <2>8, <2>9 DEF EnclaveStep
<1>3. CASE Exit
  BY <1>3 DEF Exit, Replay!NewKey
<1>4. CASE Boot
  BY <1>4 DEF Boot
<1>5. CASE LoadRelease
  BY <1>5 DEF LoadRelease
<1>6. CASE Tick
  BY <1>6 DEF Tick
<1>7. CASE UNCHANGED vars
  BY <1>7 DEF vars
<1> QED  BY <1>1, <1>2, <1>3, <1>4, <1>5, <1>6, <1>7 DEF Next

(* No step changes the sum of free permits and live sessions.               *)
LEMMA PermitsStep ==
  ASSUME TypeOK, PermitsConserved, [Next]_vars
  PROVE  PermitsConserved'
<1>1. PermitsMove
  BY PermitStep
<1>2. IsFiniteSet(Live) /\ Cardinality(Live) \in Nat
  BY SessionAssumption, FS_Subset, FS_CardinalityType DEF Live
<1>3. permits \in Nat /\ permits + Cardinality(Live) = MaxConnections
  BY DEF TypeOK, PermitsConserved
<1>4. CASE permits' = permits /\ Live' = Live
  BY <1>3, <1>4 DEF PermitsConserved
<1>5. ASSUME NEW s \in Session \ Live, permits' = permits - 1, Live' = Live \union {s}
      PROVE  PermitsConserved'
  <2>1. Cardinality(Live \union {s}) = Cardinality(Live) + 1
    BY <1>2, FS_AddElement
  <2> QED  BY <1>2, <1>3, <1>5, <2>1, SessionAssumption DEF PermitsConserved
<1>6. ASSUME NEW s \in Live, permits' = permits + 1, Live' = Live \ {s}
      PROVE  PermitsConserved'
  <2>1. Cardinality(Live \ {s}) = Cardinality(Live) - 1
    BY <1>2, FS_RemoveElement
  <2> QED  BY <1>2, <1>3, <1>6, <2>1, SessionAssumption DEF PermitsConserved
<1> QED  BY <1>1, <1>4, <1>5, <1>6 DEF PermitsMove

-----------------------------------------------------------------------------
(* Theorems.                                                                *)

(* The inductive invariant all safety theorems of the sessions follow from. *)
THEOREM Invariance == Spec => []IInv
<1>1. Init => IInv
  <2> SUFFICES ASSUME Init PROVE IInv
    OBVIOUS
  <2>1. TypeOK
    <3>1. up \in BOOLEAN /\ loaded \in BOOLEAN
      BY DEF Init
    <3>5. boot \in 1..MaxBoots /\ permits \in Nat
      BY SessionAssumption DEF Init
    <3>6. status \in [Pair -> {"fresh", "reserved", "ran"}]
      BY DEF Init, Replay!Init
    <3>2. /\ phase \in [Session -> Waits \union {"none"}]
          /\ clock \in [Session -> Nat] /\ held \in [Session -> Nat]
          /\ key \in [Session -> 0..MaxBoots] /\ by \in [Session -> 0..MaxBoots]
      BY SessionAssumption DEF Init
    <3>3. /\ frame \in [Session -> Frame \union {NoFrame}]
          /\ err \in [Session -> {"none"} \union Retryable \union Final]
          /\ told \in [Session -> {"none", "result"} \union Retryable \union Final]
      BY DEF Init
    <3>4. /\ call \in [Session -> {"none", "sent", "queued", "inferring", "answered"}]
          /\ ans \in [Session -> Answer] /\ kept \in [Session -> BOOLEAN]
      BY DEF Init, Answer
    <3> QED  BY <3>1, <3>2, <3>3, <3>4, <3>5, <3>6 DEF TypeOK
  <2>2. Live = {}
    BY DEF Init, Live
  <2>3. PermitsConserved
    BY <2>2, SessionAssumption, FS_EmptySet DEF Init, PermitsConserved
  <2>4. \A s \in Session : OnTime(s)
    BY DEF Init, OnTime
  <2>5. \A s \in Session : CallOK(s) /\ ResultOK(s)
    BY DEF Init, CallOK, ResultOK
  <2>6. \A s \in Session : KeptOK(s)
    BY DEF Init, KeptOK, Clean
  <2> QED  BY <2>1, <2>3, <2>4, <2>5, <2>6 DEF IInv
<1>2. IInv /\ [Next]_vars => IInv'
  <2> SUFFICES ASSUME IInv, [Next]_vars PROVE IInv'
    OBVIOUS
  <2> USE DEF IInv
  <2>1. TypeOK'
    BY TypeStep
  <2>2. PermitsConserved'
    BY PermitsStep
  <2>3. \A s \in Session : OnTime(s)'
    BY TimeStep
  <2>4. \A s \in Session : CallOK(s)'
    BY CallStep
  <2>5. \A s \in Session : ResultOK(s)'
    BY ResultStep
  <2>6. \A s \in Session : KeptOK(s)'
    BY KeptStep
  <2> QED  BY <2>1, <2>2, <2>3, <2>4, <2>5, <2>6
<1> QED  BY <1>1, <1>2, PTL DEF Spec

(* The variables of the sessions keep their types.                          *)
THEOREM TypeCorrect == Spec => []TypeOK
<1>1. IInv => TypeOK
  BY DEF IInv
<1> QED  BY <1>1, Invariance, PTL

(* Free permits and live sessions always add up to WS_MAX_CONNECTIONS       *)
(* (matches.rs 45-56).                                                      *)
THEOREM Conserved == Spec => []PermitsConserved
<1>1. IInv => PermitsConserved
  BY DEF IInv
<1> QED  BY <1>1, Invariance, PTL

(* No session holds its permit longer than its phases together may last,    *)
(* whatever its peer and the enclave do (matches.rs 59-68, 121-134).        *)
THEOREM Bounded == Spec => []BoundedHold
<1>1. IInv => BoundedHold
  <2> SUFFICES ASSUME IInv, NEW s \in Session PROVE held[s] <= LongestSession
    BY DEF BoundedHold
  <2>1. phase[s] \in Waits \union {"none"} /\ clock[s] \in Nat /\ held[s] \in Nat
    BY DEF IInv, TypeOK
  <2>2. OnTime(s)
    BY DEF IInv
  <2> QED  BY <2>1, <2>2, SessionAssumption DEF OnTime, Allowed, Spent, Waits, LongestSession
<1> QED  BY <1>1, Invariance, PTL

(* A result comes from the boot its request was sealed to, which is never   *)
(* one before the boot the session was assigned.                            *)
THEOREM AssignedBootServes == Spec => []SameBootServes
<1>1. IInv => SameBootServes
  BY DEF IInv, ResultOK, SameBootServes
<1> QED  BY <1>1, Invariance, PTL

(* The enclave keeps nothing of a request whose peer is told to retry for   *)
(* lack of capacity, time to ask, readiness or the right key.               *)
THEOREM CleanRetries == Spec => []CleanRetry
<1>1. IInv => CleanRetry
  BY DEF IInv, KeptOK, Clean, CleanRetry
<1> QED  BY <1>1, Invariance, PTL

-----------------------------------------------------------------------------
(* The replay contract in the composition.                                  *)

Active == {"queued", "inferring"}

\* A call that the enclave works on holds its pair, and holds it alone.
Holds(s) ==
  /\ call[s] = "queued" => status[frame[s].pair] = "reserved"
  /\ call[s] = "inferring" => status[frame[s].pair] = "ran"
  /\ \A t \in Session \ {s} : call[s] \in Active /\ call[t] \in Active => frame[s].pair # frame[t].pair
PairsHeld == \A s \in Session : Holds(s)

\* A step that leaves the pairs alone and begins no work.
Quiet ==
  /\ status' = status
  /\ \A t \in Session : call'[t] \in Active => call'[t] = call[t] /\ frame'[t] = frame[t]

LEMMA QuietHolds ==
  ASSUME PairsHeld, Quiet
  PROVE  PairsHeld'
<1> SUFFICES ASSUME NEW s \in Session PROVE Holds(s)'
  BY DEF PairsHeld
<1>1. call'[s] = "queued" => status'[frame'[s].pair] = "reserved"
  BY DEF PairsHeld, Holds, Quiet, Active
<1>2. call'[s] = "inferring" => status'[frame'[s].pair] = "ran"
  BY DEF PairsHeld, Holds, Quiet, Active
<1>3. \A t \in Session \ {s} : call'[s] \in Active /\ call'[t] \in Active => frame'[s].pair # frame'[t].pair
  BY DEF PairsHeld, Holds, Quiet
<1> QED  BY <1>1, <1>2, <1>3 DEF Holds

(* No step of the host touches the pairs or begins work on one.             *)
LEMMA HostIsQuiet ==
  ASSUME IInv, NEW s \in Session, HostStep(s)
  PROVE  Quiet
<1> USE DEF IInv, TypeOK, Quiet, Active, enclaveVars, sessionVars, callVars
<1>1. CASE Accept(s)
  BY <1>1 DEF Accept
<1>2. CASE Refuse(s)
  BY <1>2 DEF Refuse
<1>3. CASE AssignmentRequest(s)
  BY <1>3 DEF AssignmentRequest, In
<1>4. CASE BadFrame(s)
  BY <1>4 DEF BadFrame, In
<1>5. CASE PeerCloses(s)
  BY <1>5 DEF PeerCloses, In
<1>6. CASE Attested(s)
  BY <1>6 DEF Attested, In
<1>7. CASE AssignmentSent(s)
  BY <1>7 DEF AssignmentSent, In
<1>8. CASE MatchFrame(s)
  BY <1>8 DEF MatchFrame, In, CallOK
<1>9. CASE SlotsKnown(s)
  BY <1>9 DEF SlotsKnown, In
<1>10. CASE Unreachable(s)
  BY <1>10 DEF Unreachable, In
<1>11. CASE Answered(s)
  BY <1>11 DEF Answered, EndCall, In
<1>12. CASE ResultSent(s)
  BY <1>12 DEF ResultSent, In
<1>13. CASE SendFails(s)
  BY <1>13 DEF SendFails, In
<1>14. CASE \E heard \in BOOLEAN : Report(s, heard)
  BY <1>14 DEF Report, In
<1>15. CASE Close(s)
  BY <1>15 DEF Close, Forget
<1>16. CASE Expire(s)
  <2>1. ASSUME NEW e, NEW phases, TimesOut(s, e, phases)  PROVE Quiet
    BY <2>1 DEF TimesOut, In
  <2>2. CASE Report(s, FALSE)
    BY <2>2 DEF Report, In
  <2>3. CASE Close(s)
    BY <2>3 DEF Close, Forget
  <2> QED  BY <1>16, <2>1, <2>2, <2>3 DEF Expire
<1> QED  BY <1>1, <1>2, <1>3, <1>4, <1>5, <1>6, <1>7, <1>8, <1>9, <1>10, <1>11, <1>12, <1>13, <1>14, <1>15, <1>16 DEF HostStep

\* A call at work has a frame, and so a pair.
LEMMA ActivePair ==
  ASSUME IInv, NEW s \in Session, call[s] \in Active \union {"sent"}
  PROVE  frame[s].pair \in Pair
BY DEF IInv, CallOK, Frame, Active

(* What a call does to its own pair disturbs no other's.                    *)
LEMMA MoveHolds ==
  ASSUME IInv, PairsHeld, NEW s \in Session, NEW from, NEW to, NEW stage,
         Replay!Move(frame[s].pair, from, to), call[s] \in {"sent", "queued"},
         from = (IF call[s] = "sent" THEN "fresh" ELSE "reserved"),
         call' = [call EXCEPT ![s] = stage],
         \A t \in Session : call'[t] \in Active => frame'[t] = frame[t],
         \/ stage = "queued" /\ to = "reserved"
         \/ stage = "inferring" /\ to = "ran"
         \/ stage \in {"answered", "none"}
  PROVE  PairsHeld'
<1> DEFINE q == frame[s].pair
<1>1. /\ status \in [Pair -> {"fresh", "reserved", "ran"}] /\ q \in Pair
      /\ status[q] = from /\ status' = [status EXCEPT ![q] = to] /\ DOMAIN call = Session
  BY ActivePair DEF Active, IInv, TypeOK, Replay!Move
<1>2. \A t \in Session \ {s} : call[t] \in Active => frame[t].pair \in Pair /\ frame[t].pair # q
  <2> SUFFICES ASSUME NEW t \in Session \ {s}, call[t] \in Active  PROVE frame[t].pair \in Pair /\ frame[t].pair # q
    OBVIOUS
  <2>1. frame[t].pair \in Pair
    BY ActivePair
  <2>2. CASE call[s] = "sent"
    <3>1. status[frame[t].pair] # "fresh"
      BY DEF PairsHeld, Holds, Active
    <3> QED  BY <1>1, <2>1, <2>2, <3>1
  <2>3. CASE call[s] = "queued"
    BY <2>1, <2>3 DEF PairsHeld, Holds, Active
  <2> QED  BY <2>2, <2>3
<1>3. /\ \A t \in Session : call'[t] \in Active => frame'[t] = frame[t]
      /\ call'[s] = stage /\ \A t \in Session \ {s} : call'[t] = call[t]
      /\ status'[q] = to /\ \A x \in Pair \ {q} : status'[x] = status[x]
  BY <1>1
<1> HIDE DEF q
<1>4. Holds(s)'
  <2>1. call'[s] = "queued" => status'[frame'[s].pair] = "reserved"
    BY <1>3 DEF q, Active
  <2>2. call'[s] = "inferring" => status'[frame'[s].pair] = "ran"
    BY <1>3 DEF q, Active
  <2>3. \A t \in Session \ {s} : call'[s] \in Active /\ call'[t] \in Active => frame'[s].pair # frame'[t].pair
    BY <1>2, <1>3 DEF q
  <2> QED  BY <2>1, <2>2, <2>3 DEF Holds
<1>5. ASSUME NEW t \in Session \ {s}  PROVE Holds(t)'
  <2>1. Holds(t)
    BY DEF PairsHeld
  <2>2. call[t] \in Active => status'[frame[t].pair] = status[frame[t].pair]
    BY <1>2, <1>3
  <2>3. call'[t] = call[t]
    BY <1>3
  <2>4. call'[t] = "queued" => status'[frame'[t].pair] = "reserved"
    BY <1>3, <2>1, <2>2, <2>3 DEF Holds, Active
  <2>5. call'[t] = "inferring" => status'[frame'[t].pair] = "ran"
    BY <1>3, <2>1, <2>2, <2>3 DEF Holds, Active
  <2>6. \A r \in Session \ {t} : call'[t] \in Active /\ call'[r] \in Active => frame'[t].pair # frame'[r].pair
    <3> SUFFICES ASSUME NEW r \in Session \ {t}, call'[t] \in Active, call'[r] \in Active
                 PROVE  frame[t].pair # frame[r].pair
      BY <1>3
    <3>1. CASE r = s
      BY <1>2, <2>3, <3>1 DEF q
    <3>2. CASE r # s
      BY <1>3, <2>1, <2>3, <3>2 DEF Holds
    <3> QED  BY <3>1, <3>2
  <2> QED  BY <2>4, <2>5, <2>6 DEF Holds
<1> QED  BY <1>4, <1>5 DEF PairsHeld

(* Every step of the composition keeps pairs with their calls, and is one   *)
(* of the contract or none.                                                 *)
LEMMA ContractStep ==
  ASSUME IInv, PairsHeld, [Next]_vars
  PROVE  PairsHeld' /\ [Replay!Next]_status
<1>1. ASSUME Quiet  PROVE PairsHeld' /\ [Replay!Next]_status
  BY <1>1, QuietHolds DEF Quiet
<1>2. ASSUME NEW s \in Session, HostStep(s)  PROVE Quiet
  BY <1>2, HostIsQuiet
<1>3. ASSUME NEW s \in Session, EnclaveStep(s)  PROVE PairsHeld' /\ [Replay!Next]_status
  <2>1. CASE Refused(s) \/ NotOpened(s) \/ Rejected(s) \/ Done(s)
    <3>1. status' = status /\ frame' = frame /\ call' = [call EXCEPT ![s] = "answered"]
      BY <2>1 DEF Refused, NotOpened, Rejected, Done, Reply
    <3>2. Quiet
      BY <3>1 DEF Quiet, Active, IInv, TypeOK
    <3> QED  BY <1>1, <3>2
  <2>6. CASE Abandoned(s)
    <3>1. call[s] = "sent" /\ Replay!Accept(frame[s].pair)
          /\ call' = [call EXCEPT ![s] = "none"] /\ frame' = [frame EXCEPT ![s] = NoFrame]
      BY <2>6 DEF Abandoned, AtEnclave, EndCall
    <3>2. Replay!Move(frame[s].pair, "fresh", "reserved") /\ frame[s].pair \in Pair
      BY <3>1, ActivePair DEF Replay!Accept
    <3>3. \A t \in Session : call'[t] \in Active => frame'[t] = frame[t]
      BY <3>1 DEF Active, IInv, TypeOK
    <3> QED  BY <3>1, <3>2, <3>3, MoveHolds DEF Replay!Next
  <2>2. CASE Dropped(s)
    <3>1. Quiet
      BY <2>2 DEF Dropped, EndCall, enclaveVars, Quiet, Active, IInv, TypeOK
    <3> QED  BY <1>1, <3>1
  <2>3. CASE Reserved(s)
    <3>1. call[s] = "sent" /\ Replay!Accept(frame[s].pair)
          /\ call' = [call EXCEPT ![s] = "queued"] /\ UNCHANGED frame
      BY <2>3 DEF Reserved, AtEnclave
    <3>2. Replay!Move(frame[s].pair, "fresh", "reserved") /\ frame[s].pair \in Pair
      BY <3>1, ActivePair DEF Replay!Accept
    <3> QED  BY <3>1, <3>2, MoveHolds DEF Replay!Next
  <2>4. CASE Busy(s)
    <3>1. call[s] = "queued" /\ Replay!Withdraw(frame[s].pair)
          /\ call' = [call EXCEPT ![s] = "answered"] /\ UNCHANGED frame
      BY <2>4 DEF Busy, AtEnclave, Reply
    <3>2. Replay!Move(frame[s].pair, "reserved", "fresh") /\ frame[s].pair \in Pair
      BY <3>1, ActivePair DEF Replay!Withdraw, Active
    <3> QED  BY <3>1, <3>2, MoveHolds DEF Replay!Next
  <2>5. CASE Inferring(s)
    <3>1. call[s] = "queued" /\ Replay!Infer(frame[s].pair)
          /\ call' = [call EXCEPT ![s] = "inferring"] /\ UNCHANGED frame
      BY <2>5 DEF Inferring, AtEnclave
    <3>2. Replay!Move(frame[s].pair, "reserved", "ran") /\ frame[s].pair \in Pair
      BY <3>1, ActivePair DEF Replay!Infer, Active
    <3> QED  BY <3>1, <3>2, MoveHolds DEF Replay!Next
  <2> QED  BY <1>3, <2>1, <2>2, <2>3, <2>4, <2>5, <2>6 DEF EnclaveStep
<1>4. CASE Exit
  <2>1. \A t \in Session : call'[t] \notin Active
    BY <1>4 DEF Exit, Active
  <2>2. PairsHeld'
    BY <2>1 DEF PairsHeld, Holds, Active
  <2> QED  BY <1>4, <2>2 DEF Exit, Replay!Next
<1>5. CASE Boot \/ LoadRelease \/ Tick \/ UNCHANGED vars
  <2>1. Quiet
    BY <1>5 DEF Boot, LoadRelease, Tick, vars, enclaveVars, sessionVars, callVars, Quiet
  <2> QED  BY <1>1, <2>1
<1> QED  BY <1>1, <1>2, <1>3, <1>4, <1>5 DEF Next

(* A call the enclave works on holds its pair until it is answered or its   *)
(* process ends, and no two hold one: withdrawing a reservation and running *)
(* it are never held up by another call (the enclave's replay.rs 47-73      *)
(* under sessions the host drops and names it uses again, matches.rs).      *)
THEOREM CallsHoldTheirPairs == Spec => []PairsHeld
<1>1. Init => PairsHeld
  BY DEF Init, PairsHeld, Holds, Active
<1>2. IInv /\ PairsHeld /\ [Next]_vars => PairsHeld'
  BY ContractStep
<1> QED  BY <1>1, <1>2, Invariance, PTL DEF Spec

(* The enclave as the sessions see it keeps the contract that the match     *)
(* operation implements: whatever sessions do, it is nothing but reserving, *)
(* withdrawing, inferring and a new key (matches.rs, replay.rs).            *)
THEOREM KeepsContract == Spec => Replay!Spec
<1>1. Init => Replay!Init
  BY DEF Init
<1>2. IInv /\ PairsHeld /\ [Next]_vars => [Replay!Next]_status
  BY ContractStep
<1> QED  BY <1>1, <1>2, Invariance, CallsHoldTheirPairs, PTL DEF Spec, Replay!Spec

=============================================================================
