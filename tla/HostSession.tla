---------------------------- MODULE HostSession ----------------------------
(***************************************************************************)
(* The WebSocket sessions of one host process (host/src/routes/matches.rs, *)
(* app_state.rs, enclave.rs, error.rs) between peers that may send what    *)
(* they like, read or not read, and an enclave that may reboot at any      *)
(* moment.  The enclave is reduced to the key of its boot, its release and *)
(* the replay contract AtMostOnce, which EnclaveMatch implements.          *)
(*                                                                         *)
(* Time.  clock is the time since the deadline of the phase was set, held  *)
(* the time since the session took its permit.  Time does not pass a       *)
(* deadline that is due: it stands until the timer has fired.              *)
(***************************************************************************)
EXTENDS Integers, FiniteSets

CONSTANTS
  Session,         \* names of sessions; a name is reused
  Pair,            \* the (aud, nonce) pairs requests carry
  MaxConnections,  \* WS_MAX_CONNECTIONS
  Idle,            \* WS_IDLE_TIMEOUT_SECS
  Control,         \* CONTROL_REQUEST_TIMEOUT
  LastSlot,        \* max_response_slot_millis of the loaded release
  Margin,          \* what run_match allows above it
  MaxBoots,        \* bound: boots of the enclave
  NoFrame          \* of a session that has received no match frame

\* The configuration rejects zero connections and a zero idle timeout.
ASSUME SessionAssumption ==
  /\ IsFiniteSet(Session)
  /\ MaxConnections \in Nat \ {0} /\ Idle \in Nat \ {0} /\ Control \in Nat \ {0}
  /\ LastSlot \in Nat /\ Margin \in Nat \ {0} /\ MaxBoots \in Nat \ {0}

VARIABLES
  \* the enclave
  up, loaded,  \* it serves; it has a release
  boot,        \* number of the boot, which stands for its channel key
  status,      \* what the boot holds of each pair, as in AtMostOnce
  \* the host
  permits,     \* free permits of the semaphore
  phase,       \* where the session stands
  clock, held,
  key,         \* boot whose key the session was assigned, 0 before that
  err,         \* the error being reported
  told,        \* what the peer heard in the end
  \* the match call of a session, on its own once the host gave it up
  call, ans,
  frame,       \* the match frame: the boot it is sealed to (0: none), its pair
  by,          \* history: the boot that answered
  kept         \* history: the boot still holds the pair for this call

enclaveVars == <<up, loaded, boot, status>>
sessionVars == <<phase, clock, key, err>>
callVars == <<call, ans, frame, by, kept>>
vars == <<enclaveVars, permits, sessionVars, held, told, callVars>>

Replay == INSTANCE AtMostOnce

Frame == [to : 0..MaxBoots, pair : Pair]
Waits == {"request", "attest", "assign", "match", "slots", "run", "reply", "report", "close"}

\* allow_retry of an envelope.  One code comes in two versions.
Retryable == {"at_capacity", "idle_timeout", "enclave_timeout", "enclave_unreachable",
              "enclave_not_ready", "reassign_required", "internal_error_retry"}
Final == {"invalid_message", "protocol_error", "invalid_request", "request_too_large",
          "client_disconnected", "internal_error"}
Answer == {"none", "result", "enclave_not_ready", "reassign_required", "request_too_large",
           "internal_error_retry"}

TypeOK ==
  /\ up \in BOOLEAN /\ loaded \in BOOLEAN /\ boot \in 1..MaxBoots
  /\ status \in [Pair -> {"fresh", "reserved", "ran"}]
  /\ permits \in Nat
  /\ phase \in [Session -> Waits \union {"none"}]
  /\ clock \in [Session -> Nat] /\ held \in [Session -> Nat]
  /\ key \in [Session -> 0..MaxBoots] /\ by \in [Session -> 0..MaxBoots]
  /\ frame \in [Session -> Frame \union {NoFrame}]
  /\ err \in [Session -> {"none"} \union Retryable \union Final]
  /\ told \in [Session -> {"none", "result"} \union Retryable \union Final]
  /\ call \in [Session -> {"none", "sent", "queued", "inferring", "answered"}]
  /\ ans \in [Session -> Answer]
  /\ kept \in [Session -> BOOLEAN]

Init ==
  /\ up = TRUE /\ loaded = FALSE /\ boot = 1 /\ Replay!Init
  /\ permits = MaxConnections
  /\ phase = [s \in Session |-> "none"]
  /\ clock = [s \in Session |-> 0] /\ held = [s \in Session |-> 0]
  /\ key = [s \in Session |-> 0] /\ by = [s \in Session |-> 0]
  /\ frame = [s \in Session |-> NoFrame]
  /\ err = [s \in Session |-> "none"] /\ told = [s \in Session |-> "none"]
  /\ call = [s \in Session |-> "none"] /\ ans = [s \in Session |-> "none"]
  /\ kept = [s \in Session |-> FALSE]

-----------------------------------------------------------------------------
(* Phases.                                                                  *)

\* How long a phase may last.  report and close share one deadline.
Allowed(ph) ==
  CASE ph \in {"attest", "slots"} -> Control
    [] ph = "run" -> LastSlot + Margin
    [] OTHER -> Idle

\* A phase with a deadline of its own.
Go(s, ph) ==
  /\ phase' = [phase EXCEPT ![s] = ph]
  /\ clock' = [clock EXCEPT ![s] = 0]

\* serve returned: the error, if any, is reported, and the socket closed.
Fail(s, e) == Go(s, "report") /\ err' = [err EXCEPT ![s] = e]
Leave(s) == Go(s, "close") /\ UNCHANGED err

\* Every handler of a session runs in its phase.
In(s, ph) == phase[s] = ph /\ UNCHANGED <<enclaveVars, permits, held>>

\* The call of an earlier session under this name is over: bounds the names.
Accept(s) ==
  /\ phase[s] = "none" /\ call[s] = "none" /\ permits > 0
  /\ permits' = permits - 1
  /\ Go(s, "request")
  /\ told' = [told EXCEPT ![s] = "none"]
  /\ kept' = [kept EXCEPT ![s] = FALSE]
  /\ UNCHANGED <<enclaveVars, held, key, err, call, ans, frame, by>>

Refuse(s) ==
  /\ phase[s] = "none" /\ call[s] = "none" /\ permits = 0
  /\ told' = [told EXCEPT ![s] = "at_capacity"]
  /\ kept' = [kept EXCEPT ![s] = FALSE]
  /\ UNCHANGED <<enclaveVars, permits, sessionVars, held, call, ans, frame, by>>

AssignmentRequest(s) ==
  /\ In(s, "request")
  /\ Go(s, "attest")
  /\ UNCHANGED <<key, err, told, callVars>>

\* A frame that is malformed, too large or out of order.  A ping changes
\* nothing, so it is no step.
BadFrame(s) ==
  /\ \/ In(s, "request") /\ \E e \in {"invalid_message", "protocol_error", "request_too_large"} : Fail(s, e)
     \/ In(s, "match") /\ \E e \in {"invalid_request", "protocol_error", "request_too_large"} : Fail(s, e)
  /\ UNCHANGED <<key, told, callVars>>

PeerCloses(s) ==
  /\ In(s, "request") \/ In(s, "match")
  /\ Leave(s)
  /\ UNCHANGED <<key, told, callVars>>

\* The enclave answers the attestation request with or without a release.
Attested(s) ==
  /\ In(s, "attest") /\ up
  /\ Go(s, "assign")
  /\ key' = [key EXCEPT ![s] = boot]
  /\ UNCHANGED <<err, told, callVars>>

AssignmentSent(s) ==
  /\ In(s, "assign")
  /\ Go(s, "match")
  /\ UNCHANGED <<key, err, told, callVars>>

\* The bytes go to the enclave unread: the peer may seal them to any key that
\* exists, one it was assigned in another session included, or to none.
MatchFrame(s) ==
  /\ In(s, "match")
  /\ \E to \in 0..boot, p \in Pair : frame' = [frame EXCEPT ![s] = [to |-> to, pair |-> p]]
  /\ Go(s, "slots")
  /\ UNCHANGED <<key, err, told, call, ans, by, kept>>

\* Deadline metadata, fetched anew: the enclave may have rebooted since.
SlotsKnown(s) ==
  /\ In(s, "slots") /\ up
  /\ \/ loaded /\ Go(s, "run") /\ call' = [call EXCEPT ![s] = "sent"] /\ UNCHANGED err
     \/ ~loaded /\ Fail(s, "enclave_not_ready") /\ UNCHANGED call
  /\ UNCHANGED <<key, told, ans, frame, by, kept>>

\* A connection to the enclave breaks.
Unreachable(s) ==
  /\ In(s, "attest") \/ In(s, "slots") \/ In(s, "run")
  /\ Fail(s, "enclave_unreachable")
  /\ UNCHANGED <<key, told, callVars>>

EndCall(s) ==
  /\ call' = [call EXCEPT ![s] = "none"]
  /\ ans' = [ans EXCEPT ![s] = "none"]

\* The answer of the match call reaches the host.
Answered(s) ==
  /\ In(s, "run") /\ call[s] = "answered"
  /\ EndCall(s)
  /\ \/ ans[s] = "result" /\ Go(s, "reply") /\ UNCHANGED err
     \/ ans[s] = "result" /\ Fail(s, "internal_error")
     \/ ans[s] # "result" /\ Fail(s, ans[s])
  /\ UNCHANGED <<key, told, frame, by, kept>>

ResultSent(s) ==
  /\ In(s, "reply")
  /\ Leave(s)
  /\ told' = [told EXCEPT ![s] = "result"]
  /\ UNCHANGED <<key, callVars>>

SendFails(s) ==
  /\ In(s, "assign") \/ In(s, "reply")
  /\ Fail(s, "client_disconnected")
  /\ UNCHANGED <<key, told, callVars>>

\* Mutant: every frame of the teardown gets a deadline of its own.
Report_OwnDeadline(s, heard) ==
  /\ In(s, "report")
  /\ Go(s, "close")
  /\ told' = IF heard THEN [told EXCEPT ![s] = err[s]] ELSE told
  /\ UNCHANGED <<key, err, callVars>>

\* The envelope is sent or its send fails; the deadline runs on either way.
Report(s, heard) ==
  /\ In(s, "report")
  /\ phase' = [phase EXCEPT ![s] = "close"]
  /\ told' = IF heard THEN [told EXCEPT ![s] = err[s]] ELSE told
  /\ UNCHANGED <<clock, key, err, callVars>>

\* The socket is dropped, and the frame unless a call still carries it.
Forget(s) ==
  /\ Go(s, "none")
  /\ held' = [held EXCEPT ![s] = 0]
  /\ key' = [key EXCEPT ![s] = 0]
  /\ err' = [err EXCEPT ![s] = "none"]
  /\ told' = [told EXCEPT ![s] = "none"]
  /\ frame' = [frame EXCEPT ![s] = IF call[s] = "none" THEN NoFrame ELSE @]
  /\ by' = [by EXCEPT ![s] = 0]
  /\ kept' = [kept EXCEPT ![s] = FALSE]

\* Mutant: the permit is not given back when an error was reported.
Close_LeaksPermit(s) ==
  /\ phase[s] = "close"
  /\ permits' = IF err[s] = "none" THEN permits + 1 ELSE permits
  /\ Forget(s)
  /\ UNCHANGED <<enclaveVars, call, ans>>

\* The Close frame is sent or not; the permit is dropped with the session.
Close(s) ==
  /\ phase[s] = "close"
  /\ permits' = permits + 1
  /\ Forget(s)
  /\ UNCHANGED <<enclaveVars, call, ans>>

TimesOut(s, e, phases) ==
  /\ \E ph \in phases : In(s, ph)
  /\ Fail(s, e)
  /\ UNCHANGED <<key, told, callVars>>

\* Mutant: a write waits for its peer without a deadline.
Expire_NotForWrites(s) ==
  /\ phase[s] # "none" /\ clock[s] >= Allowed(phase[s])
  /\ \/ TimesOut(s, "idle_timeout", {"request", "match"})
     \/ TimesOut(s, "enclave_timeout", {"attest", "slots", "run"})
     \/ Report(s, FALSE)
     \/ Close(s)

\* The timer of the phase fires.
Expire(s) ==
  /\ phase[s] # "none" /\ clock[s] >= Allowed(phase[s])
  /\ \/ TimesOut(s, "idle_timeout", {"request", "match"})
     \/ TimesOut(s, "enclave_timeout", {"attest", "slots", "run"})
     \/ TimesOut(s, "client_disconnected", {"assign", "reply"})
     \/ Report(s, FALSE)
     \/ Close(s)

-----------------------------------------------------------------------------
(* The match call in the enclave.                                           *)

Reply(s, a) ==
  /\ call' = [call EXCEPT ![s] = "answered"]
  /\ ans' = [ans EXCEPT ![s] = a]
  /\ by' = [by EXCEPT ![s] = boot]

AtEnclave(s, stage) ==
  /\ call[s] = stage /\ up
  /\ UNCHANGED <<up, loaded, boot, permits, sessionVars, held, told>>

\* Mutant: a frame sealed to the key of an earlier boot is opened.
Opens_AnyKey(s) == frame[s].to # 0

Opens(s) == frame[s].to = boot

Refused(s) ==
  /\ AtEnclave(s, "sent")
  /\ Reply(s, "enclave_not_ready") \/ Reply(s, "request_too_large")
  /\ UNCHANGED <<status, frame, kept>>

NotOpened(s) ==
  /\ AtEnclave(s, "sent") /\ ~Opens(s)
  /\ Reply(s, "reassign_required")
  /\ UNCHANGED <<status, frame, kept>>

\* Rejected by a check of prepare, a replayed pair included.
Rejected(s) ==
  /\ AtEnclave(s, "sent") /\ Opens(s)
  /\ Reply(s, "result")
  /\ UNCHANGED <<status, frame, kept>>

Reserved(s) ==
  /\ AtEnclave(s, "sent") /\ Opens(s)
  /\ Replay!Accept(frame[s].pair)
  /\ call' = [call EXCEPT ![s] = "queued"]
  /\ kept' = [kept EXCEPT ![s] = TRUE]
  /\ UNCHANGED <<ans, frame, by>>

\* Mutant: the reservation stays behind.
Busy_KeepsPair(s) ==
  /\ AtEnclave(s, "queued")
  /\ Reply(s, "enclave_not_ready")
  /\ UNCHANGED <<status, frame, kept>>

Busy(s) ==
  /\ AtEnclave(s, "queued")
  /\ Replay!Withdraw(frame[s].pair)
  /\ Reply(s, "enclave_not_ready")
  /\ kept' = [kept EXCEPT ![s] = FALSE]
  /\ UNCHANGED frame

Inferring(s) ==
  /\ AtEnclave(s, "queued")
  /\ Replay!Infer(frame[s].pair)
  /\ call' = [call EXCEPT ![s] = "inferring"]
  /\ UNCHANGED <<ans, frame, by, kept>>

Done(s) ==
  /\ AtEnclave(s, "inferring")
  /\ Reply(s, "result") \/ Reply(s, "internal_error_retry")
  /\ UNCHANGED <<status, frame, kept>>

\* The enclave notices that the host dropped the connection.
Dropped(s) ==
  /\ call[s] # "none" /\ phase[s] # "run"
  /\ EndCall(s)
  /\ frame' = [frame EXCEPT ![s] = NoFrame]
  /\ UNCHANGED <<enclaveVars, permits, sessionVars, held, told, by, kept>>

\* The same while the request is still prepared: its blocking task runs on and
\* reserves the pair for a call that is no more.
Abandoned(s) ==
  /\ AtEnclave(s, "sent") /\ Opens(s)
  /\ phase[s] # "run"
  /\ Replay!Accept(frame[s].pair)
  /\ EndCall(s)
  /\ frame' = [frame EXCEPT ![s] = NoFrame]
  /\ kept' = [kept EXCEPT ![s] = TRUE]
  /\ UNCHANGED by

\* The process ends and with it its calls; an answer may be on its way.
Exit ==
  /\ up
  /\ up' = FALSE /\ loaded' = FALSE
  /\ Replay!NewKey
  /\ call' = [s \in Session |-> IF call[s] = "answered" THEN "answered" ELSE "none"]
  /\ kept' = [s \in Session |-> FALSE]
  /\ UNCHANGED <<boot, permits, sessionVars, held, told, ans, frame, by>>

Boot ==
  /\ ~up /\ boot < MaxBoots
  /\ up' = TRUE /\ boot' = boot + 1
  /\ UNCHANGED <<loaded, status, permits, sessionVars, held, told, callVars>>

LoadRelease ==
  /\ up /\ ~loaded
  /\ loaded' = TRUE
  /\ UNCHANGED <<up, boot, status, permits, sessionVars, held, told, callVars>>

-----------------------------------------------------------------------------

\* Time stands while a timer is due.
Tick ==
  /\ \A s \in Session : phase[s] # "none" => clock[s] < Allowed(phase[s])
  /\ \E s \in Session : phase[s] # "none"
  /\ clock' = [s \in Session |-> IF phase[s] = "none" THEN clock[s] ELSE clock[s] + 1]
  /\ held' = [s \in Session |-> IF phase[s] = "none" THEN held[s] ELSE held[s] + 1]
  /\ UNCHANGED <<enclaveVars, permits, phase, key, err, told, callVars>>

HostStep(s) ==
  \/ Accept(s) \/ Refuse(s)
  \/ AssignmentRequest(s) \/ BadFrame(s) \/ PeerCloses(s)
  \/ Attested(s) \/ AssignmentSent(s) \/ MatchFrame(s)
  \/ SlotsKnown(s) \/ Unreachable(s) \/ Answered(s)
  \/ ResultSent(s) \/ SendFails(s)
  \/ \E heard \in BOOLEAN : Report(s, heard)
  \/ Close(s) \/ Expire(s)

EnclaveStep(s) ==
  \/ Refused(s) \/ NotOpened(s) \/ Rejected(s) \/ Reserved(s)
  \/ Busy(s) \/ Inferring(s) \/ Done(s) \/ Dropped(s) \/ Abandoned(s)

Next ==
  \/ \E s \in Session : HostStep(s) \/ EnclaveStep(s)
  \/ Exit \/ Boot \/ LoadRelease
  \/ Tick

Spec == Init /\ [][Next]_vars

\* Timers fire and time passes.  Nothing is assumed of peers or the enclave.
Fairness == WF_vars(Tick) /\ \A s \in Session : WF_vars(Expire(s))

FairSpec == Spec /\ Fairness

-----------------------------------------------------------------------------
(* Safety.                                                                  *)

Live == {s \in Session : phase[s] # "none"}

(* Every permit is either free or held by one session that is still served: *)
(* no path through errors, timeouts and disconnects leaks one or gives it   *)
(* back twice (app_state.rs 45-51, matches.rs 45-69).                       *)
PermitsConserved == permits + Cardinality(Live) = MaxConnections

\* The longest a peer and an enclave together can make the phases last.
LongestSession == 5 * Idle + 2 * Control + LastSlot + Margin

(* A session holds its permit for a bounded time, although its peer may     *)
(* stop reading or writing at any point and the enclave may never answer    *)
(* (matches.rs 59-68, 121-134; enclave.rs 56-89).                           *)
BoundedHold == \A s \in Session : held[s] <= LongestSession

(* A result the peer receives was computed by the boot it sealed its        *)
(* request to, and by none before the one it was assigned, although the     *)
(* host opens a new connection for each call and the enclave may have       *)
(* rebooted in between.  So for a peer that seals to its assignment, which  *)
(* the host cannot check, "the enclave that answered the assignment serves  *)
(* the match" (docs/api.md 58).                                             *)
SameBootServes ==
  \A s \in Session : told[s] = "result" => by[s] = frame[s].to /\ by[s] >= key[s]

(* Whoever is told to retry for one of these reasons can do so with the     *)
(* same request: the enclave holds nothing of it (error.rs 104-135,         *)
(* 215-235; the release after Busy in the enclave's matches.rs 192-196).    *)
CleanRetry ==
  \A s \in Session :
    told[s] \in {"at_capacity", "idle_timeout", "enclave_not_ready", "reassign_required"} => ~kept[s]

-----------------------------------------------------------------------------
(* Liveness.                                                                *)

(* Every session ends and frees its permit, whatever the others do.         *)
EverySessionEnds == \A s \in Session : phase[s] # "none" ~> phase[s] = "none"

-----------------------------------------------------------------------------
(* What the documentation says and the code does not keep.                  *)

(* api-types/src/error.rs 6: allow_retry says "Whether the client should    *)
(* retry the request".  After a timeout, a broken connection or an Internal *)
(* error the enclave may hold the request's pair for good, and answers the  *)
(* retry with Replayed.                                                     *)
RetryCanSucceed == \A s \in Session : told[s] \in Retryable => ~kept[s]

=============================================================================
