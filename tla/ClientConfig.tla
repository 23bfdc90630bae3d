---------------------------- MODULE ClientConfig ----------------------------
(***************************************************************************)
(* Which configurations the client accepts, and which attested enclaves    *)
(* they make it trust (client/src/config.rs).  A measurement is a PCR      *)
(* index with a value; a policy lists, per release, the measurements that  *)
(* must all be there.                                                      *)
(***************************************************************************)
EXTENDS Integers, Sequences

CONSTANTS
  Image,              \* nonzero PCR values of the full 48 bytes
  MaxAttestationAge   \* MAX_ATTESTATION_AGE of WIP-201

ASSUME ConfigAssumption ==
  /\ MaxAttestationAge \in Nat \ {0}
  /\ Image \cap {"zero", "short"} = {}

\* "short" stands for every value that is not 48 bytes long.
Value == Image \union {"zero", "short"}
Measurement == [index : Nat, value : Value]

\* host_url is reduced to its scheme, "invalid" where it does not parse.
Config ==
  [host_url : {"http", "https", "other", "invalid"}, allowed_pcr_configs : SUBSET Seq(Measurement),
   dangerously_skip_measurements : BOOLEAN, max_attestation_age : Nat,
   connect_timeout : Nat, request_timeout : Nat]

-----------------------------------------------------------------------------
(* Config::verifier.                                                        *)

Pinned(m, index) == \E k \in DOMAIN m : m[k].index = index /\ m[k].value # "zero"

\* Mutant: only PCR0 must be pinned.
WellFormed_Pcr0(m) ==
  /\ \A k \in DOMAIN m : m[k].value # "short"
  /\ \A j, k \in DOMAIN m : m[j].index = m[k].index => j = k
  /\ Pinned(m, 0)

\* Full-length values, no index twice, PCR0 to PCR2 among them and not zero.
WellFormed(m) ==
  /\ \A k \in DOMAIN m : m[k].value # "short"
  /\ \A j, k \in DOMAIN m : m[j].index = m[k].index => j = k
  /\ \A index \in 0..2 : Pinned(m, index)

ValidAge(c) == c.max_attestation_age \in 1..MaxAttestationAge

\* The bypass looks at no measurement, the ones given included.
VerifierOk(c) ==
  /\ ValidAge(c)
  /\ \/ c.dangerously_skip_measurements
     \/ /\ c.allowed_pcr_configs # {}
        /\ \A m \in c.allowed_pcr_configs : WellFormed(m)

\* The verifier built from c accepts the measurements pcr: of some entry, all.
Trusts(c, pcr) ==
  \/ c.dangerously_skip_measurements
  \/ \E m \in c.allowed_pcr_configs :
       \A k \in DOMAIN m : m[k].index \in DOMAIN pcr /\ pcr[m[k].index] = m[k].value

-----------------------------------------------------------------------------
(* Where configurations come from.                                          *)

\* new and dangerously_skip_measurements.
Constructed(c) == c.host_url # "invalid" /\ VerifierOk(c)

\* pcr_configs: hex of either kind is taken, with or without 0x; what is no hex,
\* and a field the type does not have, are errors of the JSON.
Deserializes(json) == ~json.unknown_field /\ json.hex \in {"plain", "0x"} /\ json.config.host_url # "invalid"

\* from_json validates what it has parsed.
Parsed(json) == Deserializes(json) /\ VerifierOk(json.config)

\* with_max_attestation_age and with_request_timeout check nothing.
WithAge(c, age) == [c EXCEPT !.max_attestation_age = age]
WithTimeout(c, timeout) == [c EXCEPT !.request_timeout = timeout]

\* websocket_url: only these schemes have a WebSocket endpoint.
HasEndpoint(c) == c.host_url \in {"http", "https"}

=============================================================================
