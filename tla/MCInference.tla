---------------------------- MODULE MCInference ----------------------------
(* A small instance of Inference for TLC.                                   *)
EXTENDS Runner, TLC

\* 18 and 27 lie on a tie of the first and of the second rounding: they end up
\* below the lower threshold and above the higher one, which they are not.
MCThreshold == (1 :> 50) @@ (3 :> 62)
MCRaw == {-32, 18, 27, 32}

Sized(metas, size) == [i \in DOMAIN metas |-> [meta |-> metas[i], size |-> size]]
Request(pipeline, strictness, hints, entries, compare) ==
  [pipeline |-> pipeline, match_strictness |-> strictness, hints |-> hints,
   entries |-> entries, compare |-> compare]

\* Every assignment of metas to three entries for one order of the positions
\* each, further orders and wrong positions, and what else can be odd.
Metas(n) == [1..n -> {"", "illuminated", "unilluminated"}]
Layouts ==
  {Request(1, 3, FALSE, Sized(m, 1), <<2, 0, 1>>) : m \in Metas(3)}
  \union {Request(2, 1, FALSE, Sized(m, 1), <<2, 0>>) : m \in Metas(3)}
  \union {Request(1, 3, FALSE, Sized(<<"", m, n, "">>, 1), <<3, 1, 0>>) :
             m, n \in {"", "illuminated", "unilluminated"}}
  \union {Request(2, 1, FALSE, Sized(<<"", "illuminated", "unilluminated">>, 1), c) :
             c \in {<<0, 1>>, <<0, 2>>, <<1, 0>>, <<1, 1>>, <<2, 3>>, <<1, 2>>}}

Plain2 == <<"", "">>
Plain3 == <<"", "", "">>
Oddities ==
  {Request(2, 2, FALSE, Sized(Plain2, 1), <<0, 1>>),
   Request(2, 1, TRUE, Sized(Plain2, 1), <<0, 1>>),
   Request(3, 1, FALSE, Sized(Plain2, 1), <<0, 1>>),
   Request(1, 1, FALSE, Sized(Plain3, 1), <<0, 1>>),
   Request(2, 1, FALSE, Sized(<<"other", "">>, 1), <<0, 1>>),
   Request(2, 1, FALSE, Sized(Plain2, 0), <<0, 1>>),
   Request(2, 1, FALSE, Sized(Plain2, 4), <<0, 1>>),
   Request(1, 1, FALSE, Sized(Plain3, 2), <<2, 1, 0>>),
   Request(1, 1, FALSE, Sized(Plain3, 3), <<2, 1, 0>>)}

\* What the runner sends too, however it is called.
MCPayload ==
  Layouts \union Oddities \union {RunnerPayload(env, 1) : env \in {e \in Environment : Runs(e)}}

Report(code, reason, validation, at, role) ==
  [code |-> code, reason |-> reason, validation |-> validation, at |-> at, role |-> role]
MCFailure ==
  {Report("internal", "none", "none", "none", "other"),
   Report("invalid_request", "set", "none", "image", "live_selfie"),
   Report("invalid_request", "none", "none", "none", "other"),
   Report("matching_failed", "none", "none", "comparison", "selfie_challenge"),
   Report("image", "none", "none", "image", "rtms_challenge"),
   Report("validation_failed", "none", "known", "comparison", "orb_selfie")}
=============================================================================
