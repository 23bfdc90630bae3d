-------------------------- MODULE MCClientSession --------------------------
(* A small instance of ClientSession for TLC.                               *)
EXTENDS ClientSession, TLC

CONSTANTS e1, e2, g1, x1, y1, r1, r2, p1, p2

\* x1 shares its PCR0 with g1, the image of this code.  y1 is another.
MCPcr ==
  [b \in Boot |-> [i \in 0..4 |->
    IF b = y1 THEN "other" ELSE IF i = 1 /\ b = x1 THEN "zero" ELSE "image"]]

Pin(i, v) == [index |-> i, value |-> v]
Pins(v) == <<Pin(0, v), Pin(1, v), Pin(2, v)>>
Entry == Pins("image")

Timed(url, policy, skip, age, timeout) ==
  [host_url |-> url, allowed_pcr_configs |-> policy, dangerously_skip_measurements |-> skip,
   max_attestation_age |-> age, connect_timeout |-> timeout, request_timeout |-> timeout]
Conf(url, policy, skip, age) == Timed(url, policy, skip, age, 1)

MCConfigs ==
  {Conf("https", {Entry}, FALSE, 1), Timed("http", {}, TRUE, 1, 0), Conf("https", {}, FALSE, 1),
   Conf("other", {Entry}, FALSE, 1), Conf("invalid", {Entry}, FALSE, 1),
   Conf("https", {<<Pin(0, "image")>>}, FALSE, 1),
   Conf("https", {<<Pin(0, "image"), Pin(1, "zero"), Pin(2, "image")>>}, FALSE, 1)}

MCJsons ==
  [config : {Timed("https", {Entry \o <<Pin(4, "image")>>, Pins("other")}, FALSE, 1, 0),
             Conf("https", {Entry}, FALSE, 0), Conf("https", {Entry}, FALSE, 2),
             Conf("https", {Entry \o <<Pin(0, "image")>>}, FALSE, 1),
             Conf("https", {Entry, <<Pin(0, "short")>>}, FALSE, 1)},
   hex : {"plain", "0x", "none"}, unknown_field : BOOLEAN]

Ask(p, r, v) == [pair |-> p, release |-> r, valid |-> v]
MCRequest == {Ask(p1, r1, TRUE), Ask(p1, r2, TRUE), Ask(p2, r1, FALSE)}
MCLists == {{r1}}

Symmetry == Permutations(Exchange)
=============================================================================
