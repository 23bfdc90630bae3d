---------------------------- MODULE MCEngineIpc ----------------------------
(* A small instance of EngineIpc for TLC.                                   *)
EXTENDS EngineIpc

Ascii(bytes) == \A i \in DOMAIN bytes : bytes[i] < 128

Requests == {[id |-> 258, payload |-> <<0, 7>>]}
Responses ==
  {[id |-> 1, verdict |-> 0, report |-> Absent], [id |-> 1, verdict |-> 6, report |-> <<>>],
   [id |-> 65535, verdict |-> 4, report |-> <<65>>]}

\* No id, an unknown verdict, bytes after no report, no UTF-8, too long for the
\* reader, and nothing at all.
Raw ==
  {<<0, 0, 3>>, <<0, 1, 7, 0>>, <<0, 1, 0, 0, 5>>, <<0, 1, 0, 1, 255>>, <<1, 1, 1, 1, 1, 1, 1, 1, 1, 1>>, <<>>}

MCItem ==
  {[kind |-> "request", value |-> r, bytes |-> EncodeRequest(r)] : r \in Requests}
  \union {[kind |-> "response", value |-> r, bytes |-> EncodeResponse(r)] : r \in Responses}
  \union {[kind |-> "ready", value |-> TRUE, bytes |-> Ready]}
  \union {[kind |-> "raw", value |-> Absent, bytes |-> b] : b \in Raw}
=============================================================================
