-------------------------- MODULE OrderedDelivery --------------------------
(***************************************************************************)
(* What a framed stream promises: whole messages, in the order they were   *)
(* handed over, none twice and none skipped, until it ends.  It ends       *)
(* cleanly only where at most the message in hand is missing.              *)
(***************************************************************************)
EXTENDS Naturals, Sequences

CONSTANT Message

VARIABLES
  sent,  \* messages handed over
  got,   \* messages delivered
  end    \* "none", "clean" or "failed"

vars == <<sent, got, end>>

Init == sent = <<>> /\ got = <<>> /\ end = "none"

Send(m) == sent' = Append(sent, m) /\ UNCHANGED <<got, end>>

Deliver ==
  /\ end = "none" /\ Len(got) < Len(sent)
  /\ got' = Append(got, sent[Len(got) + 1])
  /\ UNCHANGED <<sent, end>>

EndClean ==
  /\ end = "none" /\ Len(sent) - Len(got) <= 1
  /\ end' = "clean"
  /\ UNCHANGED <<sent, got>>

Fail == end = "none" /\ end' = "failed" /\ UNCHANGED <<sent, got>>

Next == (\E m \in Message : Send(m)) \/ Deliver \/ EndClean \/ Fail

Spec == Init /\ [][Next]_vars
=============================================================================
