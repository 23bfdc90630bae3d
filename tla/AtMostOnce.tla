----------------------------- MODULE AtMostOnce -----------------------------
(***************************************************************************)
(* What replay rejection promises (replay.rs, first paragraph; matches.rs  *)
(* line 144; WIP-201 3.8): under one channel key a pair goes at most once  *)
(* through the Engine, and a reservation can be taken back only while the  *)
(* Engine has not started on it.  A reboot brings a new channel key and    *)
(* starts over.                                                            *)
(***************************************************************************)
CONSTANT Pair

VARIABLE status   \* per pair: "fresh", "reserved" or "ran"

Init == status = [p \in Pair |-> "fresh"]

Move(p, from, to) ==
  /\ status[p] = from
  /\ status' = [status EXCEPT ![p] = to]

Accept(p) == Move(p, "fresh", "reserved")
Withdraw(p) == Move(p, "reserved", "fresh")
Infer(p) == Move(p, "reserved", "ran")
NewKey == status' = [p \in Pair |-> "fresh"]

Next ==
  \/ \E p \in Pair : Accept(p) \/ Withdraw(p) \/ Infer(p)
  \/ NewKey

Spec == Init /\ [][Next]_status

=============================================================================
