--------------------------- MODULE MCAttachments ---------------------------
(* One file, two messages that compete for it, requests and runs of the job *)
(* that overlap.  The symmetry is for safety; liveness is checked of a      *)
(* single message and without it.                                           *)
EXTENDS Attachments, TLC

CONSTANTS f1, m1, m2, r1, r2, j1, j2

OneFile == {f1}
OneMessage == {m1}
TwoMessages == {m1, m2}
TwoRequests == {r1, r2}
TwoJobs == {j1, j2}
Symmetry == Permutations(TwoRequests) \cup Permutations(TwoJobs)
=============================================================================
