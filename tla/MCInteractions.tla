--------------------------- MODULE MCInteractions ---------------------------
\* Two runs, one of which uses a request id of the other.
EXTENDS Interactions, TLC

CONSTANTS r1, r2, q1, q2

TwoRuns == {r1,r2}
TwoIds == {q1,q2}
OneShared == (r1 :> {q1,q2}) @@ (r2 :> {q2})

\* auto-edit decides the read and asks about the edit.
ReadAndEdit ==
  (q1 :> [kind |-> "permission", name |-> {"read"}, risk |-> "medium"])
  @@ (q2 :> [kind |-> "permission", name |-> {"read", "edit"}, risk |-> "low"])

\* The run with one request, an edit, is asked about it or not; the other may
\* have any policy.
FourPolicies ==
  {p \in [TwoRuns -> Policies] : p[r2] = "auto-edit"} \cup {(r1 :> "auto-edit") @@ (r2 :> "read-only")}
=============================================================================
