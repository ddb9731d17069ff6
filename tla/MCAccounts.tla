----------------------------- MODULE MCAccounts -----------------------------
(***************************************************************************)
(* Small instances of Accounts for TLC: the people, who of them is signed  *)
(* in at first, and how often each outside event happens in each run.      *)
(***************************************************************************)
EXTENDS Accounts, TLC

CONSTANTS s1, s2, b1, b2

Times(n, kinds) == [k \in kinds |-> n]
Never == Times(0, Kinds)

MCTwo == {s1, s2}
MCTwoIds == s1 :> 1 @@ s2 :> 2
MCTwoCookies == b1 :> s1 @@ b2 :> s2

\* The deletion of an account that invites somebody and has a request.
Erasing == Times(1, {"invite", "ask", "delete", "fault"}) @@ Never
\* Two owners of a workspace who leave it.
Leaving == Times(1, {"invite", "promote", "fault"}) @@ Times(2, {"delete"}) @@ Never
\* Two sign-ins beside the deletion of an account.
Returning == Times(1, {"delete"}) @@ Times(2, {"signin"}) @@ Never

\* An invitation accepted while the account that sent it is deleted.
Inviting == Times(1, {"invite", "delete"}) @@ Never
\* Deletions that fail, of which the cleanup takes one page after the other.
Failing == Times(2, {"delete"}) @@ Times(2, {"fault"}) @@ Never

MCInvitingBudgets == {Inviting}
MCCleanupBudgets == {Failing}
MCSweepBudgets == {Erasing, Leaving, Returning}
=============================================================================
