--------------------------- MODULE MCPublication ---------------------------
(***************************************************************************)
(* Small instances of Publication for TLC: how often each outside event    *)
(* happens in a behaviour.                                                 *)
(***************************************************************************)
EXTENDS Publication, TLC

CONSTANTS s1, s2

\* More than can be held at once.
MCIds == 1 .. 22

\* Synchronizations that overlap are alike.
MCSyncers == Permutations({s1, s2})

Times(n, kinds) == [k \in kinds |-> n]
Never == Times(0, Kinds)

\* Synchronizations that overlap or resume after a failure, of a provider
\* whose events change.
Overlapping == Times(1, {"connect", "fault"}) @@ Times(2, {"change"}) @@ Times(3, {"sync"}) @@ Never

\* Two edits of the policy, over different windows, around a synchronization.
Editing == Times(1, {"connect", "sync"}) @@ Times(2, {"edit"}) @@ Never

\* A disconnection beside synchronizations of one account, then of another.
Disconnecting == Times(1, {"disconnect"}) @@ Times(2, {"connect", "sync", "fault"}) @@ Never

\* One reader beside two synchronizations, an override and a disconnection.
Reading == Times(1, {"connect", "override", "disconnect", "read", "age"}) @@ Times(2, {"sync"}) @@ Never

\* Failures after which availability must come back, however many
\* synchronizations it takes.
Reopening == Times(1, {"connect", "override", "age", "fault"}) @@ Times(None, {"sync"}) @@ Never

MCWriteBudgets == {Overlapping, Editing}
MCReadBudgets == {Disconnecting, Reading}
MCReopenBudgets == {Reopening}
=============================================================================
