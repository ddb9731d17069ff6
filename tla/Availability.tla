---------------------------- MODULE Availability ----------------------------
(***************************************************************************)
(* What publication promises, apart from the batches, gates, leases and    *)
(* revisions that it takes: a user's public availability is one document   *)
(* that shows either nothing or all of the projection of what it is made   *)
(* from.  It is replaced in one step, from nothing; whatever it is made    *)
(* from changes only together with it being hidden; and it shows no        *)
(* calendar but the one that is connected.                                 *)
(***************************************************************************)
CONSTANTS
    Cells,    \* the pieces of time availability is given for
    Sources,  \* what availability may be made from
    Fresh,    \* the source of a user who has set nothing
    None      \* a cell of which nothing is said, and an availability that is hidden

VARIABLES
    source,   \* the policy, the override, the imported events and the connected account
    shown     \* [Cells -> what is said of them], or None

\* What is said of all of some cells, and nothing of the others.
Complete(cells) ==
    [c \in Cells |-> IF c \in cells
                     THEN [policy |-> source.policy, override |-> source.override, event |-> source.events[c]]
                     ELSE None]

Connected == \A c \in Cells : source.events[c] \in {None, source.account}

Show(cells) ==
    /\ shown = None
    /\ Connected
    /\ shown' = Complete(cells)
    /\ UNCHANGED source

Hide == shown' = None /\ UNCHANGED source

Change == source' \in Sources /\ shown' = None

AvailabilityInit == source = Fresh /\ shown = [c \in Cells |-> None]

AvailabilityNext == (\E cells \in SUBSET Cells : Show(cells)) \/ Hide \/ Change

AvailabilitySpec == AvailabilityInit /\ [][AvailabilityNext]_<<source, shown>>
=============================================================================
