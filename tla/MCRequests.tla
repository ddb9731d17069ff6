----------------------------- MODULE MCRequests -----------------------------
(***************************************************************************)
(* Small instances of Requests for TLC.                                    *)
(***************************************************************************)
EXTENDS Requests, TLC

CONSTANTS u1, u2, u3, r1, r2, o1

\* u2 answers u1's request and asks one of its own: one person in both roles.
MCRequester == [r \in Request |-> IF r = r1 THEN u1 ELSE u2]
MCOrgOf == [r \in Request |-> o1]

\* A calendar that never changes, and one that may be busy for an instant.
MCAllFree == {Time}
MCBusyOrFree == {Time, Time \ {2}}
=============================================================================
