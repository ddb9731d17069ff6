--------------------------- MODULE MCSyncSchedule ---------------------------
(***************************************************************************)
(* A small instance of SyncSchedule for TLC.  A unit of time is a minute;  *)
(* a batch has 50 s, claims and leases are 2 min, the delays after         *)
(* failures 1, 2 and 4 min and a jitter, all rounded up.  The interval     *)
(* after a success, 15 min, is cut.                                        *)
(***************************************************************************)
EXTENDS SyncSchedule

MCBackoff == [n \in 0 .. MaxFailures |-> 2^n + 1]
MCKinds == {"page", "connect", "read", "fault"}
MCOnce(kinds) == [k \in MCKinds |-> IF k \in kinds THEN 1 ELSE 0]
\* A fault beside a synchronization or a new connection of a user, or a private read.
MCBudgets == {MCOnce({"page", "fault"}), MCOnce({"connect", "fault"}), MCOnce({"read"})}
MCGrantBudgets == {MCOnce({"connect", "read"})}
=============================================================================
