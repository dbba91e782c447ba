------------------------------ MODULE EdgeSync ------------------------------
(***************************************************************************)
(* What Agent.Sync promises to the rest of the system, with the apply of a *)
(* desired state as one step: the contract that the module EdgeApply       *)
(* implements and that the Sync actions of the module Publication use.     *)
(***************************************************************************)
EXTENDS Naturals

CONSTANTS
    Files,          \* the files Nginx loads
    MaxVersion      \* bound on node_states.version

VARIABLES
    desired,    \* version of the node's desired state at the control plane
    applied,    \* the applied-version file
    live,       \* per file, the version that the Nginx workers have loaded
    report,     \* the result waiting for the next heartbeat
    good,       \* the version that a rollback restores
    dirty       \* an agent died while applying, and none has succeeded since

syncVars == <<desired, applied, live, report, good, dirty>>

Versions == 0 .. MaxVersion
Loaded == [Files -> Versions]
Whole(v) == [f \in Files |-> v]
NoReport == [version |-> 0, ok |-> FALSE]

SyncInit ==
    /\ desired = 0
    /\ applied = 0
    /\ live = Whole(0)
    /\ report = NoReport
    /\ good = 0
    /\ dirty = FALSE

\* The control plane stores a new desired state.
NewDesiredState ==
    /\ desired < MaxVersion
    /\ desired' = desired + 1
    /\ UNCHANGED <<applied, live, report, good, dirty>>

\* Version v is live and a rollback restores it from now on.
Adopted(v) ==
    /\ live' = Whole(v)
    /\ good' = v
    /\ dirty' = FALSE

Succeed(v) ==
    /\ applied' = v
    /\ report' = [version |-> v, ok |-> TRUE]
    /\ Adopted(v)
    /\ UNCHANGED desired

\* An apply that does not succeed leaves live what was, what it was to load
\* or what a rollback restores, never a mixture, unless an agent has died
\* while applying.
Leftover(v) == IF dirty THEN Loaded ELSE {live, Whole(v), Whole(good)}

\* The apply fails; only a version that could not be recorded is adopted.
Fail(v) ==
    /\ report' = [version |-> v, ok |-> FALSE]
    /\ \/ live' \in Leftover(v) /\ UNCHANGED <<good, dirty>>
       \/ Adopted(v)
    /\ UNCHANGED <<desired, applied>>

\* The agent dies: before the version is recorded, or after.
Interrupt(v) ==
    /\ report' = NoReport
    /\ \/ /\ live' \in Leftover(v)
          /\ good' \in {good, v}
          /\ dirty' = TRUE
          /\ UNCHANGED applied
       \/ Adopted(v) /\ applied' = v
    /\ UNCHANGED desired

\* A heartbeat is answered, or the agent restarts.
ReportGone ==
    /\ report' = NoReport
    /\ UNCHANGED <<desired, applied, live, good, dirty>>

SyncNext ==
    \/ NewDesiredState
    \/ \E v \in applied + 1 .. desired : Succeed(v) \/ Fail(v) \/ Interrupt(v)
    \/ ReportGone

SyncSpec == SyncInit /\ [][SyncNext]_syncVars

=============================================================================
