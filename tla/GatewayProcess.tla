--------------------------- MODULE GatewayProcess ---------------------------
(***************************************************************************)
(* The gateway process: admission and drain (ops.rs, ws.rs, wt.rs) and the *)
(* audit log its sessions write to.  A session is admitted by the upgrade  *)
(* handler and counted later, by the task that runs it.  SIGTERM begins a  *)
(* drain, waits for the count to reach zero or for the timeout, and stops  *)
(* the server; the sessions that are still running die with the process.   *)
(***************************************************************************)
EXTENDS AuditLog, FiniteSets

CONSTANT Sessions

ASSUME SessionsAssumption == IsFiniteSet(Sessions)

VARIABLES
    session,    \* [Sessions -> free, admitted or running]
    count,      \* OpsState.sessions
    draining,   \* OpsState.draining
    shutdown,   \* no, waiting (wait_idle) or stopping
    overdue,    \* history: wait_idle gave up
    raced       \* history: admitted, and not counted, when the drain began

processVars == <<session, count, draining, shutdown, overdue, raced>>
vars == <<auditVars, processVars>>

NewProcess ==
    /\ session = [s \in Sessions |-> "free"]
    /\ count = 0
    /\ draining = FALSE
    /\ shutdown = "no"
    /\ overdue = FALSE
    /\ raced = {}

Init == AuditInit /\ NewProcess

In(state) == {s \in Sessions : session[s] = state}

-----------------------------------------------------------------------------
\* main: the sink is opened before the server.
Start == AuditStart /\ UNCHANGED processVars

\* ws_handler and handle_session: refused while draining.
Admit(s) ==
    /\ running /\ shutdown # "stopping"
    /\ session[s] = "free" /\ ~draining
    /\ session' = [session EXCEPT ![s] = "admitted"]
    /\ UNCHANGED <<auditVars, count, draining, shutdown, overdue, raced>>

\* The upgrade fails, or the client opens no stream.
UpgradeFails(s) ==
    /\ running /\ session[s] = "admitted"
    /\ session' = [session EXCEPT ![s] = "free"]
    /\ raced' = raced \ {s}
    /\ UNCHANGED <<auditVars, count, draining, shutdown, overdue>>

\* Fault: the guard is dropped at once.
CountedNot == count

\* session_guard
Counted == count + 1

\* The task of the session starts: it is counted, and runs.
RunSession(s) ==
    /\ running /\ session[s] = "admitted"
    /\ session' = [session EXCEPT ![s] = "running"]
    /\ count' = Counted
    /\ UNCHANGED <<auditVars, draining, shutdown, overdue, raced>>

\* A decision of a running session (Authenticate, OpenChannel) is recorded.
SessionEmits(s) ==
    /\ session[s] = "running"
    /\ EmitStart
    /\ UNCHANGED processVars

\* emit() goes on.
EmitStep ==
    /\ \/ RotateFails \/ RotateRemove \/ RotateShift \/ RotateRename
       \/ RotateOpen \/ AppendDone \/ AppendFails
    /\ UNCHANGED processVars

\* run_connection returns, and the guard is dropped.
EndSession(s) ==
    /\ running /\ session[s] = "running" /\ pc = "idle"
    /\ session' = [session EXCEPT ![s] = "free"]
    /\ count' = IF count > 0 THEN count - 1 ELSE 0
    /\ raced' = raced \ {s}
    /\ UNCHANGED <<auditVars, draining, shutdown, overdue>>

BeginDrain ==
    /\ draining' = TRUE
    /\ raced' = IF draining THEN raced ELSE In("admitted")

\* POST /drain
Drain ==
    /\ running /\ ~draining
    /\ BeginDrain
    /\ UNCHANGED <<auditVars, session, count, shutdown, overdue>>

\* shutdown_signal
Signal ==
    /\ running /\ shutdown = "no"
    /\ BeginDrain
    /\ shutdown' = "waiting"
    /\ UNCHANGED <<auditVars, session, count, overdue>>

\* Fault: wait_idle has no deadline.
WaitIdleForever ==
    /\ running /\ shutdown = "waiting" /\ count = 0
    /\ shutdown' = "stopping"
    /\ overdue' = FALSE
    /\ UNCHANGED <<auditVars, session, count, draining, raced>>

\* wait_idle returns: no session is counted, or the deadline has passed.
WaitIdle ==
    /\ running /\ shutdown = "waiting"
    /\ shutdown' = "stopping"
    /\ overdue' = (count > 0)
    /\ UNCHANGED <<auditVars, session, count, draining, raced>>

Gone ==
    /\ session' = [s \in Sessions |-> "free"]
    /\ count' = 0
    /\ draining' = FALSE
    /\ shutdown' = "no"
    /\ overdue' = FALSE
    /\ raced' = {}

\* The server stops and main returns.  A task that is in emit() finishes it.
Exit == running /\ shutdown = "stopping" /\ AuditExit /\ Gone

Crash == AuditCrash /\ Gone

Next ==
    \/ Start
    \/ \E s \in Sessions :
          \/ Admit(s) \/ UpgradeFails(s) \/ RunSession(s) \/ SessionEmits(s)
          \/ EndSession(s)
    \/ EmitStep
    \/ Drain \/ Signal \/ WaitIdle \/ Exit
    \/ Crash

Spec == Init /\ [][Next]_vars

\* The runtime runs what can run; sessions may last for ever.
FairSpec ==
    /\ Spec
    /\ WF_vars(EmitStep) /\ WF_vars(WaitIdle) /\ WF_vars(Exit)

-----------------------------------------------------------------------------
\* The values of the variables.
TypeOK ==
    /\ AuditTypeOK
    /\ session \in [Sessions -> {"free", "admitted", "running"}]
    /\ count \in 0 .. Cardinality(Sessions)
    /\ {draining, overdue} \subseteq BOOLEAN
    /\ shutdown \in {"no", "waiting", "stopping"}
    /\ raced \subseteq Sessions

(***************************************************************************)
(* ws.rs: on SIGTERM the process "waits up to drain_timeout_secs for       *)
(* sessions, then stops".  An exit before the timeout cuts off no session, *)
(* except one that was admitted and not yet counted when the drain began.  *)
(***************************************************************************)
DrainWaitsForSessions ==
    [][ Exit /\ ~overdue => In("running") \subseteq raced ]_vars

(***************************************************************************)
(* A shutdown ends, although sessions may last for ever.                   *)
(***************************************************************************)
ShutdownCompletes == shutdown # "no" ~> ~running
=============================================================================
