----------------------------- MODULE UpdateDrain -----------------------------
(***************************************************************************)
(* How a running agent is replaced by a newer one (update/mod.rs,          *)
(* update/linux.rs, state.rs, and the remote control of agent.rs).  An     *)
(* updater is a task inside the agent (the dashboard asked for it) or a    *)
(* process of its own (command line, timer).  The two sides meet in two    *)
(* files: the drain request, and agent-state.json, which the agent writes  *)
(* at its heartbeats and an outside updater polls.                         *)
(***************************************************************************)
EXTENDS Naturals

CONSTANTS
    Outside,    \* updaters in processes of their own
    Remote,     \* the updater task inside the agent
    MaxJobs,    \* bound on jobs at a time
    MaxFaults   \* bound on crashes and failed steps

ASSUME UpdateAssumption ==
    /\ Remote \notin Outside
    /\ MaxJobs \in Nat \ {0} /\ MaxFaults \in Nat

Updater == Outside \cup {Remote}

VARIABLES
    agent,      \* the agent process: "up" or "down"
    binary,     \* the agent's file: "old", "new", or "partial" (half copied)
    running,    \* the version the agent runs
    count,      \* active_job_count, and REPORTED_ACTIVE_JOBS
    admitting,  \* respond_invoke is between its drain check and its count
    sticky,     \* UPDATE_DRAINING of the agent process
    request,    \* the drain request file exists
    report,     \* agent-state.json: active_job_count and update_draining
    rewriting,  \* what a read-modify-write of agent-state.json has read
    lifecycle,  \* LIFECYCLE_IN_FLIGHT of the agent process
    ordered,    \* a restart ordered by the cloud is on its way
    pc,         \* where each updater stands
    kept,       \* updaters whose request has stood since they made it
    steady,     \* updaters that see one report since their poll began
    killed,     \* an update has ended the agent under a counted job
    faults

process == <<agent, running>>
jobs == <<count, admitting>>
files == <<report, rewriting, steady>>
control == <<lifecycle, ordered>>
vars == <<process, binary, jobs, sticky, request, files, control, pc, kept,
          killed, faults>>

Report == [jobs : 0..MaxJobs, draining : BOOLEAN]
NoReport == [jobs |-> MaxJobs, draining |-> FALSE]

Step == {"idle", "download", "poll", "ack", "busy", "safe", "stop", "install",
         "copying", "stopAgain", "replace", "restart"}

TypeOK ==
    /\ agent \in {"up", "down"} /\ binary \in {"old", "new", "partial"}
    /\ running \in {"old", "new"}
    /\ count \in 0..MaxJobs /\ {admitting, sticky, request} \subseteq BOOLEAN
    /\ report \in Report /\ rewriting \in Report \cup {NoReport}
    /\ {lifecycle, ordered, killed} \subseteq BOOLEAN
    /\ pc \in [Updater -> Step]
    /\ kept \subseteq Updater /\ steady \subseteq Outside /\ faults \in 0..MaxFaults

Init ==
    /\ agent = "up" /\ binary = "old" /\ running = "old"
    /\ count = 0 /\ admitting = FALSE
    /\ sticky = FALSE /\ request = FALSE
    /\ report = [jobs |-> 0, draining |-> FALSE] /\ rewriting = NoReport
    /\ lifecycle = FALSE /\ ordered = FALSE
    /\ pc = [u \in Updater |-> "idle"]
    /\ kept = {} /\ steady = {} /\ killed = FALSE /\ faults = 0

Draining == sticky \/ request
Goto(u, label) == pc' = [pc EXCEPT ![u] = label]
Fault == faults < MaxFaults /\ faults' = faults + 1

\* A write of agent-state.json.
Writes(r) == report' = r /\ steady' = IF r = report THEN steady ELSE {}

\* The session lock is free: respond_invoke holds it while it admits.
Unlocked == agent = "up" /\ ~admitting

-----------------------------------------------------------------------------
(* The agent *)

\* (mutant) an invoke is admitted whether or not the agent drains.
AdmitCheck_Blind ==
    /\ Unlocked /\ count < MaxJobs
    /\ admitting' = TRUE
    /\ UNCHANGED <<process, binary, count, sticky, request, files, control, pc,
                   kept, killed, faults>>

\* respond_invoke: a draining agent is busy.
AdmitCheck ==
    /\ Unlocked /\ count < MaxJobs /\ ~Draining
    /\ admitting' = TRUE
    /\ UNCHANGED <<process, binary, count, sticky, request, files, control, pc,
                   kept, killed, faults>>

AdmitCount ==
    /\ agent = "up" /\ admitting
    /\ count' = count + 1 /\ admitting' = FALSE
    /\ UNCHANGED <<process, binary, sticky, request, files, control, pc, kept,
                   killed, faults>>

\* (mutant) the count is decremented without a floor.
CountFalls_Wraps ==
    /\ Unlocked
    /\ count' \in {count - 1, 0}
    /\ UNCHANGED <<process, binary, admitting, sticky, request, files, control,
                   pc, kept, killed, faults>>

\* A job ends, or the count is healed or cleared by cancel_jobs.
CountFalls ==
    /\ Unlocked /\ count > 0
    /\ count' \in {count - 1, 0}
    /\ UNCHANGED <<process, binary, admitting, sticky, request, files, control,
                   pc, kept, killed, faults>>

\* At every heartbeat and every invoke the agent makes a request its own.
Adopt ==
    /\ agent = "up" /\ request /\ ~sticky
    /\ sticky' = TRUE
    /\ UNCHANGED <<process, binary, jobs, request, files, control, pc, kept,
                   killed, faults>>

\* update_connection_state, always under the session lock.
Persist ==
    /\ Unlocked
    /\ Writes([jobs |-> count, draining |-> Draining])
    /\ UNCHANGED <<process, binary, jobs, sticky, request, rewriting, control,
                   pc, kept, killed, faults>>

\* The session ends: mark_disconnected, and its jobs are canceled.
Disconnect ==
    /\ Unlocked
    /\ count' = 0
    /\ Writes([jobs |-> 0, draining |-> FALSE])
    /\ UNCHANGED <<process, binary, admitting, sticky, request, rewriting,
                   control, pc, kept, killed, faults>>

\* set_downloading_model and record_inference_failure read the file and write
\* it back without the session lock.
RewriteRead ==
    /\ agent = "up" /\ rewriting = NoReport
    /\ rewriting' = report
    /\ UNCHANGED <<process, binary, jobs, sticky, request, report, steady,
                   control, pc, kept, killed, faults>>

RewriteWrite ==
    /\ agent = "up" /\ rewriting # NoReport
    /\ Writes(rewriting)
    /\ rewriting' = NoReport
    /\ UNCHANGED <<process, binary, jobs, sticky, request, control, pc, kept,
                   killed, faults>>

\* The agent process ends; everything it kept in memory is gone.
Ends ==
    /\ agent' = "down" /\ count' = 0 /\ admitting' = FALSE
    /\ sticky' = FALSE /\ lifecycle' = FALSE /\ ordered' = FALSE
    /\ rewriting' = NoReport

Crash ==
    /\ agent = "up" /\ Fault /\ Ends
    /\ Goto(Remote, "idle")
    /\ UNCHANGED <<running, binary, request, report, steady, kept, killed>>

\* (mutant) the watchdog leaves a stopped service alone.
Watchdog_CrashedOnly ==
    /\ agent = "down" /\ binary # "partial" /\ faults > 0
    /\ agent' = "up" /\ running' = binary
    /\ UNCHANGED <<binary, jobs, sticky, request, files, control, pc, kept,
                   killed, faults>>

\* systemd restarts a crashed agent, the watchdog timer a stopped one.
Watchdog ==
    /\ agent = "down" /\ binary # "partial"
    /\ agent' = "up" /\ running' = binary
    /\ UNCHANGED <<binary, jobs, sticky, request, files, control, pc, kept,
                   killed, faults>>

-----------------------------------------------------------------------------
(* handle_remote_control: one restart or update at a time *)

RestartOrdered ==
    /\ agent = "up" /\ ~lifecycle
    /\ lifecycle' = TRUE /\ ordered' = TRUE
    /\ Writes([jobs |-> 0, draining |-> FALSE])
    /\ UNCHANGED <<process, binary, jobs, sticky, request, rewriting, pc, kept,
                   killed, faults>>

\* The restart gives up the jobs, for the cloud has asked for it; it may fail.
RestartCarriedOut ==
    /\ agent = "up" /\ ordered
    /\ \/ Ends /\ UNCHANGED <<report, steady, faults>>
       \/ /\ Fault /\ lifecycle' = FALSE /\ ordered' = FALSE
          /\ Writes([jobs |-> 0, draining |-> FALSE])
          /\ UNCHANGED <<agent, jobs, sticky, rewriting>>
    /\ UNCHANGED <<running, binary, request, pc, kept, killed>>

UpdateOrdered ==
    /\ agent = "up" /\ ~lifecycle /\ running # "new"
    /\ lifecycle' = TRUE
    /\ Goto(Remote, "download")
    /\ UNCHANGED <<process, binary, jobs, sticky, request, files, ordered, kept,
                   killed, faults>>

\* A process of its own needs no permission; it updates an old file.
UpdateStarted(u) ==
    /\ u \in Outside /\ pc[u] = "idle" /\ binary = "old"
    /\ Goto(u, "download")
    /\ UNCHANGED <<process, binary, jobs, sticky, request, files, control, kept,
                   killed, faults>>

-----------------------------------------------------------------------------
(* install_latest_update and wait_until_safe_to_apply *)

\* No trace of an earlier drain is left in agent-state.json or on its way there.
Afresh == ~report.draining /\ ~rewriting.draining

\* begin_update_drain
BeginDrain(u) ==
    /\ pc[u] = "download"
    /\ request' = TRUE
    /\ sticky' = (sticky \/ u = Remote)
    /\ kept' = IF Afresh THEN kept \cup {u} ELSE kept \ {u}
    /\ Goto(u, "poll")
    /\ UNCHANGED <<process, binary, jobs, files, control, killed, faults>>

\* end_update_drain clears the flag of the updater's own process.
LiftsDrain(u) ==
    request' = FALSE /\ sticky' = (sticky /\ u # Remote) /\ kept' = {}

\* (mutant) only an update that succeeds gives the control back.
Fails_KeepsControl(u) ==
    /\ IF u = Remote THEN LiftsDrain(u) ELSE UNCHANGED <<request, sticky, kept>>
    /\ UNCHANGED lifecycle
    /\ Goto(u, "idle")

\* An update that fails gives the lifecycle control back, and a remote one
\* lifts its drain whatever it has come to.
Fails(u) ==
    /\ IF u = Remote THEN LiftsDrain(u) ELSE UNCHANGED <<request, sticky, kept>>
    /\ lifecycle' = (lifecycle /\ u # Remote)
    /\ Goto(u, "idle")

DownloadFails(u) ==
    /\ pc[u] = "download" /\ Fault /\ Fails(u)
    /\ UNCHANGED <<process, binary, jobs, files, ordered, killed>>

\* observed_active_jobs
PollJobs(u) ==
    /\ pc[u] = "poll"
    /\ report.jobs = 0 /\ (u = Remote => count = 0)
    /\ steady' = steady \cup ({u} \cap Outside)
    /\ Goto(u, "ack")
    /\ UNCHANGED <<process, binary, jobs, sticky, request, report, rewriting,
                   control, kept, killed, faults>>

\* agent_has_acked_drain
PollAck(u) ==
    /\ pc[u] = "ack"
    /\ Goto(u, IF u = Remote \/ report.draining \/ agent = "down" THEN "busy"
                                                                 ELSE "poll")
    /\ UNCHANGED <<process, binary, jobs, sticky, request, files, control, kept,
                   killed, faults>>

\* status_looks_busy
PollBusy(u) ==
    /\ pc[u] = "busy"
    /\ Goto(u, IF report.jobs = 0 THEN "safe" ELSE "poll")
    /\ UNCHANGED <<process, binary, jobs, sticky, request, files, control, kept,
                   killed, faults>>

\* After two hours the drain is lifted and the update fails.
TimeOut(u) ==
    /\ pc[u] = "poll"
    /\ LiftsDrain(u)
    /\ lifecycle' = (lifecycle /\ u # Remote)
    /\ Goto(u, "idle")
    /\ UNCHANGED <<process, binary, jobs, files, ordered, killed, faults>>

\* The drain is lifted before the update is applied.
EndDrain(u) ==
    /\ pc[u] = "safe"
    /\ LiftsDrain(u)
    /\ Goto(u, IF u = Remote THEN "replace" ELSE "stop")
    /\ UNCHANGED <<process, binary, jobs, files, control, killed, faults>>

\* The service is stopped, whatever it is doing.
Stop(u) ==
    /\ pc[u] \in {"stop", "stopAgain"}
    /\ killed' = (killed \/ count > 0)
    /\ Ends
    /\ pc' = [pc EXCEPT ![u] = IF @ = "stop" THEN "install" ELSE "replace",
                        ![Remote] = "idle"]
    /\ UNCHANGED <<running, binary, request, report, steady, kept, faults>>

\* try_external_updater: scalattice-updater copies over the file in place (the
\* system refuses while the file is being executed; then NoUpdater stands for it).
CopyBegins(u) ==
    /\ pc[u] = "install"
    /\ binary' = "partial"
    /\ Goto(u, "copying")
    /\ UNCHANGED <<process, jobs, sticky, request, files, control, kept, killed,
                   faults>>

CopyEnds(u) ==
    /\ pc[u] = "copying"
    /\ \/ binary' = "new" /\ Goto(u, "restart") /\ UNCHANGED faults
       \/ Fault /\ Goto(u, "stopAgain") /\ UNCHANGED binary
    /\ UNCHANGED <<process, jobs, sticky, request, files, control, kept, killed>>

\* No updater is installed, or it fails before it copies.
NoUpdater(u) ==
    /\ pc[u] = "install"
    /\ Goto(u, "stopAgain")
    /\ UNCHANGED <<process, binary, jobs, sticky, request, files, control, kept,
                   killed, faults>>

\* replace_unix_binary: a new file is renamed over the old one.
Replace(u) ==
    /\ pc[u] = "replace"
    /\ binary' = "new"
    /\ Goto(u, "restart")
    /\ UNCHANGED <<process, jobs, sticky, request, files, control, kept, killed,
                   faults>>

ReplaceFails(u) ==
    /\ pc[u] = "replace" /\ Fault /\ Fails(u)
    /\ UNCHANGED <<process, binary, jobs, files, ordered, killed>>

\* systemctl restart ends the agent, and Watchdog stands for systemd starting it
\* again; a remote update first tells the cloud.
Restart(u) ==
    /\ pc[u] = "restart"
    /\ killed' = (killed \/ count > 0)
    /\ Ends
    /\ pc' = [pc EXCEPT ![u] = "idle", ![Remote] = "idle"]
    /\ UNCHANGED <<running, binary, request, report, steady, kept, faults>>

\* The updater's process is killed, or interrupted at the terminal.
UpdaterDies(u) ==
    /\ u \in Outside /\ pc[u] # "idle" /\ Fault
    /\ Goto(u, "idle")
    /\ UNCHANGED <<process, binary, jobs, sticky, request, files, control, kept,
                   killed>>
-----------------------------------------------------------------------------
(* The specification *)

AgentStep ==
    \/ AdmitCheck \/ AdmitCount \/ CountFalls \/ Adopt \/ Persist \/ Disconnect
    \/ RewriteRead \/ RewriteWrite \/ Crash
    \/ RestartOrdered \/ UpdateOrdered

Wait(u) == BeginDrain(u) \/ PollJobs(u) \/ PollAck(u) \/ PollBusy(u) \/ EndDrain(u)

Apply(u) ==
    \/ Stop(u) \/ CopyBegins(u) \/ CopyEnds(u) \/ NoUpdater(u)
    \/ Replace(u) \/ Restart(u)

Next ==
    \/ AgentStep \/ RestartCarriedOut \/ Watchdog
    \/ \E u \in Updater :
          \/ Wait(u) \/ Apply(u) \/ TimeOut(u)
          \/ DownloadFails(u) \/ ReplaceFails(u)
    \/ \E u \in Outside : UpdateStarted(u) \/ UpdaterDies(u)

Spec == Init /\ [][Next]_vars

\* systemd and the watchdog timer run, an updater goes on until it has ended,
\* and the two hours of its wait pass; jobs and reports are owed by nobody.
FairSpec ==
    /\ Spec
    /\ WF_vars(Watchdog) /\ WF_vars(RestartCarriedOut)
    /\ \A u \in Updater : WF_vars(Wait(u) \/ Apply(u)) /\ SF_vars(TimeOut(u))

-----------------------------------------------------------------------------
(* Properties *)

\* The handshake over the two files: when a drain is found safe by an outside
\* updater whose request has stood since it made it, and whose three reads saw
\* one report, no job is counted and none is being admitted, whatever else has
\* written the report in between.
SafeMeansIdle ==
    \A u \in steady \cap kept : pc[u] = "safe" => count = 0 /\ ~admitting

\* An accepted remote restart or update gives the control back, or the process
\* is replaced: the dashboard is not told "already in progress" forever.
ControlComesBack == lifecycle ~> ~lifecycle

\* A stopped agent comes back even when its updater dies half way, unless it
\* dies inside the copy in place.
AgentComesBack == agent = "down" ~> (agent = "up" \/ binary = "partial")

\* "Does not cancel work: better to delay the update than abandon a paid job"
\* (wait_until_safe_to_apply).
UpdateSparesJobs == ~killed
=============================================================================
