-------------------------- MODULE UpdateDrainProofs --------------------------
(***************************************************************************)
(* What UpdateDrain promises, for any set of updaters outside the agent,   *)
(* any number of jobs and any number of faults.  The drain is a handshake  *)
(* over two files, and what makes it sound is not in any one of its steps: *)
(* Handshake says what a report that mentions a drain, or a copy of it on  *)
(* its way back to the file, is worth while a request stands.              *)
(***************************************************************************)
EXTENDS UpdateDrain, TLAPS

-----------------------------------------------------------------------------
(* The invariant *)

\* The bounds, with room for the job that is being admitted.
Numbers ==
    /\ count \in 0..MaxJobs /\ faults \in 0..MaxFaults
    /\ admitting => count < MaxJobs

Shapes ==
    /\ agent \in {"up", "down"} /\ binary \in {"old", "new", "partial"}
    /\ running \in {"old", "new"}
    /\ admitting \in BOOLEAN /\ sticky \in BOOLEAN /\ request \in BOOLEAN
    /\ lifecycle \in BOOLEAN /\ ordered \in BOOLEAN /\ killed \in BOOLEAN
    /\ report \in Report /\ rewriting \in Report
    /\ pc \in [Updater -> Step]
    /\ kept \subseteq Updater /\ steady \subseteq Outside

Typed == Numbers /\ Shapes

\* An agent that is down has no job.
DeadIsIdle == agent = "down" => count = 0 /\ ~admitting

\* A report that mentions the drain was made when nobody was being admitted, and
\* no job was counted since.
Bounds(r) == r.draining => ~admitting /\ count <= r.jobs

\* A request that stands keeps every job out.
Handshake ==
    kept # {} => request /\ Bounds(report) /\ Bounds(rewriting)

\* What an updater has seen at its first read it still would.
SteadyIsZero == steady # {} => report.jobs = 0

\* The second read settles the matter.
AckedIsIdle ==
    \A u \in steady \cap kept :
        pc[u] \in {"busy", "safe"} => count = 0 /\ ~admitting

Inv == Typed /\ DeadIsIdle /\ Handshake /\ SteadyIsZero /\ AckedIsIdle
-----------------------------------------------------------------------------
(* Types *)

LEMMA FaultBounded == Numbers /\ Fault => faults' \in 0..MaxFaults
  BY UpdateAssumption DEF Numbers, Fault

LEMMA NothingReported == NoReport \in Report
  BY UpdateAssumption DEF NoReport, Report

LEMMA TypedIsTypeOK == Typed => TypeOK
  BY NothingReported DEF Typed, Numbers, Shapes, TypeOK

LEMMA TypedNext == Typed /\ [Next]_vars => Typed'
<1> SUFFICES ASSUME Typed, [Next]_vars
             PROVE  Typed'
  OBVIOUS
<1> USE UpdateAssumption, FaultBounded, NothingReported DEF Typed, Updater, Step
<1>1. CASE AdmitCheck
  BY <1>1 DEF AdmitCheck, Unlocked, Draining, process, files, control,
       Numbers, Shapes
<1>2. CASE AdmitCount
  <2>1. Numbers'
    BY <1>2 DEF AdmitCount, process, files, control, Numbers
  <2>2. Shapes'
    BY <1>2, <2>1 DEF AdmitCount, process, files, control, Shapes
  <2> QED
    BY <2>1, <2>2
<1>3. CASE CountFalls
  BY <1>3 DEF CountFalls, Unlocked, process, files, control, Numbers, Shapes
<1>4. CASE Adopt
  BY <1>4 DEF Adopt, process, jobs, files, control, Numbers, Shapes
<1>5. CASE Persist
  BY <1>5 DEF Persist, Unlocked, Draining, Writes, process, jobs, control,
       Report, Numbers, Shapes
<1>6. CASE Disconnect
  BY <1>6 DEF Disconnect, Unlocked, Writes, process, jobs, control, Report,
       Numbers, Shapes
<1>7. CASE RewriteRead
  BY <1>7 DEF RewriteRead, process, jobs, control, Numbers, Shapes
<1>8. CASE RewriteWrite
  BY <1>8 DEF RewriteWrite, Writes, process, jobs, control, Report, Numbers,
       Shapes
<1>9. CASE Crash
  <2>1. Numbers'
    BY <1>9 DEF Crash, Goto, Ends, jobs, Numbers
  <2>2. Shapes'
    BY <1>9, <2>1 DEF Crash, Goto, Ends, jobs, Shapes
  <2> QED
    BY <2>1, <2>2
<1>10. CASE RestartOrdered
  BY <1>10 DEF RestartOrdered, Writes, process, jobs, Report, Numbers, Shapes
<1>11. CASE UpdateOrdered
  BY <1>11 DEF UpdateOrdered, Goto, process, jobs, files, Numbers, Shapes
<1>12. CASE RestartCarriedOut
  <2>1. Numbers'
    BY <1>12 DEF RestartCarriedOut, Ends, jobs, Numbers
  <2>2. UNCHANGED <<running, binary, request, pc, kept, killed>>
    BY <1>12 DEF RestartCarriedOut
  <2>3. CASE Ends /\ UNCHANGED <<report, steady>>
    BY <2>1, <2>2, <2>3 DEF Ends, jobs, Shapes
  <2>4. CASE /\ lifecycle' = FALSE /\ ordered' = FALSE
             /\ Writes([jobs |-> 0, draining |-> FALSE])
             /\ UNCHANGED <<agent, jobs, sticky, rewriting>>
    <3>1. [jobs |-> 0, draining |-> FALSE] \in Report
      BY DEF Report
    <3>2. report' \in Report /\ steady' \subseteq Outside
      BY <2>4, <3>1 DEF Writes, Shapes
    <3> QED
      BY <2>1, <2>2, <2>4, <3>2 DEF jobs, Shapes
  <2> QED
    BY <1>12, <2>3, <2>4 DEF RestartCarriedOut
<1>13. CASE Watchdog
  BY <1>13 DEF Watchdog, jobs, files, control, Numbers, Shapes
<1>14. ASSUME NEW u \in Updater, BeginDrain(u)
      PROVE  Typed'
  BY <1>14 DEF BeginDrain, Goto, Afresh, process, jobs, files, control,
       Numbers, Shapes
<1>15. ASSUME NEW u \in Updater, PollJobs(u)
      PROVE  Typed'
  BY <1>15 DEF PollJobs, Goto, process, jobs, control, Numbers, Shapes
<1>16. ASSUME NEW u \in Updater, PollAck(u)
      PROVE  Typed'
  BY <1>16 DEF PollAck, Goto, process, jobs, files, control, Numbers, Shapes
<1>17. ASSUME NEW u \in Updater, PollBusy(u)
      PROVE  Typed'
  BY <1>17 DEF PollBusy, Goto, process, jobs, files, control, Numbers, Shapes
<1>18. ASSUME NEW u \in Updater, EndDrain(u)
      PROVE  Typed'
  BY <1>18 DEF EndDrain, Goto, LiftsDrain, process, jobs, files, control,
       Numbers, Shapes
<1>19. ASSUME NEW u \in Updater, Stop(u)
      PROVE  Typed'
  <2>1. Numbers'
    BY <1>19 DEF Stop, Ends, jobs, Numbers
  <2>2. Shapes'
    BY <1>19, <2>1 DEF Stop, Ends, jobs, Shapes
  <2> QED
    BY <2>1, <2>2
<1>20. ASSUME NEW u \in Updater, CopyBegins(u)
      PROVE  Typed'
  BY <1>20 DEF CopyBegins, Goto, process, jobs, files, control, Numbers,
       Shapes
<1>21. ASSUME NEW u \in Updater, CopyEnds(u)
      PROVE  Typed'
  BY <1>21 DEF CopyEnds, Goto, process, jobs, files, control, Numbers, Shapes
<1>22. ASSUME NEW u \in Updater, NoUpdater(u)
      PROVE  Typed'
  BY <1>22 DEF NoUpdater, Goto, process, jobs, files, control, Numbers, Shapes
<1>23. ASSUME NEW u \in Updater, Replace(u)
      PROVE  Typed'
  BY <1>23 DEF Replace, Goto, process, jobs, files, control, Numbers, Shapes
<1>24. ASSUME NEW u \in Updater, Restart(u)
      PROVE  Typed'
  <2>1. Numbers'
    BY <1>24 DEF Restart, Ends, jobs, Numbers
  <2>2. Shapes'
    BY <1>24, <2>1 DEF Restart, Ends, jobs, Shapes
  <2> QED
    BY <2>1, <2>2
<1>25. ASSUME NEW u \in Updater, TimeOut(u)
      PROVE  Typed'
  BY <1>25 DEF TimeOut, Goto, LiftsDrain, process, jobs, files, Numbers,
       Shapes
<1>26. ASSUME NEW u \in Updater, DownloadFails(u)
      PROVE  Typed'
  BY <1>26 DEF DownloadFails, Goto, LiftsDrain, Fails, process, jobs, files,
       Numbers, Shapes
<1>27. ASSUME NEW u \in Updater, ReplaceFails(u)
      PROVE  Typed'
  BY <1>27 DEF ReplaceFails, Goto, LiftsDrain, Fails, process, jobs, files,
       Numbers, Shapes
<1>28. ASSUME NEW u \in Outside, UpdateStarted(u)
      PROVE  Typed'
  BY <1>28 DEF UpdateStarted, Goto, process, jobs, files, control, Numbers,
       Shapes
<1>29. ASSUME NEW u \in Outside, UpdaterDies(u)
      PROVE  Typed'
  BY <1>29 DEF UpdaterDies, Goto, process, jobs, files, control, Numbers,
       Shapes
<1>30. CASE UNCHANGED vars
  BY <1>30 DEF vars, process, jobs, files, control, Numbers, Shapes
<1> QED
  BY <1>1, <1>2, <1>3, <1>4, <1>5, <1>6, <1>7, <1>8, <1>9, <1>10, <1>11,
       <1>12, <1>13, <1>14, <1>15, <1>16, <1>17, <1>18, <1>19, <1>20, <1>21,
       <1>22, <1>23, <1>24, <1>25, <1>26, <1>27, <1>28, <1>29, <1>30
     DEF Next, AgentStep, Wait, Apply

-----------------------------------------------------------------------------
(* The handshake *)

Waits == DeadIsIdle /\ Handshake /\ SteadyIsZero /\ AckedIsIdle

\* The one step of Inv that is not about types: every action keeps the handshake.
LEMMA WaitsNext == Inv /\ [Next]_vars => Waits'
<1> SUFFICES ASSUME Inv, [Next]_vars
             PROVE  Waits'
  BY DEF Waits
<1> USE DEF Inv, Typed, Waits, DeadIsIdle, Handshake, Bounds, SteadyIsZero,
            AckedIsIdle
\* No request stands, so no updater is waiting for one.
<1>1. CASE AdmitCheck
  BY <1>1, UpdateAssumption DEF AdmitCheck, Unlocked, Draining, process,
       files, control, Numbers, Shapes, Report
\* A report that mentions the drain was not made while this job was admitted.
<1>2. CASE AdmitCount
  BY <1>2, UpdateAssumption DEF AdmitCount, process, files, control, Numbers,
       Shapes, Report
<1>3. CASE CountFalls
  BY <1>3, UpdateAssumption DEF CountFalls, Unlocked, process, files, control,
       Numbers, Shapes, Report
<1>4. CASE Adopt
  BY <1>4, UpdateAssumption DEF Adopt, process, jobs, files, control, Numbers,
       Shapes, Report
\* The session lock is held: the report tells how many jobs there are, and none
\* is about to join them.
<1>5. CASE Persist
  BY <1>5, UpdateAssumption DEF Persist, Unlocked, Draining, Writes, process,
       jobs, control, Numbers, Shapes, Report
<1>6. CASE Disconnect
  BY <1>6, UpdateAssumption DEF Disconnect, Unlocked, Writes, process, jobs,
       control, Numbers, Shapes, Report
<1>7. CASE RewriteRead
  BY <1>7, UpdateAssumption DEF RewriteRead, NoReport, process, jobs, control,
       Numbers, Shapes, Report
\* What comes back is an older report, and what it bounds it bounds still.
<1>8. CASE RewriteWrite
  BY <1>8, UpdateAssumption DEF RewriteWrite, Writes, NoReport, process, jobs,
       control, Numbers, Shapes, Report
<1>9. CASE Crash
  BY <1>9, UpdateAssumption DEF Crash, Goto, Ends, NoReport, jobs, Numbers,
       Shapes, Report
<1>10. CASE RestartOrdered
  BY <1>10, UpdateAssumption DEF RestartOrdered, Writes, process, jobs,
       Numbers, Shapes, Report
<1>11. CASE UpdateOrdered
  BY <1>11, UpdateAssumption DEF UpdateOrdered, Goto, process, jobs, files,
       Numbers, Shapes, Report
<1>12. CASE RestartCarriedOut
  BY <1>12, UpdateAssumption DEF RestartCarriedOut, Writes, Ends, NoReport,
       jobs, Numbers, Shapes, Report
<1>13. CASE Watchdog
  BY <1>13, UpdateAssumption DEF Watchdog, jobs, files, control, Numbers,
       Shapes, Report
\* Neither the report nor a copy of it mentions an earlier drain.
<1>14. ASSUME NEW u \in Updater, BeginDrain(u)
      PROVE  Waits'
  BY <1>14, UpdateAssumption DEF BeginDrain, Goto, Afresh, process, jobs,
       files, control, Numbers, Shapes, Report, Updater
\* The updater that begins to look is not past its second read.
<1>15. ASSUME NEW u \in Updater, PollJobs(u)
      PROVE  Waits'
  BY <1>15, UpdateAssumption DEF PollJobs, Goto, process, jobs, control,
       Numbers, Shapes, Report, Updater
\* The agent is down and has no job, or its report mentions the drain and no job.
<1>16. ASSUME NEW u \in Updater, PollAck(u)
      PROVE  Waits'
  BY <1>16, UpdateAssumption DEF PollAck, Goto, process, jobs, files, control,
       Numbers, Shapes, Report, Updater
<1>17. ASSUME NEW u \in Updater, PollBusy(u)
      PROVE  Waits'
  BY <1>17, UpdateAssumption DEF PollBusy, Goto, process, jobs, files,
       control, Numbers, Shapes, Report, Updater
<1>18. ASSUME NEW u \in Updater, EndDrain(u)
      PROVE  Waits'
  BY <1>18, UpdateAssumption DEF EndDrain, Goto, LiftsDrain, process, jobs,
       files, control, Numbers, Shapes, Report, Updater
<1>19. ASSUME NEW u \in Updater, Stop(u)
      PROVE  Waits'
  BY <1>19, UpdateAssumption DEF Stop, Ends, NoReport, jobs, Numbers, Shapes,
       Report,
       Updater
<1>20. ASSUME NEW u \in Updater, CopyBegins(u)
      PROVE  Waits'
  BY <1>20, UpdateAssumption DEF CopyBegins, Goto, process, jobs, files,
       control, Numbers, Shapes, Report, Updater
<1>21. ASSUME NEW u \in Updater, CopyEnds(u)
      PROVE  Waits'
  BY <1>21, UpdateAssumption DEF CopyEnds, Goto, process, jobs, files,
       control, Numbers, Shapes, Report, Updater
<1>22. ASSUME NEW u \in Updater, NoUpdater(u)
      PROVE  Waits'
  BY <1>22, UpdateAssumption DEF NoUpdater, Goto, process, jobs, files,
       control, Numbers, Shapes, Report, Updater
<1>23. ASSUME NEW u \in Updater, Replace(u)
      PROVE  Waits'
  BY <1>23, UpdateAssumption DEF Replace, Goto, process, jobs, files, control,
       Numbers, Shapes, Report, Updater
<1>24. ASSUME NEW u \in Updater, Restart(u)
      PROVE  Waits'
  BY <1>24, UpdateAssumption DEF Restart, Ends, NoReport, jobs, Numbers,
       Shapes, Report, Updater
<1>25. ASSUME NEW u \in Updater, TimeOut(u)
      PROVE  Waits'
  BY <1>25, UpdateAssumption DEF TimeOut, Goto, LiftsDrain, process, jobs,
       files, Numbers, Shapes, Report, Updater
<1>26. ASSUME NEW u \in Updater, DownloadFails(u)
      PROVE  Waits'
  BY <1>26, UpdateAssumption DEF DownloadFails, Goto, LiftsDrain, Fails,
       process, jobs, files, Numbers, Shapes, Report, Updater
<1>27. ASSUME NEW u \in Updater, ReplaceFails(u)
      PROVE  Waits'
  BY <1>27, UpdateAssumption DEF ReplaceFails, Goto, LiftsDrain, Fails,
       process, jobs, files, Numbers, Shapes, Report, Updater
<1>28. ASSUME NEW u \in Outside, UpdateStarted(u)
      PROVE  Waits'
  BY <1>28, UpdateAssumption DEF UpdateStarted, Goto, process, jobs, files,
       control, Numbers, Shapes, Report, Updater
<1>29. ASSUME NEW u \in Outside, UpdaterDies(u)
      PROVE  Waits'
  BY <1>29, UpdateAssumption DEF UpdaterDies, Goto, process, jobs, files,
       control, Numbers, Shapes, Report, Updater
<1>30. CASE UNCHANGED vars
  BY <1>30 DEF vars, process, jobs, files, control
<1> QED
  BY <1>1, <1>2, <1>3, <1>4, <1>5, <1>6, <1>7, <1>8, <1>9, <1>10, <1>11,
       <1>12, <1>13, <1>14, <1>15, <1>16, <1>17, <1>18, <1>19, <1>20, <1>21,
       <1>22, <1>23, <1>24, <1>25, <1>26, <1>27, <1>28, <1>29, <1>30
     DEF Next, AgentStep, Wait, Apply

-----------------------------------------------------------------------------
(* The theorems *)

LEMMA InitInv == Init => Inv
<1> SUFFICES ASSUME Init
             PROVE  Inv
  OBVIOUS
<1>1. Numbers
  BY UpdateAssumption DEF Init, Numbers
<1>2. [jobs |-> 0, draining |-> FALSE] \in Report
  BY UpdateAssumption DEF Report
<1>3. Shapes
  BY <1>2, NothingReported DEF Init, Shapes, Step
<1> QED
  BY <1>1, <1>3 DEF Init, Inv, Typed, NoReport, DeadIsIdle, Bounds, Handshake,
       SteadyIsZero, AckedIsIdle

LEMMA NextInv == Inv /\ [Next]_vars => Inv'
  BY TypedNext, WaitsNext DEF Inv, Waits

\* The count of jobs and the count in a report stay within bounds whoever
\* writes the report, and an updater is always at a step of
\* install_latest_update.
THEOREM TypeCorrect == Spec => []TypeOK
<1>1. Init => Typed
  BY InitInv DEF Inv
<1> QED
  BY <1>1, TypedNext, TypedIsTypeOK, PTL DEF Spec

\* wait_until_safe_to_apply is right about the agent, however many updaters wait
\* at a time and whatever else writes agent-state.json: an outside updater whose
\* request has stood and whose three reads saw one report finds no job counted
\* and none being admitted.
THEOREM SafeToApply == Spec => []SafeMeansIdle
<1>1. Inv => SafeMeansIdle
  BY DEF Inv, AckedIsIdle, SafeMeansIdle
<1> QED
  BY <1>1, InitInv, NextInv, PTL DEF Spec
=============================================================================
