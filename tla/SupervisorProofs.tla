-------------------------- MODULE SupervisorProofs --------------------------
(***************************************************************************)
(* Two parts of the compute supervisor: the walls, the keepalives and the  *)
(* silence of RpcWatchdog, for every choice of limits that keeps the order *)
(* the source insists on; and the mutexes of LockOrder, which never lock   *)
(* the tasks up, however many there are, as long as none runs the first    *)
(* block of reconcile_slots.  The order behind it: the mmap gate before    *)
(* `workers`, `workers` before the others, and a task that has one of the  *)
(* others lets it go before it awaits anything.                            *)
(***************************************************************************)
EXTENDS RpcWatchdog, LockOrder, TLAPS

-----------------------------------------------------------------------------
(* The inductive invariant *)

InLoop == pc \in {"top", "wait"}

\* What is awaited is what the phase last read allows.
SilenceOfPhase == silence = Silence(phase)

\* The clocks of the loop: what they were last set for, and in which order.
ClocksAgree ==
    InLoop => /\ heard.since = phaseAt
              /\ keepAt \in {startedAt, heard.cloud}
              /\ progressAt <= keepAt /\ keepAt <= clock

\* A line that is not noise and has not been read yet is in the pipe to its
\* end; all others are no later than the last progress.
Unread == pipe.kind \in {"progress", "delta", "result", "error"}

NothingLost ==
    /\ pc = "write" => pipe = NoLine /\ heard.spoke = 0
    /\ InLoop => heard.spoke <= progressAt \/ (Unread /\ whole)
    /\ heard.spoke <= clock

\* A worker killed for silence had been silent.
KillStands ==
    heard.killed = "silence" =>
        pc = "done" /\ clock - progressAt >= silence /\ heard.spoke <= progressAt

CloudInTime == InLoop => clock - keepAt <= StallTimer

-----------------------------------------------------------------------------
(* Limits *)

\* The limits of every phase are numbers, and a phase without keepalives is
\* never silent for longer than the router waits.
LEMMA Limits ==
    ASSUME NEW p \in Phases
    PROVE  /\ Silence(p) \in Nat \ {0} /\ Wall(p) \in Nat
           /\ ~SendsKeepalive(p) => Silence(p) <= StallTimer
BY WatchdogAssumption, StallAssumption DEF Silence, Wall, SendsKeepalive, Cold, Phases

LEMMA Bounds ==
    /\ DecodeSilence \in Nat \ {0} /\ LongSilence \in Nat \ {0} /\ LoadWall \in Nat
    /\ FirstTokenHop \in Nat /\ DecodeWall \in Nat /\ Deadline \in Nat
    /\ StallTimer \in Nat \ {0} /\ MaxStall \in Nat /\ MaxTalk \in Nat
BY WatchdogAssumption, StallAssumption

-----------------------------------------------------------------------------
(* Types *)

LEMMA InitTypes == Init => TypeOK
BY Limits DEF Init, TypeOK, Lines, Heard, Phases, Cold

LEMMA NextTypes == TypeOK /\ [Next]_vars => TypeOK'
<1> SUFFICES ASSUME TypeOK, [Next]_vars
             PROVE  TypeOK'
  OBVIOUS
<1> USE DEF TypeOK
<1>0. pipe \in Lines => pipe.phase \in Phases /\ pipe.kind \in {"progress", "delta", "result", "error", "noise"}
  BY DEF Lines, Phases
<1>1. CASE WriteRequest
  BY <1>1 DEF WriteRequest, End, watch, Heard
<1>2. CASE LoopTop
  BY <1>2 DEF LoopTop, Kill, End, LimitCode, watch, Heard
<1>3. CASE ReadLine
  <2>1. pipe \in Lines
    BY <1>3 DEF ReadLine
  <2>2. CASE pipe.kind \in {"progress", "delta"} /\ Progressed(pipe.phase)
    <3>1. Silence(pipe.phase) \in Nat
      BY <1>0, <2>1, Limits
    <3>2. heard' \in Heard
      BY <2>2 DEF Progressed, Heard
    <3> QED
      BY <1>0, <1>3, <2>1, <2>2, <3>1, <3>2 DEF ReadLine, Progressed, End
  <2>3. CASE UNCHANGED <<watch, heard>>
    BY <1>3, <2>3 DEF ReadLine, End, watch
  <2> QED
    BY <1>3, <2>2, <2>3 DEF ReadLine
<1>4. CASE ReadEof
  BY <1>4 DEF ReadEof, End, watch
<1>5. CASE Sleep
  BY <1>5 DEF Sleep, Kill, End, LimitCode, Heard
<1>6. CASE Tick
  BY <1>6 DEF Tick, watch
<1>7. CASE Works
  <2>1. ASSUME NEW line \in Lines, Writes(line)
        PROVE  pipe' \in Lines /\ said' \in Nat /\ heard' \in Heard /\ whole' \in BOOLEAN
    BY <2>1 DEF Writes, Heard
  <2>2. pipe' \in Lines /\ said' \in Nat /\ heard' \in Heard /\ whole' \in BOOLEAN
    <3>1. \A p \in After(worker) : worker \in Phases => p \in Phases
      BY DEF After, Phases, Cold
    <3>2. \A p \in Phases : [kind |-> "progress", phase |-> p] \in Lines
      BY DEF Lines
    <3>3. \A k \in {"delta", "result", "error", "noise"} : [kind |-> k, phase |-> "decode"] \in Lines
      BY DEF Lines
    <3> QED
      BY <1>7, <2>1, <3>1, <3>2, <3>3 DEF Works
  <2>3. worker' \in Phases \cup {"gone", "answered"}
    BY <1>7 DEF Works, After, Phases, Cold
  <2> QED
    BY <1>7, <2>2, <2>3 DEF Works, watch
<1>8. CASE EndsLine
  BY <1>8 DEF EndsLine, watch
<1>9. CASE Dies
  BY <1>9 DEF Dies, watch
<1>10. CASE WriteStalls
  BY <1>10 DEF WriteStalls, watch
<1>11. CASE Cancel
  BY <1>11 DEF Cancel, End, watch
<1>12. CASE UNCHANGED vars
  BY <1>12 DEF vars, watch
<1> QED
  BY <1>1, <1>2, <1>3, <1>4, <1>5, <1>6, <1>7, <1>8, <1>9, <1>10, <1>11, <1>12
  DEF Next, Supervise

\* Each variable of the watchdog keeps its type (worker_rpc_invoke_cancellable).
THEOREM TypeCorrect == Spec => []TypeOK
BY InitTypes, NextTypes, PTL DEF Spec

-----------------------------------------------------------------------------
(* Walls and keepalives *)

Timed == SilenceOfPhase /\ ClocksAgree /\ WallsHold /\ CloudInTime

LEMMA InitTimed == Init => Timed
BY DEF Init, Timed, SilenceOfPhase, ClocksAgree, WallsHold, CloudInTime, InLoop

\* A tick comes when nothing is due, so no limit is more than reached.
LEMMA TickInTime ==
    ASSUME TypeOK, Timed, Tick
    PROVE  Timed'
<1> USE DEF TypeOK, Timed
<1>1. /\ clock' = clock + 1 /\ clock \in Nat /\ pc = "wait" /\ pc' = "wait"
      /\ UNCHANGED <<startedAt, phase, phaseAt, silence, progressAt, keepAt, heard>>
  BY DEF Tick, watch
<1>2. Silence(phase) \in Nat /\ Wall(phase) \in Nat
  BY Limits
<1>3. SilenceOfPhase' /\ ClocksAgree'
  BY <1>1 DEF SilenceOfPhase, ClocksAgree, InLoop
<1>4. WallsHold'
  BY <1>1, <1>2, Bounds DEF Tick, Overdue, ClocksAgree, WallsHold, InLoop
<1>5. clock + 1 - keepAt <= StallTimer
  <2>1. progressAt <= keepAt /\ silence = Silence(phase)
    BY <1>1 DEF ClocksAgree, SilenceOfPhase, InLoop
  <2>2. clock - progressAt < silence
    BY <1>1, <1>2, <2>1 DEF Tick, Silent
  <2>3. CASE SendsKeepalive(phase)
    BY <1>1, <2>2, <2>3, Bounds DEF Tick, Silent, KeepaliveDue, Keepalive
  <2>4. CASE ~SendsKeepalive(phase)
    BY <1>1, <1>2, <2>1, <2>2, <2>4, Limits, Bounds
  <2> QED
    BY <2>3, <2>4
<1> QED
  BY <1>1, <1>3, <1>4, <1>5 DEF CloudInTime, InLoop

LEMMA NextTimed == TypeOK /\ Timed /\ [Next]_vars => Timed'
<1> SUFFICES ASSUME TypeOK, Timed, [Next]_vars
             PROVE  Timed'
  OBVIOUS
<1> USE DEF Timed, SilenceOfPhase, ClocksAgree, WallsHold, CloudInTime, InLoop
<1>0. clock \in Nat /\ Wall(phase) \in Nat /\ startedAt \in Nat /\ phaseAt \in Nat
  BY Limits DEF TypeOK
<1>1. CASE WriteRequest
  BY <1>0, <1>1, Bounds DEF TypeOK, WriteRequest, End, watch, Heard
<1>2. CASE LoopTop
  BY <1>2 DEF LoopTop, Kill, End, watch
<1>3. CASE ReadLine
  <2>1. CASE Progressed(pipe.phase)
    <3>1. pipe.phase \in Phases
      BY <1>3 DEF TypeOK, ReadLine, Lines, Phases
    <3>2. Wall(pipe.phase) \in Nat
      BY <3>1, Limits
    <3>3. /\ phase' = pipe.phase /\ silence' = Silence(pipe.phase)
          /\ keepAt' = clock /\ progressAt' = clock
          /\ UNCHANGED <<clock, startedAt>>
          /\ heard'.cloud = clock
          /\ heard'.since = IF pipe.phase # phase THEN clock ELSE heard.since
          /\ phaseAt' = IF pipe.phase # phase THEN clock ELSE phaseAt
      BY <1>3, <2>1 DEF TypeOK, Heard, Progressed, ReadLine
    <3>4. clock - heard.since <= Wall(phase) /\ heard.since = phaseAt /\ clock - startedAt <= Deadline
      BY <1>3 DEF ReadLine
    <3> QED
      BY <1>0, <3>2, <3>3, <3>4, Bounds
  <2>2. CASE UNCHANGED <<watch, heard>>
    BY <1>3, <2>2 DEF ReadLine, End, watch
  <2> QED
    BY <1>3, <2>1, <2>2 DEF ReadLine
<1>4. CASE ReadEof
  BY <1>4 DEF ReadEof, End, watch
<1>5. CASE Sleep
  <2>1. CASE Silent
    BY <1>5, <2>1 DEF Sleep, Kill, End
  <2>2. CASE ~Silent
    BY <1>0, <1>5, <2>2, Bounds DEF Sleep, TypeOK, Heard
  <2> QED
    BY <2>1, <2>2
<1>6. CASE Tick
  BY <1>6, TickInTime
<1>7. CASE Works
  <2>1. heard'.since = heard.since /\ heard'.cloud = heard.cloud
    BY <1>7 DEF Works, Writes, TypeOK, Heard
  <2> QED
    BY <1>7, <2>1 DEF Works, watch
<1>8. CASE EndsLine \/ Dies
  BY <1>8 DEF EndsLine, Dies, watch
<1>9. CASE WriteStalls
  BY <1>9 DEF WriteStalls, watch
<1>10. CASE Cancel
  BY <1>10 DEF Cancel, End, watch
<1>11. CASE UNCHANGED vars
  BY <1>11 DEF vars, watch
<1> QED
  BY <1>1, <1>2, <1>3, <1>4, <1>5, <1>6, <1>7, <1>8, <1>9, <1>10, <1>11 DEF Next, Supervise

\* However often the worker reports, no phase outlasts its wall and no invoke
\* the deadline (worker_wall_for_phase, WORKER_INVOKE_DEADLINE).
THEOREM WallsAreKept == Spec => []WallsHold
<1>1. Timed => WallsHold
  BY DEF Timed
<1> QED
  BY <1>1, InitTypes, NextTypes, InitTimed, NextTimed, PTL DEF Spec

\* The cloud is never left longer than the router's stall timer without a sign
\* of the job (phase_sends_cloud_keepalive).
THEOREM CloudIsTold == Spec => []CloudHears
<1>1. Timed => CloudHears
  BY DEF Timed, ClocksAgree, CloudInTime, CloudHears, InLoop
<1> QED
  BY <1>1, InitTypes, NextTypes, InitTimed, NextTimed, PTL DEF Spec

-----------------------------------------------------------------------------
(* Silence *)

Listened == NothingLost /\ KillStands

LEMMA InitListened == Init => Listened
BY DEF Init, Listened, NothingLost, KillStands, InLoop

LEMMA NextListened ==
    ASSUME LongLines \subseteq {"noise"}, TypeOK, Listened, [Next]_vars
    PROVE  Listened'
<1> USE DEF Listened, NothingLost, KillStands, InLoop
<1>0. /\ clock \in Nat /\ progressAt \in Nat /\ heard \in Heard /\ heard.spoke \in Nat
      /\ pc \in {"write", "top", "wait", "done"}
  BY DEF TypeOK, Heard
<1>1. CASE WriteRequest
  BY <1>0, <1>1 DEF WriteRequest, End, Unread, NoLine, watch, Heard
<1>2. CASE LoopTop
  BY <1>0, <1>2 DEF LoopTop, Kill, End, Unread, watch, Heard
<1>3. CASE ReadLine
  <2>1. CASE pipe.kind \in {"progress", "delta"} /\ Progressed(pipe.phase)
    BY <1>0, <1>3, <2>1 DEF ReadLine, Progressed, End, Heard
  <2>2. CASE pipe.kind = "noise" /\ UNCHANGED <<watch, heard>>
    BY <1>0, <1>3, <2>2 DEF ReadLine, Unread, End, watch
  <2>3. CASE pc' = "done" /\ UNCHANGED <<watch, heard>>
    BY <1>0, <1>3, <2>3 DEF ReadLine, watch
  <2> QED
    BY <1>3, <2>1, <2>2, <2>3 DEF ReadLine, End
<1>4. CASE ReadEof
  BY <1>0, <1>4 DEF ReadEof, End, watch
<1>5. CASE Sleep
  <2>1. heard.spoke <= progressAt
    BY <1>5 DEF Sleep, Unread, NoLine
  <2>2. CASE Silent
    <3>1. pc' = "done" /\ heard'.spoke = heard.spoke
      BY <1>0, <1>5, <2>2 DEF Sleep, Kill, End, Heard
    <3> QED
      BY <1>5, <2>1, <2>2, <3>1, <1>0 DEF Sleep, Silent
  <2>3. CASE ~Silent
    BY <1>0, <1>5, <2>1, <2>3 DEF Sleep, Heard
  <2> QED
    BY <2>2, <2>3
<1>6. CASE Tick
  BY <1>0, <1>6 DEF Tick, Unread, watch
<1>7. CASE Works
  <2>1. pipe = NoLine /\ heard.spoke <= progressAt
    BY <1>7 DEF Works, Writes, Unread, NoLine
  <2>2. PICK line \in Lines : Writes(line)
    <3>1. \A p \in After(worker) : worker \in Phases => p \in Phases
      BY DEF After, Phases, Cold
    <3> QED
      BY <1>7, <3>1 DEF Works, Lines
  <2>3. CASE line.kind = "noise"
    BY <1>0, <1>7, <2>1, <2>2, <2>3 DEF Works, Writes, watch, Heard
  <2>4. CASE line.kind # "noise"
    <3>1. whole' /\ pipe'.kind \in {"progress", "delta", "result", "error"}
      BY <2>2, <2>4 DEF Writes, Lines
    <3>2. heard'.spoke = clock /\ heard'.killed = heard.killed
      BY <1>0, <2>2, <2>4 DEF Writes, Heard
    <3> QED
      BY <1>0, <1>7, <3>1, <3>2 DEF Works, Unread, watch
  <2> QED
    BY <2>3, <2>4
<1>8. CASE EndsLine
  BY <1>0, <1>8 DEF EndsLine, Unread, watch
<1>9. CASE Dies
  BY <1>0, <1>9 DEF Dies, Unread, watch
<1>10. CASE WriteStalls
  BY <1>0, <1>10 DEF WriteStalls, watch
<1>11. CASE Cancel
  BY <1>0, <1>11 DEF Cancel, End, watch
<1>12. CASE UNCHANGED vars
  BY <1>12 DEF vars, watch, Unread
<1> QED
  BY <1>1, <1>2, <1>3, <1>4, <1>5, <1>6, <1>7, <1>8, <1>9, <1>10, <1>11, <1>12
  DEF Next, Supervise

\* As long as only noise comes in pieces, a worker is killed for silence only
\* when it wrote nothing for as long as its phase allows.  A half line of
\* another kind is lost when the timer drops the read (README).
THEOREM SilenceIsReal ==
    ASSUME LongLines \subseteq {"noise"}
    PROVE  Spec => []KilledOnlyWhenSilent
<1>1. TypeOK /\ Listened /\ [Next]_vars => Listened'
  BY NextListened
<1>2. TypeOK /\ Listened => KilledOnlyWhenSilent
  BY DEF TypeOK, Heard, Listened, KillStands, KilledOnlyWhenSilent
<1> QED
  BY <1>1, <1>2, InitTypes, NextTypes, InitListened, PTL DEF Spec

-----------------------------------------------------------------------------
(* The mutexes *)

Step == {"take", "try", "drop"} \X Mutex

\* Mutexes under which nothing is awaited.
Leaf == Mutex \ {"workers", "mmap_gate"}

\* A leaf is taken to be dropped at once; the gate is never awaited for ever.
Disciplined(s) ==
    \A i \in DOMAIN s :
        /\ s[i] # Take("mmap_gate")
        /\ \A m \in Leaf :
              /\ s[i] # Try(m)
              /\ s[i] = Take(m) => i + 1 \in DOMAIN s /\ s[i + 1] = Drop(m)

-----------------------------------------------------------------------------
(* The routines *)

\* Routines put one after the other keep the discipline of each.
LEMMA Joined ==
    ASSUME NEW s \in Seq(Step), NEW u \in Seq(Step), Disciplined(s), Disciplined(u)
    PROVE  s \o u \in Seq(Step) /\ Disciplined(s \o u)
<1> DEFINE w == s \o u
<1>1. /\ w \in Seq(Step) /\ Len(w) = Len(s) + Len(u) /\ DOMAIN w = 1..(Len(s) + Len(u))
      /\ \A i \in 1..Len(s) : w[i] = s[i]
      /\ \A i \in 1..Len(u) : w[Len(s) + i] = u[i]
  OBVIOUS
<1>2. ASSUME NEW i \in DOMAIN w
      PROVE  /\ w[i] # Take("mmap_gate")
             /\ \A m \in Leaf :
                  /\ w[i] # Try(m)
                  /\ w[i] = Take(m) => i + 1 \in DOMAIN w /\ w[i + 1] = Drop(m)
  <2>1. CASE i \in 1..Len(s)
    <3>1. i \in DOMAIN s /\ w[i] = s[i]
      BY <1>1, <2>1
    <3>2. \A m \in Leaf : s[i] = Take(m) => i + 1 \in 1..Len(s) /\ s[i + 1] = Drop(m)
      BY <3>1 DEF Disciplined
    <3>3. i + 1 \in 1..Len(s) => i + 1 \in DOMAIN w /\ w[i + 1] = s[i + 1]
      BY <1>1, <2>1
    <3> QED
      BY <3>1, <3>2, <3>3 DEF Disciplined
  <2>2. CASE i \in (Len(s) + 1)..(Len(s) + Len(u))
    <3>1. i - Len(s) \in DOMAIN u /\ w[i] = u[i - Len(s)]
      BY <1>1, <2>2
    <3>2. \A m \in Leaf : u[i - Len(s)] = Take(m) =>
              i - Len(s) + 1 \in 1..Len(u) /\ u[i - Len(s) + 1] = Drop(m)
      BY <3>1 DEF Disciplined
    <3>3. i - Len(s) + 1 \in 1..Len(u) =>
              i + 1 \in DOMAIN w /\ w[i + 1] = u[i - Len(s) + 1]
      BY <1>1, <2>2
    <3> QED
      BY <3>1, <3>2, <3>3 DEF Disciplined
  <2> QED
    BY <1>1, <2>1, <2>2
<1> QED
  BY <1>1, <1>2 DEF Disciplined

LEMMA BriefIsDisciplined ==
    ASSUME NEW m \in Mutex \ {"mmap_gate"}
    PROVE  Brief(m) \in Seq(Step) /\ Disciplined(Brief(m))
BY DEF Brief, Take, Drop, Try, Disciplined, Leaf, Step, Mutex

\* Every routine but the first block of reconcile_slots keeps the discipline.
LEMMA RoutinesAreDisciplined ==
    ASSUME NEW r \in DOMAIN Script \ {"clearOrphans"}
    PROVE  Script[r] \in Seq(Step) /\ Disciplined(Script[r])
<1> DEFINE Good(s) == s \in Seq(Step) /\ Disciplined(s)
<1>0. /\ Good(Brief("workers")) /\ Good(Brief("checkouts")) /\ Good(Brief("job_cancels"))
      /\ Good(Brief("occupancy")) /\ Good(Brief("metal"))
  BY BriefIsDisciplined DEF Mutex
<1>a. \A s, u : Good(s) /\ Good(u) => Good(s \o u)
  BY Joined
<1>1. Good(<<Take("workers"), Take("checkouts"), Drop("checkouts"), Drop("workers")>>)
  BY DEF Take, Drop, Try, Disciplined, Leaf, Step, Mutex
<1>2. Good(<<Take("workers"), Take("metal"), Drop("metal"), Drop("workers")>>)
  BY DEF Take, Drop, Try, Disciplined, Leaf, Step, Mutex
<1>3. Good(<<Try("workers"), Drop("workers"), Try("mmap_gate")>>)
  BY DEF Take, Drop, Try, Disciplined, Leaf, Step, Mutex
<1>4. Good(<<Take("workers"), Take("job_cancels"), Drop("job_cancels"),
             Drop("workers"), Drop("mmap_gate")>>)
  BY DEF Take, Drop, Try, Disciplined, Leaf, Step, Mutex
<1>5. Good(<<Try("mmap_gate")>>) /\ Good(<<Drop("mmap_gate")>>)
  BY DEF Take, Drop, Try, Disciplined, Leaf, Step, Mutex
<1> HIDE DEF Good
<1>6. Good(FindMissing)
  BY <1>0, <1>a, <1>1 DEF FindMissing
<1>7. Good(ReclaimStale)
  BY <1>0, <1>a DEF ReclaimStale
<1>8. Good(SlotStatuses) /\ Good(RefreshOccupancy) /\ Good(CancelInvoke)
  BY <1>0, <1>a, <1>1 DEF SlotStatuses, RefreshOccupancy, CancelInvoke
<1>9. Good(Claim)
  BY <1>0, <1>a, <1>3, <1>4 DEF Claim
<1>10. Good(RunSingle)
  BY <1>0, <1>a, <1>5 DEF RunSingle
<1>11. Good(RestoreGroup)
  BY <1>0, <1>a, <1>2 DEF RestoreGroup
<1>12. Good(Script[r])
  BY <1>6, <1>7, <1>8, <1>9, <1>10, <1>11 DEF Script
<1> QED
  BY <1>12 DEF Good

-----------------------------------------------------------------------------
(* The inductive invariant *)

Types == rest \in [Task -> Seq(Step)] /\ queue \in [Mutex -> Seq(Task)]

\* No task is listed twice for a mutex.
Once ==
    \A m \in Mutex : \A i, k \in DOMAIN queue[m] :
        queue[m][i] = queue[m][k] => i = k

Orderly == \A t \in Task : Disciplined(rest[t])

\* A task waits only for the mutex it is about to get.
AtItsWait ==
    \A t \in Task, m \in Mutex :
        WaitsFor(t, m) => NextStep(t, "take", m) \/ NextStep(t, "try", m)

\* A task that owns a leaf is about to learn so, or about to drop it.
LeafInHand ==
    \A t \in Task, m \in Leaf :
        Owns(t, m) => NextStep(t, "take", m) \/ NextStep(t, "drop", m)

Inv == Types /\ Once /\ Orderly /\ AtItsWait /\ LeafInHand

\* The discipline is about what is left of a routine, from any point on.
LEMMA TailIsDisciplined ==
    ASSUME NEW s \in Seq(Step), s # <<>>, Disciplined(s)
    PROVE  /\ Tail(s) \in Seq(Step) /\ Disciplined(Tail(s))
           /\ \A m \in Leaf : s[1] = Take(m) => Tail(s) # <<>> /\ Tail(s)[1] = Drop(m)
<1> DEFINE w == Tail(s)
<1>1. /\ w \in Seq(Step) /\ Len(s) \in Nat \ {0}
      /\ DOMAIN s = 1..Len(s) /\ DOMAIN w = 1..(Len(s) - 1)
      /\ \A i \in 1..(Len(s) - 1) : w[i] = s[i + 1]
  OBVIOUS
<1>2. \A i \in DOMAIN w : i + 1 \in DOMAIN s /\ w[i] = s[i + 1]
  BY <1>1
<1> HIDE DEF w
<1>3. ASSUME NEW i \in DOMAIN w, NEW m \in Leaf, w[i] = Take(m)
      PROVE  i + 1 \in DOMAIN w /\ w[i + 1] = Drop(m)
  <2>1. i + 1 \in DOMAIN s /\ s[i + 1] = Take(m)
    BY <1>2, <1>3
  <2>2. i + 1 + 1 \in DOMAIN s /\ s[i + 1 + 1] = Drop(m)
    BY <2>1 DEF Disciplined
  <2>3. i + 1 \in DOMAIN w
    BY <1>1, <1>3, <2>2
  <2> QED
    BY <1>2, <2>2, <2>3
<1>4. ASSUME NEW i \in DOMAIN w
      PROVE  w[i] # Take("mmap_gate") /\ \A m \in Leaf : w[i] # Try(m)
  <2>1. i + 1 \in DOMAIN s /\ w[i] = s[i + 1]
    BY <1>2, <1>4
  <2> QED
    BY <2>1 DEF Disciplined
<1>5. Disciplined(w)
  <2> SUFFICES ASSUME NEW i \in DOMAIN w
               PROVE  /\ w[i] # Take("mmap_gate")
                      /\ \A m \in Leaf :
                          /\ w[i] # Try(m)
                          /\ w[i] = Take(m) => i + 1 \in DOMAIN w /\ w[i + 1] = Drop(m)
    BY Zenon DEF Disciplined
  <2> QED
    BY <1>3, <1>4
<1>6. ASSUME NEW m \in Leaf, s[1] = Take(m)
      PROVE  w # <<>> /\ w[1] = Drop(m)
  <2>1. 1 + 1 \in DOMAIN s /\ s[1 + 1] = Drop(m)
    <3>1. 1 \in DOMAIN s
      BY <1>1
    <3> QED
      BY <1>6, <3>1 DEF Disciplined
  <2>2. 1 \in DOMAIN w
    BY <1>1, <2>1
  <2>3. w[1] = Drop(m)
    BY <1>2, <2>1, <2>2
  <2> QED
    BY <1>1, <2>2, <2>3
<1> QED
  BY <1>1, <1>5, <1>6 DEF w

\* In a state of the invariant no tasks wait for one another in a circle.
LEMMA NobodyLocked == Inv => NoDeadlock
<1> SUFFICES ASSUME Inv, NEW S \in (SUBSET Task) \ {{}},
                    \A t \in S : /\ ~Bounded(t)
                                 /\ \E m \in Mutex : WaitsFor(t, m) /\ Head(queue[m]) \in S
             PROVE  FALSE
  BY DEF NoDeadlock
<1> USE DEF Inv
<1>1. ASSUME NEW t \in S, NEW m \in Mutex, WaitsFor(t, m)
      PROVE  NextStep(t, "take", m) /\ m # "mmap_gate"
  <2>1. NextStep(t, "take", m)
    BY <1>1 DEF AtItsWait, NextStep, Bounded
  <2>2. 1 \in DOMAIN rest[t] /\ rest[t][1] = Take(m)
    BY <2>1 DEF NextStep, Types, Take
  <2> QED
    BY <2>1, <2>2 DEF Orderly, Disciplined, Take
<1>2. ASSUME NEW t \in S, NEW m \in Mutex, WaitsFor(t, m), Head(queue[m]) \in S
      PROVE  m = "workers"
  <2> DEFINE u == Head(queue[m])
  <2>1. Owns(u, m)
    BY <1>2 DEF Owns, WaitsFor, Listed
  <2>2. PICK n \in Mutex : WaitsFor(u, n)
    BY <1>2
  <2>3. NextStep(u, "take", n)
    BY <1>1, <1>2, <2>2
  <2>4. n # m
    BY <2>1, <2>2 DEF WaitsFor
  <2>5. m \in Leaf => NextStep(u, "take", m) \/ NextStep(u, "drop", m)
    BY <1>2, <2>1 DEF LeafInHand
  <2>6. m \notin Leaf
    BY <2>3, <2>4, <2>5 DEF NextStep
  <2> QED
    BY <1>1, <1>2, <2>6 DEF Leaf
<1>3. PICK t \in S : TRUE
  OBVIOUS
<1>4. WaitsFor(t, "workers") /\ Head(queue["workers"]) \in S
  <2>1. PICK m \in Mutex : WaitsFor(t, m) /\ Head(queue[m]) \in S
    OBVIOUS
  <2> QED
    BY <1>2, <2>1
<1>5. Owns(Head(queue["workers"]), "workers")
  BY <1>4 DEF Owns, WaitsFor, Listed
<1>6. WaitsFor(Head(queue["workers"]), "workers")
  <2>1. PICK m \in Mutex : WaitsFor(Head(queue["workers"]), m) /\ Head(queue[m]) \in S
    BY <1>4
  <2> QED
    BY <1>2, <1>4, <2>1
<1> QED
  BY <1>5, <1>6 DEF WaitsFor

-----------------------------------------------------------------------------
(* The steps *)

LEMMA InitInv == LockInit => Inv
BY DEF LockInit, Inv, Types, Once, Orderly, Disciplined, AtItsWait, LeafInHand,
   WaitsFor, Listed, Owns, Leaf

\* A task that waits for a mutex, or owns a leaf, stands at a step on it.
LEMMA StandsAtIt ==
    ASSUME Inv, NEW t \in Task, NEW m \in Mutex
    PROVE  /\ WaitsFor(t, m) => rest[t] # <<>> /\ Head(rest[t]) \in {Take(m), Try(m)}
           /\ Owns(t, m) /\ m \in Leaf => rest[t] # <<>> /\ Head(rest[t]) \in {Take(m), Drop(m)}
BY DEF Inv, AtItsWait, LeafInHand, NextStep, Take, Try, Drop

\* A task that goes on to the rest of its routine, the queues left alone.
LEMMA Steps ==
    ASSUME Inv, NEW t \in Task, rest[t] # <<>>, Advance(t)
    PROVE  /\ rest' \in [Task -> Seq(Step)] /\ Orderly'
           /\ \A u \in Task \ {t} : rest'[u] = rest[u]
           /\ rest'[t] = Tail(rest[t])
           /\ \A m \in Leaf : Head(rest[t]) = Take(m) =>
                 rest'[t] # <<>> /\ Head(rest'[t]) = Drop(m)
<1>1. /\ rest \in [Task -> Seq(Step)] /\ rest[t] \in Seq(Step) /\ Disciplined(rest[t])
      /\ rest' = [rest EXCEPT ![t] = Tail(rest[t])]
  BY DEF Inv, Types, Orderly, Advance
<1>2. /\ Tail(rest[t]) \in Seq(Step) /\ Disciplined(Tail(rest[t]))
      /\ \A m \in Leaf : rest[t][1] = Take(m) =>
             Tail(rest[t]) # <<>> /\ Tail(rest[t])[1] = Drop(m)
  BY <1>1, TailIsDisciplined
<1>3. rest'[t] = Tail(rest[t]) /\ \A u \in Task \ {t} : rest'[u] = rest[u]
  BY <1>1
<1>4. rest' \in [Task -> Seq(Step)]
  BY <1>1, <1>2
<1>5. Orderly'
  BY <1>2, <1>3 DEF Inv, Orderly
<1>6. Head(rest[t]) = rest[t][1] /\ (Tail(rest[t]) # <<>> => Head(Tail(rest[t])) = Tail(rest[t])[1])
  BY <1>1, <1>2
<1> QED
  BY <1>2, <1>3, <1>4, <1>5, <1>6

LEMMA BeginInv ==
    ASSUME "clearOrphans" \notin Routines, Inv, NEW t \in Task, Begin(t)
    PROVE  Inv'
<1>1. PICK r \in Routines : rest' = [rest EXCEPT ![t] = Script[r]]
  BY DEF Begin
<1>2. Script[r] \in Seq(Step) /\ Disciplined(Script[r])
  BY <1>1, LockOrderAssumption, RoutinesAreDisciplined
<1>3. rest'[t] = Script[r] /\ \A u \in Task \ {t} : rest'[u] = rest[u]
  BY <1>1 DEF Inv, Types
<1>4. Types' /\ Once' /\ Orderly'
  BY <1>1, <1>2, <1>3 DEF Inv, Types, Once, Orderly, Begin
<1>5. \A m \in Mutex : ~WaitsFor(t, m) /\ (m \in Leaf => ~Owns(t, m))
  BY StandsAtIt DEF Begin
<1>6. AtItsWait' /\ LeafInHand'
  BY <1>3, <1>5 DEF Inv, Begin, AtItsWait, LeafInHand, WaitsFor, Owns, Listed, NextStep, Leaf
<1> QED
  BY <1>4, <1>6 DEF Inv

LEMMA RequestInv ==
    ASSUME Inv, NEW t \in Task, NEW m \in Mutex, Request(t, m)
    PROVE  Inv'
<1>1. /\ queue \in [Mutex -> Seq(Task)] /\ queue[m] \in Seq(Task) /\ rest' = rest
      /\ queue' = [queue EXCEPT ![m] = Append(queue[m], t)]
  BY DEF Inv, Types, Request
<1>2. /\ queue'[m] = Append(queue[m], t) /\ queue'[m] \in Seq(Task) /\ queue'[m] # <<>>
      /\ \A n \in Mutex \ {m} : queue'[n] = queue[n]
      /\ DOMAIN queue[m] = 1..Len(queue[m]) /\ DOMAIN queue'[m] = 1..(Len(queue[m]) + 1)
      /\ \A i \in 1..Len(queue[m]) : queue'[m][i] = queue[m][i]
      /\ queue'[m][Len(queue[m]) + 1] = t /\ Len(queue[m]) \in Nat
  BY <1>1
<1>3. \A i \in DOMAIN queue[m] : queue[m][i] # t
  BY DEF Request, Listed
<1>4. Types' /\ Orderly'
  BY <1>1, <1>2 DEF Inv, Types, Orderly
<1>5. Once'
  <2>1. ASSUME NEW i \in DOMAIN queue'[m], NEW k \in DOMAIN queue'[m],
               queue'[m][i] = queue'[m][k]
        PROVE  i = k
    <3>1. CASE i \in 1..Len(queue[m]) /\ k \in 1..Len(queue[m])
      BY <1>2, <2>1, <3>1 DEF Inv, Once
    <3>2. CASE i = Len(queue[m]) + 1 /\ k \in 1..Len(queue[m])
      BY <1>2, <1>3, <2>1, <3>2
    <3>3. CASE k = Len(queue[m]) + 1 /\ i \in 1..Len(queue[m])
      BY <1>2, <1>3, <2>1, <3>3
    <3>4. CASE i = Len(queue[m]) + 1 /\ k = Len(queue[m]) + 1
      BY <3>4
    <3> QED
      BY <1>2, <3>1, <3>2, <3>3, <3>4
  <2> QED
    BY <1>2, <2>1 DEF Inv, Once
<1>6. \A u \in Task : Owns(u, m)' => Owns(u, m) \/ u = t
  BY <1>1, <1>2 DEF Owns
<1>7. \A u \in Task : WaitsFor(u, m)' => WaitsFor(u, m) \/ u = t
  BY <1>1, <1>2 DEF WaitsFor, Listed, Owns
<1>8. \A u \in Task, n \in Mutex \ {m} : Owns(u, n)' = Owns(u, n) /\ WaitsFor(u, n)' = WaitsFor(u, n)
  BY <1>2 DEF WaitsFor, Listed, Owns
<1>9. m \in Leaf => NextStep(t, "take", m)
  <2>1. Disciplined(rest[t]) /\ rest[t] \in Seq(Step)
    BY DEF Inv, Orderly, Types
  <2>2. NextStep(t, "try", m) => 1 \in DOMAIN rest[t] /\ rest[t][1] = Try(m)
    BY <2>1 DEF NextStep, Try
  <2> QED
    BY <2>1, <2>2 DEF Disciplined, Request
<1>10. AtItsWait'
  BY <1>1, <1>7, <1>8 DEF Inv, AtItsWait, NextStep, Request
<1>11. LeafInHand'
  BY <1>1, <1>6, <1>8, <1>9 DEF Inv, LeafInHand, NextStep, Leaf
<1> QED
  BY <1>4, <1>5, <1>10, <1>11 DEF Inv

LEMMA GrantedInv ==
    ASSUME Inv, NEW t \in Task, NEW m \in Mutex, Granted(t, m)
    PROVE  Inv'
<1>1. rest[t] # <<>> /\ Head(rest[t]) \in {Take(m), Try(m)} /\ Owns(t, m)
      /\ Advance(t) /\ queue' = queue
  BY DEF Granted, NextStep, Take, Try
<1>2. /\ rest' \in [Task -> Seq(Step)] /\ Orderly' /\ rest'[t] = Tail(rest[t])
      /\ \A u \in Task \ {t} : rest'[u] = rest[u]
      /\ \A n \in Leaf : Head(rest[t]) = Take(n) => rest'[t] # <<>> /\ Head(rest'[t]) = Drop(n)
  BY <1>1, Steps
<1>3. \A n \in Mutex : ~WaitsFor(t, n)
  BY <1>1, StandsAtIt DEF WaitsFor, Take, Try
<1>4. \A n \in Leaf : Owns(t, n) => n = m /\ Head(rest[t]) = Take(m)
  BY <1>1, StandsAtIt DEF Leaf, Take, Try, Drop
<1>5. Types' /\ Once'
  BY <1>1, <1>2 DEF Inv, Types, Once
<1>6. AtItsWait'
  BY <1>1, <1>2, <1>3 DEF Inv, AtItsWait, WaitsFor, Listed, Owns, NextStep
<1>7. LeafInHand'
  BY <1>1, <1>2, <1>4 DEF Inv, LeafInHand, Owns, NextStep, Leaf, Drop
<1> QED
  BY <1>2, <1>5, <1>6, <1>7 DEF Inv

LEMMA GiveUpInv ==
    ASSUME Inv, NEW t \in Task, NEW m \in Mutex, GiveUp(t, m)
    PROVE  Inv'
<1> DEFINE q == queue[m]
<1>1. PICK i \in DOMAIN q : q[i] = t /\ queue' = [queue EXCEPT ![m] = Without(q, i)]
  BY DEF GiveUp
<1>2. /\ rest[t] # <<>> /\ Head(rest[t]) = Try(m) /\ WaitsFor(t, m) /\ Advance(t)
  BY DEF GiveUp, NextStep, Try
<1>3. /\ queue \in [Mutex -> Seq(Task)] /\ q \in Seq(Task) /\ Len(q) \in Nat
      /\ DOMAIN q = 1..Len(q)
  BY DEF Inv, Types
<1>4. i # 1 /\ q # <<>> /\ Head(q) = q[1]
  <2>1. q # <<>> /\ Head(q) = q[1]
    BY <1>1, <1>3
  <2> QED
    BY <1>1, <1>2, <2>1 DEF WaitsFor, Owns
<1>5. /\ Without(q, i) = [k \in 1..(Len(q) - 1) |-> IF k < i THEN q[k] ELSE q[k + 1]]
      /\ i \in 2..Len(q) /\ Len(q) - 1 \in Nat \ {0}
  BY <1>1, <1>3, <1>4 DEF Without
<1>6. /\ Without(q, i) \in Seq(Task) /\ Len(Without(q, i)) = Len(q) - 1
      /\ DOMAIN Without(q, i) = 1..(Len(q) - 1)
      /\ \A k \in 1..(Len(q) - 1) : Without(q, i)[k] = IF k < i THEN q[k] ELSE q[k + 1]
  <2>1. \A k \in 1..(Len(q) - 1) : (IF k < i THEN q[k] ELSE q[k + 1]) \in Task
    BY <1>3, <1>5
  <2> QED
    BY <1>5, <2>1
<1>7. /\ queue'[m] = Without(q, i) /\ queue' \in [Mutex -> Seq(Task)]
      /\ \A n \in Mutex \ {m} : queue'[n] = queue[n]
  BY <1>1, <1>3, <1>6
<1>8. queue'[m] # <<>> /\ Head(queue'[m]) = Head(q)
  <2>1. 1 \in 1..(Len(q) - 1) /\ Without(q, i)[1] = q[1]
    BY <1>5, <1>6
  <2>2. \A w \in Seq(Task) : Len(w) # 0 => w # <<>> /\ Head(w) = w[1]
    OBVIOUS
  <2>3. Without(q, i) # <<>> /\ Head(Without(q, i)) = Without(q, i)[1]
    BY <1>5, <1>6, <2>2
  <2> QED
    BY <1>4, <1>7, <2>1, <2>3
<1>9. /\ rest' \in [Task -> Seq(Step)] /\ Orderly' /\ rest'[t] = Tail(rest[t])
      /\ \A u \in Task \ {t} : rest'[u] = rest[u]
  BY <1>2, Steps
<1>10. \A k \in DOMAIN queue'[m] : \E j \in DOMAIN q \ {i} :
           queue'[m][k] = q[j] /\ j = IF k < i THEN k ELSE k + 1
  BY <1>3, <1>5, <1>6, <1>7
<1>11. Once'
  <2>1. ASSUME NEW k \in DOMAIN queue'[m], NEW l \in DOMAIN queue'[m],
               queue'[m][k] = queue'[m][l]
        PROVE  k = l
    <3>1. PICK j \in DOMAIN q : queue'[m][k] = q[j] /\ j = IF k < i THEN k ELSE k + 1
      BY <1>10
    <3>2. PICK p \in DOMAIN q : queue'[m][l] = q[p] /\ p = IF l < i THEN l ELSE l + 1
      BY <1>10
    <3>3. j = p
      BY <2>1, <3>1, <3>2 DEF Inv, Once
    <3>4. k \in Nat /\ l \in Nat /\ i \in Nat
      BY <1>5, <1>6, <1>7
    <3> QED
      BY <3>1, <3>2, <3>3, <3>4
  <2> QED
    BY <1>7, <2>1 DEF Inv, Once
<1>12. ~Listed(t, m)'
  BY <1>1, <1>10 DEF Inv, Once, Listed
<1>13. \A u \in Task : Listed(u, m)' => Listed(u, m)
  BY <1>10 DEF Listed
<1>14. \A u \in Task : Owns(u, m)' = Owns(u, m)
  BY <1>4, <1>8 DEF Owns
<1>15. \A u \in Task, n \in Mutex \ {m} : Owns(u, n)' = Owns(u, n) /\ Listed(u, n)' = Listed(u, n)
  BY <1>7 DEF Owns, Listed
<1>16. /\ \A n \in Mutex : WaitsFor(t, n) => n = m
       /\ \A n \in Leaf : ~Owns(t, n)
  BY <1>2, StandsAtIt DEF Leaf, Take, Try, Drop
<1>17. AtItsWait'
  BY <1>9, <1>12, <1>13, <1>14, <1>15, <1>16 DEF Inv, AtItsWait, WaitsFor, NextStep
<1>18. LeafInHand'
  BY <1>9, <1>14, <1>15, <1>16 DEF Inv, LeafInHand, NextStep, Leaf
<1> QED
  BY <1>7, <1>9, <1>11, <1>17, <1>18 DEF Inv, Types

LEMMA ReleaseInv ==
    ASSUME Inv, NEW t \in Task, NEW m \in Mutex, Release(t, m)
    PROVE  Inv'
<1> DEFINE q == queue[m]
<1>1. /\ rest[t] # <<>> /\ Head(rest[t]) = Drop(m) /\ Advance(t)
      /\ queue' = [queue EXCEPT ![m] = IF Owns(t, m) THEN Tail(q) ELSE q]
  BY DEF Release, NextStep, Drop
<1>2. /\ rest' \in [Task -> Seq(Step)] /\ Orderly' /\ rest'[t] = Tail(rest[t])
      /\ \A u \in Task \ {t} : rest'[u] = rest[u]
  BY <1>1, Steps
<1>3. /\ \A n \in Mutex : ~WaitsFor(t, n)
      /\ \A n \in Leaf : Owns(t, n) => n = m
  BY <1>1, StandsAtIt DEF Leaf, Take, Try, Drop
<1>4. queue \in [Mutex -> Seq(Task)] /\ q \in Seq(Task)
  BY DEF Inv, Types
<1>5. CASE ~Owns(t, m)
  <2>1. queue' = queue
    BY <1>1, <1>4, <1>5
  <2>2. AtItsWait'
    BY <1>2, <1>3, <2>1 DEF Inv, AtItsWait, WaitsFor, Listed, Owns, NextStep
  <2>3. LeafInHand'
    BY <1>2, <1>3, <1>5, <2>1 DEF Inv, LeafInHand, Owns, NextStep, Leaf
  <2> QED
    BY <1>2, <2>1, <2>2, <2>3 DEF Inv, Types, Once
<1>6. CASE Owns(t, m)
  <2>1. /\ queue'[m] = Tail(q) /\ queue' \in [Mutex -> Seq(Task)]
        /\ \A n \in Mutex \ {m} : queue'[n] = queue[n]
    BY <1>1, <1>4, <1>6 DEF Owns
  <2>2. /\ q # <<>> /\ q[1] = t /\ 1 \in DOMAIN q /\ DOMAIN queue'[m] = 1..(Len(q) - 1)
        /\ \A k \in DOMAIN queue'[m] : k + 1 \in DOMAIN q /\ queue'[m][k] = q[k + 1] /\ k \in Nat \ {0}
        /\ queue'[m] # <<>> => Head(queue'[m]) = queue'[m][1] /\ 1 \in DOMAIN queue'[m]
    BY <1>4, <1>6, <2>1 DEF Owns
  <2>3. Once'
    <3>1. ASSUME NEW k \in DOMAIN queue'[m], NEW l \in DOMAIN queue'[m],
                 queue'[m][k] = queue'[m][l]
          PROVE  k = l
      <4>1. k + 1 = l + 1
        BY <2>2, <3>1 DEF Inv, Once
      <4> QED
        BY <2>2, <4>1
    <3> QED
      BY <2>1, <3>1 DEF Inv, Once
  <2>4. ~Listed(t, m)'
    <3>1. ASSUME NEW k \in DOMAIN queue'[m], queue'[m][k] = t
          PROVE  FALSE
      <4>1. k + 1 = 1
        BY <2>2, <3>1 DEF Inv, Once
      <4> QED
        BY <2>2, <4>1
    <3> QED
      BY <3>1 DEF Listed
  <2>5. \A u \in Task : Listed(u, m)' => Listed(u, m) /\ u # t
    BY <2>2, <2>4 DEF Listed
  <2>6. \A u \in Task : Owns(u, m)' => Listed(u, m)'
    BY <2>2 DEF Owns, Listed
  <2>7. \A u \in Task : Listed(u, m)' => WaitsFor(u, m)
    <3>1. \A u \in Task \ {t} : ~Owns(u, m)
      BY <1>6 DEF Owns
    <3> QED
      BY <2>5, <3>1 DEF WaitsFor
  <2>8. \A u \in Task, n \in Mutex \ {m} : Owns(u, n)' = Owns(u, n) /\ Listed(u, n)' = Listed(u, n)
    BY <2>1 DEF Owns, Listed
  <2>9. AtItsWait'
    BY <1>2, <1>3, <2>5, <2>7, <2>8 DEF Inv, AtItsWait, WaitsFor, NextStep
  <2>10. ASSUME NEW u \in Task, m \in Leaf, Owns(u, m)'
         PROVE  NextStep(u, "take", m)'
    <3>1. u # t /\ WaitsFor(u, m)
      BY <2>5, <2>6, <2>7, <2>10
    <3>2. NextStep(u, "take", m) \/ NextStep(u, "try", m)
      BY <3>1 DEF Inv, AtItsWait
    <3>3. Disciplined(rest[u]) /\ rest[u] \in Seq(Step)
      BY DEF Inv, Orderly, Types
    <3>4. NextStep(u, "try", m) => 1 \in DOMAIN rest[u] /\ rest[u][1] = Try(m)
      BY <3>3 DEF NextStep, Try
    <3>5. NextStep(u, "take", m)
      BY <2>10, <3>2, <3>3, <3>4 DEF Disciplined
    <3> QED
      BY <1>2, <3>1, <3>5 DEF NextStep
  <2>11. LeafInHand'
    BY <1>2, <1>3, <2>8, <2>10 DEF Inv, LeafInHand, NextStep, Leaf
  <2> QED
    BY <1>2, <2>1, <2>3, <2>9, <2>11 DEF Inv, Types
<1> QED
  BY <1>5, <1>6

LEMMA NextInv ==
    ASSUME "clearOrphans" \notin Routines, Inv, [LockNext]_lockVars
    PROVE  Inv'
<1>1. ASSUME NEW t \in Task, Begin(t)
      PROVE  Inv'
  BY <1>1, BeginInv
<1>2. ASSUME NEW t \in Task, NEW m \in Mutex,
             Request(t, m) \/ Granted(t, m) \/ GiveUp(t, m) \/ Release(t, m)
      PROVE  Inv'
  BY <1>2, RequestInv, GrantedInv, GiveUpInv, ReleaseInv
<1>3. CASE UNCHANGED lockVars
  BY <1>3 DEF lockVars, Inv, Types, Once, Orderly, AtItsWait, LeafInHand, WaitsFor, Listed,
     Owns, NextStep
<1> QED
  BY <1>1, <1>2, <1>3 DEF LockNext, Run

-----------------------------------------------------------------------------
(* Theorems *)

\* "Safe to call from the heartbeat path under load" (reconcile_slots, but for
\* its first block): however many tasks run the routines of the supervisor, no
\* tasks ever wait for one another in a circle.
THEOREM DeadlockFree ==
    ASSUME "clearOrphans" \notin Routines
    PROVE  LockSpec => []NoDeadlock
<1>1. Inv /\ [LockNext]_lockVars => Inv'
  BY NextInv
<1> QED
  BY <1>1, InitInv, NobodyLocked, PTL DEF LockSpec

\* Types need no discipline.
LEMMA TypesKept == Types /\ [LockNext]_lockVars => Types'
<1> SUFFICES ASSUME Types, [LockNext]_lockVars
             PROVE  Types'
  OBVIOUS
<1>1. ASSUME NEW t \in Task, Begin(t)
      PROVE  Types'
  <2>1. ClearOrphans \in Seq(Step)
    BY DEF ClearOrphans, Take, Drop, Step, Mutex
  <2>2. \A r \in DOMAIN Script : Script[r] \in Seq(Step)
    BY <2>1, RoutinesAreDisciplined DEF Script
  <2> QED
    BY <1>1, <2>2, LockOrderAssumption DEF Begin, Types
<1>2. ASSUME NEW t \in Task, rest[t] # <<>>, Advance(t)
      PROVE  rest' \in [Task -> Seq(Step)]
  <2>1. Tail(rest[t]) \in Seq(Step)
    BY <1>2 DEF Types
  <2> QED
    BY <1>2, <2>1 DEF Types, Advance
<1>3. ASSUME NEW t \in Task, NEW m \in Mutex, Request(t, m)
      PROVE  Types'
  <2>1. Append(queue[m], t) \in Seq(Task)
    BY DEF Types
  <2> QED
    BY <1>3, <2>1 DEF Request, Types
<1>4. ASSUME NEW t \in Task, NEW m \in Mutex, Granted(t, m)
      PROVE  Types'
  BY <1>2, <1>4 DEF Granted, NextStep, Types
<1>5. ASSUME NEW t \in Task, NEW m \in Mutex, GiveUp(t, m)
      PROVE  Types'
  <2> DEFINE q == queue[m]
  <2>1. PICK i \in DOMAIN q : queue' = [queue EXCEPT ![m] = Without(q, i)]
    BY <1>5 DEF GiveUp
  <2>2. q \in Seq(Task) /\ Len(q) \in Nat \ {0} /\ i \in 1..Len(q)
    BY <2>1 DEF Types
  <2>3. \A k \in 1..(Len(q) - 1) : (IF k < i THEN q[k] ELSE q[k + 1]) \in Task
    BY <2>2
  <2>4. Without(q, i) \in Seq(Task)
    BY <2>2, <2>3 DEF Without
  <2> QED
    BY <1>2, <1>5, <2>1, <2>4 DEF GiveUp, NextStep, Types
<1>6. ASSUME NEW t \in Task, NEW m \in Mutex, Release(t, m)
      PROVE  Types'
  <2>1. queue[m] # <<>> => Tail(queue[m]) \in Seq(Task)
    BY DEF Types
  <2> QED
    BY <1>2, <1>6, <2>1 DEF Release, NextStep, Owns, Types
<1>7. CASE UNCHANGED lockVars
  BY <1>7 DEF lockVars, Types
<1> QED
  BY <1>1, <1>3, <1>4, <1>5, <1>6, <1>7 DEF LockNext, Run

\* The rest of a routine is made of steps on the six mutexes, and a mutex is
\* awaited by tasks only; this takes in the first block of reconcile_slots.
THEOREM LockTypeCorrect == LockSpec => []LockTypeOK
<1>1. LockInit => Types
  BY DEF LockInit, Types
<1>2. Types => LockTypeOK
  BY DEF Types, LockTypeOK, Step
<1> QED
  BY <1>1, <1>2, TypesKept, PTL DEF LockSpec
=============================================================================
