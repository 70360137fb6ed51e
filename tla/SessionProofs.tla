---------------------------- MODULE SessionProofs ----------------------------
(***************************************************************************)
(* The types and the job count of Session, for any jobs, splits, refreshes *)
(* and bounds.  The lemmas follow the disjuncts of Next, with one step per *)
(* action.                                                                 *)
(***************************************************************************)
EXTENDS Session, FiniteSetTheorems, TLAPS

-----------------------------------------------------------------------------
(* The inductive invariant *)

Running == {j \in Job : stage[j] \in Counted \cup SplitCounted}
SplitRunning == {j \in Split : stage[j] \in Counted \cup SplitCounted}

\* The generations are numbered from 1 on.
Numbered == \E n \in Nat : DOMAIN built = 1..n

\* A split that holds the mmap gate is past it and not yet counted out.
GateHeld == \A j \in gate : stage[j] \in {"decode", "answer", "returned"}

\* A refresh that has read the slots knows whose slots they were.
KnowsWhose == \A r \in Refresher : pc[r] \in {"flight", "heal"} => doomed[r] # 0

\* Admission bounds the invokes that are not splits, and only those.
SplitsAbove == count <= MaxJobs + Cardinality(SplitRunning)

Typed == TypeOK /\ Numbered /\ GateHeld /\ KnowsWhose

Inv == Typed /\ SplitsAbove /\ CountNeverHigh

-----------------------------------------------------------------------------
(* Counting *)

\* The invokes of a session are finitely many, and so are those it counts.
LEMMA FiniteRunning ==
    /\ IsFiniteSet(Running) /\ Cardinality(Running) \in Nat
    /\ IsFiniteSet(SplitRunning) /\ Cardinality(SplitRunning) \in Nat
    /\ IsFiniteSet(Split) /\ Cardinality(Split) \in Nat
    /\ Cardinality(SplitRunning) <= Cardinality(Split)
<1>1. IsFiniteSet(Job) /\ Split \subseteq Job
  BY SessionAssumption
<1>2. Running \subseteq Job /\ SplitRunning \subseteq Split
  BY DEF Running, SplitRunning
<1>3. IsFiniteSet(Running) /\ IsFiniteSet(Split)
  BY <1>1, <1>2, FS_Subset
<1>4. IsFiniteSet(SplitRunning) /\ Cardinality(SplitRunning) <= Cardinality(Split)
  BY <1>2, <1>3, FS_Subset
<1> QED
  BY <1>3, <1>4, FS_CardinalityType

\* Whoever steps within the counted stages, or outside of them, leaves the count
\* as it is; so does a heal, which only lowers it.
LEMMA CountKept ==
    ASSUME TypeOK, SplitsAbove, CountNeverHigh, count' \in Nat, count' <= count,
           Running \subseteq Running', SplitRunning \subseteq SplitRunning'
    PROVE  SplitsAbove' /\ CountNeverHigh'
<1>1. /\ IsFiniteSet(Running') /\ Cardinality(Running') \in Nat
      /\ IsFiniteSet(SplitRunning') /\ Cardinality(SplitRunning') \in Nat
  <2>1. Running' \subseteq Job /\ SplitRunning' \subseteq Split
    BY DEF Running, SplitRunning
  <2>2. IsFiniteSet(Running') /\ IsFiniteSet(SplitRunning')
    BY <2>1, SessionAssumption, FiniteRunning, FS_Subset
  <2> QED
    BY <2>2, FS_CardinalityType
<1>2. /\ Cardinality(Running) \in Nat /\ Cardinality(SplitRunning) \in Nat
      /\ Cardinality(Running) <= Cardinality(Running')
      /\ Cardinality(SplitRunning) <= Cardinality(SplitRunning')
  BY <1>1, FiniteRunning, FS_Subset
<1>3. count <= Cardinality(Running) /\ count <= MaxJobs + Cardinality(SplitRunning)
  BY DEF CountNeverHigh, Running, SplitsAbove
<1>4. count' <= Cardinality(Running') /\ count' <= MaxJobs + Cardinality(SplitRunning')
  BY <1>1, <1>2, <1>3, SessionAssumption, FiniteRunning DEF TypeOK, SessionTypes, JobTypes
<1> QED
  BY <1>4 DEF CountNeverHigh, Running, SplitsAbove

\* An invoke is counted when it enters the counted stages.  Only one that is not
\* a split has found the count below MaxJobs.
LEMMA CountUp ==
    ASSUME TypeOK, SplitsAbove, CountNeverHigh, NEW j \in Job, j \notin Running,
           count' = count + 1, Running' = Running \cup {j},
           \/ j \in Split /\ SplitRunning' = SplitRunning \cup {j}
           \/ count < MaxJobs /\ SplitRunning' = SplitRunning
    PROVE  SplitsAbove' /\ CountNeverHigh'
<1>1. /\ Cardinality(Running) \in Nat /\ Cardinality(SplitRunning) \in Nat
      /\ Cardinality(Running') = Cardinality(Running) + 1
  BY FiniteRunning, FS_AddElement
<1>2. count \in Nat /\ MaxJobs \in Nat
  BY SessionAssumption, FiniteRunning DEF TypeOK, SessionTypes, JobTypes
<1>3. count' <= Cardinality(Running')
  BY <1>1, <1>2 DEF CountNeverHigh, Running
<1>4. CASE j \in Split /\ SplitRunning' = SplitRunning \cup {j}
  <2>1. j \notin SplitRunning
    BY <1>4 DEF Running, SplitRunning
  <2>2. Cardinality(SplitRunning') = Cardinality(SplitRunning) + 1
    BY <1>4, <2>1, FiniteRunning, FS_AddElement
  <2> QED
    BY <1>1, <1>2, <1>3, <2>2 DEF SplitsAbove, CountNeverHigh, Running
<1>5. CASE count < MaxJobs /\ SplitRunning' = SplitRunning
  BY <1>1, <1>2, <1>3, <1>5 DEF SplitsAbove, CountNeverHigh, Running
<1> QED
  BY <1>4, <1>5

\* An invoke that is counted out leaves the counted stages in the same step.
LEMMA CountDown ==
    ASSUME TypeOK, SplitsAbove, CountNeverHigh, NEW j \in Job, j \in Running,
           count' = IF count = 0 THEN 0 ELSE count - 1,
           Running' = Running \ {j}, SplitRunning' = SplitRunning \ {j}
    PROVE  SplitsAbove' /\ CountNeverHigh'
<1>1. /\ Cardinality(Running) \in Nat /\ Cardinality(Running') \in Nat
      /\ Cardinality(Running') = Cardinality(Running) - 1
  BY FiniteRunning, FS_RemoveElement, FS_CardinalityType
<1>2. /\ Cardinality(SplitRunning) \in Nat /\ Cardinality(SplitRunning') \in Nat
      /\ Cardinality(SplitRunning') >= Cardinality(SplitRunning) - 1
  BY FiniteRunning, FS_RemoveElement, FS_CardinalityType
<1>3. count \in Nat /\ MaxJobs \in Nat
  BY SessionAssumption, FiniteRunning DEF TypeOK, SessionTypes, JobTypes
<1>4. count' <= Cardinality(Running')
  BY <1>1, <1>3 DEF CountNeverHigh, Running
<1>5. count' <= MaxJobs + Cardinality(SplitRunning')
  BY <1>2, <1>3 DEF SplitsAbove
<1> QED
  BY <1>4, <1>5 DEF SplitsAbove, CountNeverHigh, Running

-----------------------------------------------------------------------------
(* What a step does to the counted invokes *)

\* An invoke that moves between stages is the only one that may enter or leave.
LEMMA MoveChanges ==
    ASSUME TypeOK, NEW j \in Job, NEW from, NEW to, Move(j, from, to)
    PROVE  /\ stage[j] = from /\ stage'[j] = to
           /\ \A k \in Job \ {j} : stage'[k] = stage[k]
           /\ from \in Counted \cup SplitCounted =>
                j \in Running /\ (j \in Split => j \in SplitRunning)
           /\ from \notin Counted \cup SplitCounted => j \notin Running
           /\ \/ to \in Counted \cup SplitCounted
              \/ from \notin Counted \cup SplitCounted
              => Running \subseteq Running' /\ SplitRunning \subseteq SplitRunning'
           /\ to \in Counted \cup SplitCounted /\ from \notin Counted \cup SplitCounted
              => /\ Running' = Running \cup {j}
                 /\ j \in Split => SplitRunning' = SplitRunning \cup {j}
                 /\ j \notin Split => SplitRunning' = SplitRunning
           /\ to \notin Counted \cup SplitCounted
              => /\ Running' = Running \ {j}
                 /\ SplitRunning' = SplitRunning \ {j}
<1>1. stage[j] = from /\ stage'[j] = to /\ \A k \in Job \ {j} : stage'[k] = stage[k]
  BY DEF Move, TypeOK, JobTypes
<1>2. Split \subseteq Job
  BY SessionAssumption
<1> QED
  BY <1>1, <1>2 DEF Running, SplitRunning

-----------------------------------------------------------------------------
(* The steps of an invoke *)

\* Invokes that are not splits keep the count.
LEMMA InvokeCounts ==
    ASSUME TypeOK, SplitsAbove, CountNeverHigh, NEW j \in Job \ Split,
           Admit(j) \/ Invoke(j) \/ Returns(j) \/ Abort(j)
    PROVE  SplitsAbove' /\ CountNeverHigh'
<1>0. count \in Nat
  BY SessionAssumption, FiniteRunning DEF TypeOK, SessionTypes, JobTypes
<1>1. CASE Admit(j)
  <2>1. \E to \in {"dropped", "admitted"} : Move(j, "new", to)
    BY <1>1 DEF Admit
  <2>2. j \notin Running /\ Running' = Running \cup {j} /\ SplitRunning' = SplitRunning
    BY <2>1, MoveChanges DEF Counted, SplitCounted
  <2> QED
    BY <1>1, <2>2, CountUp DEF Admit
<1>2. CASE Invoke(j)
  <2>1. Move(j, "admitted", "claimed") \/ Move(j, "claimed", "lent")
    BY <1>2 DEF Invoke
  <2>2. Running \subseteq Running' /\ SplitRunning \subseteq SplitRunning'
    BY <2>1, MoveChanges DEF Counted
  <2> QED
    BY <1>0, <1>2, <2>2, CountKept DEF Invoke, session
<1>3. CASE Returns(j)
  <2>1. Move(j, "lent", "returned") \/ Move(j, "admitted", "returned")
    BY <1>3 DEF Returns
  <2>2. Running \subseteq Running' /\ SplitRunning \subseteq SplitRunning'
    BY <2>1, MoveChanges DEF Counted
  <2> QED
    BY <1>0, <1>3, <2>2, CountKept DEF Returns, session
<1>4. CASE Abort(j)
  <2>1. Move(j, stage[j], "dropped")
    BY <1>4 DEF Abort, Move
  <2>2. Running \subseteq Running' /\ SplitRunning \subseteq SplitRunning'
    BY <2>1, MoveChanges DEF Counted
  <2> QED
    BY <1>0, <1>4, <2>2, CountKept DEF Abort, session
<1> QED
  BY <1>1, <1>2, <1>3, <1>4

\* The end of any invoke counts it out.
LEMMA EndCounts ==
    ASSUME TypeOK, SplitsAbove, CountNeverHigh, NEW j \in Job, Decrement(j)
    PROVE  SplitsAbove' /\ CountNeverHigh'
<1>1. Move(j, "returned", "done") \/ Move(j, "dropped", "done")
  BY DEF Decrement
<1>2. j \in Running /\ Running' = Running \ {j} /\ SplitRunning' = SplitRunning \ {j}
  BY <1>1, MoveChanges DEF Counted, SplitCounted
<1> QED
  BY <1>2, CountDown DEF Decrement

\* A split is counted once it is placed, until its last act.
LEMMA SplitCounts ==
    ASSUME TypeOK, SplitsAbove, CountNeverHigh, NEW j \in Split,
           Chunk(j) \/ TooLarge(j) \/ Receive(j) \/ SplitStep(j)
    PROVE  SplitsAbove' /\ CountNeverHigh'
<1>0. j \in Job /\ count \in Nat
  BY SessionAssumption, FiniteRunning DEF TypeOK, SessionTypes, JobTypes
<1> DEFINE Kept == Running \subseteq Running' /\ SplitRunning \subseteq SplitRunning'
<1>1. CASE Chunk(j) \/ TooLarge(j) \/ Deadline(j)
  <2>1. count' = count
    BY <1>1 DEF Chunk, TooLarge, Deadline, session
  <2>2. \/ stage' = stage
        \/ stage[j] \in Waiting /\ \E to \in Waiting : Move(j, stage[j], to)
    BY <1>1 DEF Chunk, TooLarge, Deadline, Move, Waiting
  <2>3. Kept
    <3>1. CASE stage' = stage
      BY <3>1 DEF Running, SplitRunning
    <3>2. CASE stage[j] \in Waiting /\ \E to \in Waiting : Move(j, stage[j], to)
      BY <1>0, <3>2, MoveChanges DEF Waiting, Counted, SplitCounted
    <3> QED
      BY <2>2, <3>1, <3>2
  <2> QED
    BY <1>0, <2>1, <2>3, CountKept
<1>2. CASE Look(j) \/ AfterLook(j) \/ Receive(j) \/ Place(j)
  <2>1. count' = count
    BY <1>2 DEF Look, AfterLook, Receive, Place, session
  <2>2. \E from \in {"look", "window", "new", "place"} : \E to : Move(j, from, to)
    BY <1>2 DEF Look, AfterLook, Receive, Place
  <2>3. Kept
    BY <1>0, <2>2, MoveChanges DEF Counted, SplitCounted
  <2> QED
    BY <1>0, <2>1, <2>3, CountKept
<1>3. CASE AdmitSplit(j)
  <2>1. CASE Move(j, "placed", "done") /\ count' = count
    <3>1. Kept
      BY <1>0, <2>1, MoveChanges DEF Counted, SplitCounted
    <3> QED
      BY <1>0, <2>1, <3>1, CountKept
  <2>2. CASE Move(j, "placed", "gate") /\ count' = count + 1
    <3>1. /\ j \notin Running /\ Running' = Running \cup {j}
          /\ SplitRunning' = SplitRunning \cup {j}
      BY <1>0, <2>2, MoveChanges DEF Counted, SplitCounted
    <3> QED
      BY <1>0, <2>2, <3>1, CountUp
  <2> QED
    BY <1>3, <2>1, <2>2 DEF AdmitSplit
<1>4. CASE GateTimesOut(j) \/ StartEngine(j) \/ Decode(j) \/ Answer(j)
  <2>1. count' = count
    BY <1>4 DEF GateTimesOut, StartEngine, Decode, Answer, session
  <2>2. \E from : \E to \in {"returned", "decode", "leaked", "answer"} : Move(j, from, to)
    BY <1>4 DEF GateTimesOut, StartEngine, Decode, Answer
  <2>3. Kept
    BY <1>0, <2>2, MoveChanges DEF Counted, SplitCounted
  <2> QED
    BY <1>0, <2>1, <2>3, CountKept
<1>5. CASE Decrement(j)
  BY <1>0, <1>5, EndCounts
<1> QED
  BY <1>1, <1>2, <1>3, <1>4, <1>5 DEF SplitStep

\* A refresh leaves the count or, in a heal, clears it.
LEMMA RefreshCounts ==
    ASSUME TypeOK, SplitsAbove, CountNeverHigh, NEW r \in Refresher, Refresh(r)
    PROVE  SplitsAbove' /\ CountNeverHigh'
<1>1. count \in Nat
  BY SessionAssumption, FiniteRunning DEF TypeOK, SessionTypes, JobTypes
<1>2. stage' = stage
  BY DEF Refresh, Claim, Detect, TakeSupervisor, Shutdown, StartOk, StartFailed,
     ReadSlots, ReadFlight, Heal, HealCancels, jobs
<1>3. count' = count \/ count' = 0
  BY DEF Refresh, Claim, Detect, TakeSupervisor, Shutdown, StartOk, StartFailed,
     ReadSlots, ReadFlight, Heal, HealCancels, session
<1>4. Running' = Running /\ SplitRunning' = SplitRunning
  BY <1>2 DEF Running, SplitRunning
<1> QED
  BY <1>1, <1>3, <1>4, CountKept

-----------------------------------------------------------------------------
(* The types *)

CountTyped == count \in 0..(MaxJobs + Cardinality(Split))

LEMMA Stages ==
    /\ "new" \in Stage /\ "place" \in Stage /\ "placed" \in Stage /\ "done" \in Stage
    /\ "admitted" \in Stage /\ "claimed" \in Stage /\ "lent" \in Stage
    /\ "returned" \in Stage /\ "dropped" \in Stage /\ "gate" \in Stage
    /\ "decode" \in Stage /\ "answer" \in Stage /\ "leaked" \in Stage
    /\ "look" \in Stage /\ "window" \in Stage /\ "asleep" \in Stage
    /\ "orphan" \in Stage
BY DEF Stage, Counted, SplitCounted, Waiting

\* Invokes that are not splits hold no gate.
LEMMA InvokeKeeps ==
    ASSUME Typed, CountTyped', NEW j \in Job \ Split,
           Admit(j) \/ Invoke(j) \/ Returns(j) \/ Abort(j) \/ Decrement(j)
    PROVE  Typed'
<1> SUFFICES /\ SessionTypes' /\ Numbered' /\ JobTypes' /\ SplitTypes' /\ GateHeld'
             /\ RefreshTypes' /\ KnowsWhose'
  BY DEF Typed, TypeOK
<1>a. SessionTypes /\ Numbered
  BY DEF Typed, TypeOK
<1>j. JobTypes
  BY DEF Typed, TypeOK
<1>s. SplitTypes /\ GateHeld
  BY DEF Typed, TypeOK
<1>r. RefreshTypes /\ KnowsWhose
  BY DEF Typed, TypeOK
<1>c. CountTyped'
  OBVIOUS
<1>1. CASE Admit(j)
  <2>1. SessionTypes'
    BY <1>1, <1>a, <1>r, <1>c, SessionAssumption
    DEF Admit, Move, splits, refresh, inbound, SessionTypes, RefreshTypes, KnowsWhose, CountTyped
  <2>2. Numbered'
    BY <1>1, <1>a
    DEF Admit, Move, splits, refresh, inbound, Numbered
  <2>3. JobTypes'
    BY <1>1, <1>a, <1>j, Stages
    DEF Admit, Move, splits, refresh, inbound, SessionTypes, JobTypes
  <2>4. SplitTypes' /\ GateHeld'
    BY <1>1, <1>j, <1>s, SessionAssumption
    DEF Admit, Move, splits, refresh, inbound, JobTypes, SplitTypes, GateHeld
  <2>5. RefreshTypes' /\ KnowsWhose'
    BY <1>1, <1>a, <1>r
    DEF Admit, Move, splits, refresh, inbound, SessionTypes, RefreshTypes, KnowsWhose
  <2> QED
    BY <2>1, <2>2, <2>3, <2>4, <2>5
<1>2. CASE Invoke(j)
  <2>1. SessionTypes'
    BY <1>2, <1>a, <1>r, <1>c, SessionAssumption
    DEF Invoke, Move, session, splits, refresh, inbound, SessionTypes, RefreshTypes, KnowsWhose, CountTyped
  <2>2. Numbered'
    BY <1>2, <1>a
    DEF Invoke, Move, session, splits, refresh, inbound, Numbered
  <2>3. JobTypes'
    BY <1>2, <1>a, <1>j, Stages
    DEF Invoke, Move, session, splits, refresh, inbound, SessionTypes, JobTypes
  <2>4. SplitTypes' /\ GateHeld'
    BY <1>2, <1>j, <1>s, SessionAssumption
    DEF Invoke, Move, session, splits, refresh, inbound, JobTypes, SplitTypes, GateHeld
  <2>5. RefreshTypes' /\ KnowsWhose'
    BY <1>2, <1>a, <1>r
    DEF Invoke, Move, session, splits, refresh, inbound, SessionTypes, RefreshTypes, KnowsWhose
  <2> QED
    BY <2>1, <2>2, <2>3, <2>4, <2>5
<1>3. CASE Returns(j)
  <2>1. SessionTypes'
    BY <1>3, <1>a, <1>r, <1>c, SessionAssumption
    DEF Returns, Move, session, splits, refresh, inbound, SessionTypes, RefreshTypes, KnowsWhose, CountTyped
  <2>2. Numbered'
    BY <1>3, <1>a
    DEF Returns, Move, session, splits, refresh, inbound, Numbered
  <2>3. JobTypes'
    BY <1>3, <1>a, <1>j, Stages
    DEF Returns, Move, session, splits, refresh, inbound, SessionTypes, JobTypes
  <2>4. SplitTypes' /\ GateHeld'
    BY <1>3, <1>j, <1>s, SessionAssumption
    DEF Returns, Move, session, splits, refresh, inbound, JobTypes, SplitTypes, GateHeld
  <2>5. RefreshTypes' /\ KnowsWhose'
    BY <1>3, <1>a, <1>r
    DEF Returns, Move, session, splits, refresh, inbound, SessionTypes, RefreshTypes, KnowsWhose
  <2> QED
    BY <2>1, <2>2, <2>3, <2>4, <2>5
<1>4. CASE Abort(j)
  <2>1. SessionTypes'
    BY <1>4, <1>a, <1>r, <1>c, SessionAssumption
    DEF Abort, session, splits, refresh, inbound, SessionTypes, RefreshTypes, KnowsWhose, CountTyped
  <2>2. Numbered'
    BY <1>4, <1>a
    DEF Abort, session, splits, refresh, inbound, Numbered
  <2>3. JobTypes'
    BY <1>4, <1>a, <1>j, Stages
    DEF Abort, session, splits, refresh, inbound, SessionTypes, JobTypes
  <2>4. SplitTypes' /\ GateHeld'
    BY <1>4, <1>j, <1>s, SessionAssumption
    DEF Abort, session, splits, refresh, inbound, JobTypes, SplitTypes, GateHeld
  <2>5. RefreshTypes' /\ KnowsWhose'
    BY <1>4, <1>a, <1>r
    DEF Abort, session, splits, refresh, inbound, SessionTypes, RefreshTypes, KnowsWhose
  <2> QED
    BY <2>1, <2>2, <2>3, <2>4, <2>5
<1>5. CASE Decrement(j)
  <2>1. SessionTypes'
    BY <1>5, <1>a, <1>r, <1>c, SessionAssumption
    DEF Decrement, Move, inbound, refresh, SessionTypes, RefreshTypes, KnowsWhose, CountTyped
  <2>2. Numbered'
    BY <1>5, <1>a
    DEF Decrement, Move, inbound, refresh, Numbered
  <2>3. JobTypes'
    BY <1>5, <1>a, <1>j, Stages
    DEF Decrement, Move, inbound, refresh, SessionTypes, JobTypes
  <2>4. SplitTypes' /\ GateHeld'
    BY <1>5, <1>j, <1>s, SessionAssumption
    DEF Decrement, Move, inbound, refresh, JobTypes, SplitTypes, GateHeld
  <2>5. RefreshTypes' /\ KnowsWhose'
    BY <1>5, <1>a, <1>r
    DEF Decrement, Move, inbound, refresh, SessionTypes, RefreshTypes, KnowsWhose
  <2> QED
    BY <2>1, <2>2, <2>3, <2>4, <2>5
<1> QED
  BY <1>1, <1>2, <1>3, <1>4, <1>5

\* A split takes the gate when it starts its engine and keeps it, with its
\* supervisor, to its end.
LEMMA SplitKeeps ==
    ASSUME Typed, CountTyped', NEW j \in Split,
           Chunk(j) \/ TooLarge(j) \/ Receive(j) \/ SplitStep(j)
    PROVE  Typed'
<1> SUFFICES /\ SessionTypes' /\ Numbered' /\ JobTypes' /\ SplitTypes' /\ GateHeld'
             /\ RefreshTypes' /\ KnowsWhose'
  BY DEF Typed, TypeOK
<1>a. SessionTypes /\ Numbered
  BY DEF Typed, TypeOK
<1>j. JobTypes
  BY DEF Typed, TypeOK
<1>s. SplitTypes /\ GateHeld
  BY DEF Typed, TypeOK
<1>r. RefreshTypes /\ KnowsWhose
  BY DEF Typed, TypeOK
<1>c. CountTyped'
  OBVIOUS
<1>1. CASE Chunk(j)
  <2>1. SessionTypes'
    BY <1>1, <1>a, <1>r, <1>c, SessionAssumption
    DEF Chunk, session, refresh, SessionTypes, RefreshTypes, KnowsWhose, CountTyped
  <2>2. Numbered'
    BY <1>1, <1>a
    DEF Chunk, session, refresh, Numbered
  <2>3. JobTypes'
    BY <1>1, <1>a, <1>j, Stages
    DEF Chunk, session, refresh, SessionTypes, JobTypes
  <2>4. SplitTypes' /\ GateHeld'
    BY <1>1, <1>j, <1>s, SessionAssumption
    DEF Chunk, session, refresh, JobTypes, SplitTypes, GateHeld
  <2>5. RefreshTypes' /\ KnowsWhose'
    BY <1>1, <1>a, <1>r
    DEF Chunk, session, refresh, SessionTypes, RefreshTypes, KnowsWhose
  <2> QED
    BY <2>1, <2>2, <2>3, <2>4, <2>5
<1>2. CASE TooLarge(j)
  <2>1. SessionTypes'
    <3>1. faults' \in 0..MaxFaults
      BY <1>2, <1>a, SessionAssumption DEF TooLarge, SessionTypes
    <3> QED
      BY <1>2, <1>a, <1>r, <3>1 DEF TooLarge, session, refresh, SessionTypes, RefreshTypes, KnowsWhose
  <2>2. Numbered'
    BY <1>2, <1>a
    DEF TooLarge, session, refresh, Numbered
  <2>3. JobTypes'
    BY <1>2, <1>a, <1>j, Stages
    DEF TooLarge, session, refresh, SessionTypes, JobTypes
  <2>4. SplitTypes' /\ GateHeld'
    BY <1>2, <1>j, <1>s, SessionAssumption
    DEF TooLarge, session, refresh, JobTypes, SplitTypes, GateHeld
  <2>5. RefreshTypes' /\ KnowsWhose'
    BY <1>2, <1>a, <1>r
    DEF TooLarge, session, refresh, SessionTypes, RefreshTypes, KnowsWhose
  <2> QED
    BY <2>1, <2>2, <2>3, <2>4, <2>5
<1>3. CASE Deadline(j)
  <2>1. SessionTypes'
    BY <1>3, <1>a, <1>r, <1>c, SessionAssumption
    DEF Deadline, session, refresh, SessionTypes, RefreshTypes, KnowsWhose, CountTyped
  <2>2. Numbered'
    BY <1>3, <1>a
    DEF Deadline, session, refresh, Numbered
  <2>3. JobTypes'
    BY <1>3, <1>a, <1>j, Stages
    DEF Deadline, session, refresh, SessionTypes, JobTypes
  <2>4. SplitTypes' /\ GateHeld'
    BY <1>3, <1>j, <1>s, SessionAssumption
    DEF Deadline, session, refresh, JobTypes, SplitTypes, GateHeld
  <2>5. RefreshTypes' /\ KnowsWhose'
    BY <1>3, <1>a, <1>r
    DEF Deadline, session, refresh, SessionTypes, RefreshTypes, KnowsWhose
  <2> QED
    BY <2>1, <2>2, <2>3, <2>4, <2>5
<1>4. CASE Look(j)
  <2>1. SessionTypes'
    BY <1>4, <1>a, <1>r, <1>c, SessionAssumption
    DEF Look, Move, Forget, session, inbound, refresh, SessionTypes, RefreshTypes, KnowsWhose, CountTyped
  <2>2. Numbered'
    BY <1>4, <1>a
    DEF Look, Move, Forget, session, inbound, refresh, Numbered
  <2>3. JobTypes'
    BY <1>4, <1>a, <1>j, Stages
    DEF Look, Move, Forget, session, inbound, refresh, SessionTypes, JobTypes
  <2>4. SplitTypes' /\ GateHeld'
    BY <1>4, <1>j, <1>s, SessionAssumption
    DEF Look, Move, Forget, session, inbound, refresh, JobTypes, SplitTypes, GateHeld
  <2>5. RefreshTypes' /\ KnowsWhose'
    BY <1>4, <1>a, <1>r
    DEF Look, Move, Forget, session, inbound, refresh, SessionTypes, RefreshTypes, KnowsWhose
  <2> QED
    BY <2>1, <2>2, <2>3, <2>4, <2>5
<1>5. CASE AfterLook(j)
  <2>1. SessionTypes'
    BY <1>5, <1>a, <1>r, <1>c, SessionAssumption
    DEF AfterLook, Move, Forget, session, inbound, refresh, SessionTypes, RefreshTypes, KnowsWhose, CountTyped
  <2>2. Numbered'
    BY <1>5, <1>a
    DEF AfterLook, Move, Forget, session, inbound, refresh, Numbered
  <2>3. JobTypes'
    BY <1>5, <1>a, <1>j, Stages
    DEF AfterLook, Move, Forget, session, inbound, refresh, SessionTypes, JobTypes
  <2>4. SplitTypes' /\ GateHeld'
    BY <1>5, <1>j, <1>s, SessionAssumption
    DEF AfterLook, Move, Forget, session, inbound, refresh, JobTypes, SplitTypes, GateHeld
  <2>5. RefreshTypes' /\ KnowsWhose'
    BY <1>5, <1>a, <1>r
    DEF AfterLook, Move, Forget, session, inbound, refresh, SessionTypes, RefreshTypes, KnowsWhose
  <2> QED
    BY <2>1, <2>2, <2>3, <2>4, <2>5
<1>6. CASE Receive(j)
  <2>1. SessionTypes'
    BY <1>6, <1>a, <1>r, <1>c, SessionAssumption
    DEF Receive, Move, session, splits, refresh, inbound, SessionTypes, RefreshTypes, KnowsWhose, CountTyped
  <2>2. Numbered'
    BY <1>6, <1>a
    DEF Receive, Move, session, splits, refresh, inbound, Numbered
  <2>3. JobTypes'
    BY <1>6, <1>a, <1>j, Stages
    DEF Receive, Move, session, splits, refresh, inbound, SessionTypes, JobTypes
  <2>4. SplitTypes' /\ GateHeld'
    BY <1>6, <1>j, <1>s, SessionAssumption
    DEF Receive, Move, session, splits, refresh, inbound, JobTypes, SplitTypes, GateHeld
  <2>5. RefreshTypes' /\ KnowsWhose'
    BY <1>6, <1>a, <1>r
    DEF Receive, Move, session, splits, refresh, inbound, SessionTypes, RefreshTypes, KnowsWhose
  <2> QED
    BY <2>1, <2>2, <2>3, <2>4, <2>5
<1>7. CASE Place(j)
  <2>1. SessionTypes'
    BY <1>7, <1>a, <1>r, <1>c, SessionAssumption
    DEF Place, Move, session, inbound, refresh, SessionTypes, RefreshTypes, KnowsWhose, CountTyped
  <2>2. Numbered'
    BY <1>7, <1>a
    DEF Place, Move, session, inbound, refresh, Numbered
  <2>3. JobTypes'
    BY <1>7, <1>a, <1>j, Stages
    DEF Place, Move, session, inbound, refresh, SessionTypes, JobTypes
  <2>4. SplitTypes' /\ GateHeld'
    BY <1>7, <1>j, <1>s, SessionAssumption
    DEF Place, Move, session, inbound, refresh, JobTypes, SplitTypes, GateHeld
  <2>5. RefreshTypes' /\ KnowsWhose'
    BY <1>7, <1>a, <1>r
    DEF Place, Move, session, inbound, refresh, SessionTypes, RefreshTypes, KnowsWhose
  <2> QED
    BY <2>1, <2>2, <2>3, <2>4, <2>5
<1>8. CASE AdmitSplit(j)
  <2>1. SessionTypes'
    BY <1>8, <1>a, <1>r, <1>c, SessionAssumption
    DEF AdmitSplit, Move, inbound, refresh, SessionTypes, RefreshTypes, KnowsWhose, CountTyped
  <2>2. Numbered'
    BY <1>8, <1>a
    DEF AdmitSplit, Move, inbound, refresh, Numbered
  <2>3. JobTypes'
    BY <1>8, <1>a, <1>j, Stages
    DEF AdmitSplit, Move, inbound, refresh, SessionTypes, JobTypes
  <2>4. SplitTypes' /\ GateHeld'
    BY <1>8, <1>j, <1>s, SessionAssumption
    DEF AdmitSplit, Move, inbound, refresh, JobTypes, SplitTypes, GateHeld
  <2>5. RefreshTypes' /\ KnowsWhose'
    BY <1>8, <1>a, <1>r
    DEF AdmitSplit, Move, inbound, refresh, SessionTypes, RefreshTypes, KnowsWhose
  <2> QED
    BY <2>1, <2>2, <2>3, <2>4, <2>5
<1>9. CASE GateTimesOut(j)
  <2>1. SessionTypes'
    BY <1>9, <1>a, <1>r, <1>c, SessionAssumption
    DEF GateTimesOut, Move, GateTaken, session, splits, refresh, inbound, SessionTypes, RefreshTypes, KnowsWhose, CountTyped
  <2>2. Numbered'
    BY <1>9, <1>a
    DEF GateTimesOut, Move, GateTaken, session, splits, refresh, inbound, Numbered
  <2>3. JobTypes'
    BY <1>9, <1>a, <1>j, Stages
    DEF GateTimesOut, Move, GateTaken, session, splits, refresh, inbound, SessionTypes, JobTypes
  <2>4. SplitTypes' /\ GateHeld'
    BY <1>9, <1>j, <1>s, SessionAssumption
    DEF GateTimesOut, Move, GateTaken, session, splits, refresh, inbound, JobTypes, SplitTypes, GateHeld
  <2>5. RefreshTypes' /\ KnowsWhose'
    BY <1>9, <1>a, <1>r
    DEF GateTimesOut, Move, GateTaken, session, splits, refresh, inbound, SessionTypes, RefreshTypes, KnowsWhose
  <2> QED
    BY <2>1, <2>2, <2>3, <2>4, <2>5
<1>10. CASE StartEngine(j)
  <2>1. SessionTypes'
    BY <1>10, <1>a, <1>r, <1>c, SessionAssumption
    DEF StartEngine, Move, session, inbound, refresh, SessionTypes, RefreshTypes, KnowsWhose, CountTyped
  <2>2. Numbered'
    BY <1>10, <1>a
    DEF StartEngine, Move, session, inbound, refresh, Numbered
  <2>3. JobTypes'
    BY <1>10, <1>a, <1>j, Stages
    DEF StartEngine, Move, session, inbound, refresh, SessionTypes, JobTypes
  <2>4. SplitTypes' /\ GateHeld'
    BY <1>10, <1>j, <1>s, SessionAssumption
    DEF StartEngine, Move, session, inbound, refresh, JobTypes, SplitTypes, GateHeld
  <2>5. RefreshTypes' /\ KnowsWhose'
    BY <1>10, <1>a, <1>r
    DEF StartEngine, Move, session, inbound, refresh, SessionTypes, RefreshTypes, KnowsWhose
  <2> QED
    BY <2>1, <2>2, <2>3, <2>4, <2>5
<1>11. CASE Decode(j)
  <2>1. SessionTypes'
    BY <1>11, <1>a, <1>r, <1>c, SessionAssumption
    DEF Decode, Move, session, splits, refresh, inbound, SessionTypes, RefreshTypes, KnowsWhose, CountTyped
  <2>2. Numbered'
    BY <1>11, <1>a
    DEF Decode, Move, session, splits, refresh, inbound, Numbered
  <2>3. JobTypes'
    BY <1>11, <1>a, <1>j, Stages
    DEF Decode, Move, session, splits, refresh, inbound, SessionTypes, JobTypes
  <2>4. SplitTypes' /\ GateHeld'
    BY <1>11, <1>j, <1>s, SessionAssumption
    DEF Decode, Move, session, splits, refresh, inbound, JobTypes, SplitTypes, GateHeld
  <2>5. RefreshTypes' /\ KnowsWhose'
    BY <1>11, <1>a, <1>r
    DEF Decode, Move, session, splits, refresh, inbound, SessionTypes, RefreshTypes, KnowsWhose
  <2> QED
    BY <2>1, <2>2, <2>3, <2>4, <2>5
<1>12. CASE Answer(j)
  <2>1. SessionTypes'
    BY <1>12, <1>a, <1>r, <1>c, SessionAssumption
    DEF Answer, Move, session, splits, refresh, inbound, SessionTypes, RefreshTypes, KnowsWhose, CountTyped
  <2>2. Numbered'
    BY <1>12, <1>a
    DEF Answer, Move, session, splits, refresh, inbound, Numbered
  <2>3. JobTypes'
    BY <1>12, <1>a, <1>j, Stages
    DEF Answer, Move, session, splits, refresh, inbound, SessionTypes, JobTypes
  <2>4. SplitTypes' /\ GateHeld'
    BY <1>12, <1>j, <1>s, SessionAssumption
    DEF Answer, Move, session, splits, refresh, inbound, JobTypes, SplitTypes, GateHeld
  <2>5. RefreshTypes' /\ KnowsWhose'
    BY <1>12, <1>a, <1>r
    DEF Answer, Move, session, splits, refresh, inbound, SessionTypes, RefreshTypes, KnowsWhose
  <2> QED
    BY <2>1, <2>2, <2>3, <2>4, <2>5
<1>13. CASE Decrement(j)
  <2>1. SessionTypes'
    BY <1>13, <1>a, <1>r, <1>c, SessionAssumption
    DEF Decrement, Move, inbound, refresh, SessionTypes, RefreshTypes, KnowsWhose, CountTyped
  <2>2. Numbered'
    BY <1>13, <1>a
    DEF Decrement, Move, inbound, refresh, Numbered
  <2>3. JobTypes'
    BY <1>13, <1>a, <1>j, Stages
    DEF Decrement, Move, inbound, refresh, SessionTypes, JobTypes
  <2>4. SplitTypes' /\ GateHeld'
    BY <1>13, <1>j, <1>s, SessionAssumption
    DEF Decrement, Move, inbound, refresh, JobTypes, SplitTypes, GateHeld
  <2>5. RefreshTypes' /\ KnowsWhose'
    BY <1>13, <1>a, <1>r
    DEF Decrement, Move, inbound, refresh, SessionTypes, RefreshTypes, KnowsWhose
  <2> QED
    BY <2>1, <2>2, <2>3, <2>4, <2>5
<1> QED
  BY <1>1, <1>2, <1>3, <1>4, <1>5, <1>6, <1>7, <1>8, <1>9, <1>10, <1>11, <1>12, <1>13 DEF SplitStep

\* A refresh numbers the supervisor it starts after all before it.
LEMMA RefreshKeeps ==
    ASSUME Typed, CountTyped', NEW r \in Refresher,
           Refresh(r)
    PROVE  Typed'
<1> SUFFICES /\ SessionTypes' /\ Numbered' /\ JobTypes' /\ SplitTypes' /\ GateHeld'
             /\ RefreshTypes' /\ KnowsWhose'
  BY DEF Typed, TypeOK
<1>a. SessionTypes /\ Numbered
  BY DEF Typed, TypeOK
<1>j. JobTypes
  BY DEF Typed, TypeOK
<1>s. SplitTypes /\ GateHeld
  BY DEF Typed, TypeOK
<1>r. RefreshTypes /\ KnowsWhose
  BY DEF Typed, TypeOK
<1>c. CountTyped'
  OBVIOUS
<1>1. CASE Claim(r)
  <2>1. SessionTypes'
    BY <1>1, <1>a, <1>r, <1>c, SessionAssumption
    DEF Claim, Goto, jobs, splits, inbound, SessionTypes, RefreshTypes, KnowsWhose, CountTyped
  <2>2. Numbered'
    BY <1>1, <1>a
    DEF Claim, Goto, jobs, splits, inbound, Numbered
  <2>3. JobTypes'
    BY <1>1, <1>a, <1>j, Stages
    DEF Claim, Goto, jobs, splits, inbound, SessionTypes, JobTypes
  <2>4. SplitTypes' /\ GateHeld'
    BY <1>1, <1>j, <1>s, SessionAssumption
    DEF Claim, Goto, jobs, splits, inbound, JobTypes, SplitTypes, GateHeld
  <2>5. RefreshTypes' /\ KnowsWhose'
    BY <1>1, <1>a, <1>r
    DEF Claim, Goto, jobs, splits, inbound, SessionTypes, RefreshTypes, KnowsWhose
  <2> QED
    BY <2>1, <2>2, <2>3, <2>4, <2>5
<1>2. CASE Detect(r)
  <2>1. SessionTypes'
    <3>1. faults' \in 0..MaxFaults
      BY <1>2, <1>a, SessionAssumption DEF Detect, SessionTypes
    <3>2. pending' \in BOOLEAN
      BY <1>2, <1>a DEF Detect, SessionTypes
    <3> QED
      BY <1>2, <1>a, <1>r, <3>1, <3>2 DEF Detect, Goto, ForgetTarget, jobs, splits, inbound, SessionTypes, RefreshTypes, KnowsWhose
  <2>2. Numbered'
    BY <1>2, <1>a
    DEF Detect, Goto, ForgetTarget, jobs, splits, inbound, Numbered
  <2>3. JobTypes'
    BY <1>2, <1>a, <1>j, Stages
    DEF Detect, Goto, ForgetTarget, jobs, splits, inbound, SessionTypes, JobTypes
  <2>4. SplitTypes' /\ GateHeld'
    BY <1>2, <1>j, <1>s, SessionAssumption
    DEF Detect, Goto, ForgetTarget, jobs, splits, inbound, JobTypes, SplitTypes, GateHeld
  <2>5. RefreshTypes' /\ KnowsWhose'
    <3>1. pc' \in [Refresher -> {"idle", "detect", "take", "shutdown", "start", "slots",
                             "flight", "heal", "cancel"}]
      BY <1>2, <1>r DEF Detect, Goto, RefreshTypes
    <3>2. target' \in [Refresher -> 0..MaxChanges]
      BY <1>2, <1>r, SessionAssumption DEF Detect, ForgetTarget, RefreshTypes
    <3>3. doomed' \in [Refresher -> DOMAIN built' \cup {0}]
      BY <1>2, <1>a, <1>r DEF Detect, SessionTypes, RefreshTypes
    <3>4. KnowsWhose'
      BY <1>2, <1>r DEF Detect, Goto, RefreshTypes, KnowsWhose
    <3> QED
      BY <1>2, <1>a, <1>r, <3>1, <3>2, <3>3, <3>4 DEF Detect, Goto, ForgetTarget, jobs, splits, inbound, SessionTypes, RefreshTypes, KnowsWhose
  <2> QED
    BY <2>1, <2>2, <2>3, <2>4, <2>5
<1>3. CASE TakeSupervisor(r)
  <2>1. SessionTypes'
    BY <1>3, <1>a, <1>r, <1>c, SessionAssumption
    DEF TakeSupervisor, Goto, ForgetTarget, jobs, splits, inbound, SessionTypes, RefreshTypes, KnowsWhose, CountTyped
  <2>2. Numbered'
    BY <1>3, <1>a
    DEF TakeSupervisor, Goto, ForgetTarget, jobs, splits, inbound, Numbered
  <2>3. JobTypes'
    BY <1>3, <1>a, <1>j, Stages
    DEF TakeSupervisor, Goto, ForgetTarget, jobs, splits, inbound, SessionTypes, JobTypes
  <2>4. SplitTypes' /\ GateHeld'
    BY <1>3, <1>j, <1>s, SessionAssumption
    DEF TakeSupervisor, Goto, ForgetTarget, jobs, splits, inbound, JobTypes, SplitTypes, GateHeld
  <2>5. RefreshTypes' /\ KnowsWhose'
    <3>1. pc' \in [Refresher -> {"idle", "detect", "take", "shutdown", "start", "slots",
                             "flight", "heal", "cancel"}]
      BY <1>3, <1>r DEF TakeSupervisor, Goto, RefreshTypes
    <3>2. target' \in [Refresher -> 0..MaxChanges]
      BY <1>3, <1>r, SessionAssumption DEF TakeSupervisor, ForgetTarget, RefreshTypes
    <3>3. doomed' \in [Refresher -> DOMAIN built' \cup {0}]
      BY <1>3, <1>a, <1>r DEF TakeSupervisor, SessionTypes, RefreshTypes
    <3>4. KnowsWhose'
      BY <1>3, <1>r DEF TakeSupervisor, Goto, RefreshTypes, KnowsWhose
    <3> QED
      BY <1>3, <1>a, <1>r, <3>1, <3>2, <3>3, <3>4 DEF TakeSupervisor, Goto, ForgetTarget, jobs, splits, inbound, SessionTypes, RefreshTypes, KnowsWhose
  <2> QED
    BY <2>1, <2>2, <2>3, <2>4, <2>5
<1>4. CASE Shutdown(r)
  <2>1. SessionTypes'
    BY <1>4, <1>a, <1>r, <1>c, SessionAssumption
    DEF Shutdown, Goto, session, jobs, splits, refresh, inbound, SessionTypes, RefreshTypes, KnowsWhose, CountTyped
  <2>2. Numbered'
    BY <1>4, <1>a
    DEF Shutdown, Goto, session, jobs, splits, refresh, inbound, Numbered
  <2>3. JobTypes'
    BY <1>4, <1>a, <1>j, Stages
    DEF Shutdown, Goto, session, jobs, splits, refresh, inbound, SessionTypes, JobTypes
  <2>4. SplitTypes' /\ GateHeld'
    BY <1>4, <1>j, <1>s, SessionAssumption
    DEF Shutdown, Goto, session, jobs, splits, refresh, inbound, JobTypes, SplitTypes, GateHeld
  <2>5. RefreshTypes' /\ KnowsWhose'
    BY <1>4, <1>a, <1>r
    DEF Shutdown, Goto, session, jobs, splits, refresh, inbound, SessionTypes, RefreshTypes, KnowsWhose
  <2> QED
    BY <2>1, <2>2, <2>3, <2>4, <2>5
<1>5. CASE StartOk(r)
  <2>1. PICK n \in Nat : DOMAIN built = 1..n
    BY <1>a DEF Numbered
  <2>2. Cardinality(DOMAIN built) = n
    BY <2>1, FS_Interval
  <2>3. built' = [h \in 1..(n + 1) |-> IF h = n + 1 THEN target[r] ELSE built[h]]
    BY <1>5, <2>2 DEF StartOk
  <2>4. DOMAIN built' = 1..(n + 1) /\ DOMAIN built \subseteq DOMAIN built'
    BY <2>1, <2>3
  <2>5. \A g \in DOMAIN built' : built'[g] \in 0..MaxChanges
    <3>1. SUFFICES ASSUME NEW g \in 1..(n + 1)
                   PROVE  built'[g] \in 0..MaxChanges
      BY <2>4
    <3>2. target[r] \in 0..MaxChanges
      BY <1>r DEF RefreshTypes
    <3>3. g # n + 1 => built[g] \in 0..MaxChanges
      BY <1>a, <2>1 DEF SessionTypes
    <3> QED
      BY <2>3, <3>2, <3>3
  <2>6. supervisor' \in DOMAIN built' /\ up' \subseteq DOMAIN built'
    BY <1>5, <2>2, <2>4 DEF StartOk
  <2>7. SessionTypes' /\ Numbered'
    <3>1. /\ pending' = pending /\ restarting' = FALSE /\ wanted' = wanted
          /\ cachedFor' = cachedFor /\ faults' = faults
      BY <1>5 DEF StartOk
    <3>2. Numbered'
      BY <2>4 DEF Numbered
    <3>3. SessionTypes'
      BY <1>a, <1>c, <2>5, <2>6, <3>1 DEF SessionTypes, CountTyped
    <3> QED
      BY <3>2, <3>3
  <2>8. JobTypes'
    <3>1. stage' = stage /\ uses' = uses /\ canceled' = canceled
      BY <1>5 DEF StartOk, jobs
    <3> QED
      BY <1>j, <2>4, <3>1 DEF JobTypes
  <2>9. SplitTypes' /\ GateHeld'
    BY <1>5, <1>j, <1>s DEF StartOk, jobs, splits, inbound, JobTypes, SplitTypes, GateHeld
  <2>10. RefreshTypes' /\ KnowsWhose'
    <3>1. doomed' \in [Refresher -> DOMAIN built' \cup {0}]
      BY <1>5, <1>r, <2>4 DEF StartOk, RefreshTypes
    <3>2. target' \in [Refresher -> 0..MaxChanges]
      BY <1>5, <1>r, SessionAssumption DEF StartOk, ForgetTarget, RefreshTypes
    <3> QED
      BY <1>5, <1>r, <3>1, <3>2 DEF StartOk, Goto, RefreshTypes, KnowsWhose
  <2> QED
    BY <2>7, <2>8, <2>9, <2>10
<1>6. CASE StartFailed(r)
  <2>1. SessionTypes'
    <3>1. faults' \in 0..MaxFaults
      BY <1>6, <1>a, SessionAssumption DEF StartFailed, SessionTypes
    <3> QED
      BY <1>6, <1>a, <1>r, <3>1 DEF StartFailed, Goto, ForgetTarget, jobs, splits, inbound, SessionTypes, RefreshTypes, KnowsWhose
  <2>2. Numbered'
    BY <1>6, <1>a
    DEF StartFailed, Goto, ForgetTarget, jobs, splits, inbound, Numbered
  <2>3. JobTypes'
    BY <1>6, <1>a, <1>j, Stages
    DEF StartFailed, Goto, ForgetTarget, jobs, splits, inbound, SessionTypes, JobTypes
  <2>4. SplitTypes' /\ GateHeld'
    BY <1>6, <1>j, <1>s, SessionAssumption
    DEF StartFailed, Goto, ForgetTarget, jobs, splits, inbound, JobTypes, SplitTypes, GateHeld
  <2>5. RefreshTypes' /\ KnowsWhose'
    <3>1. pc' \in [Refresher -> {"idle", "detect", "take", "shutdown", "start", "slots",
                             "flight", "heal", "cancel"}]
      BY <1>6, <1>r DEF StartFailed, Goto, RefreshTypes
    <3>2. target' \in [Refresher -> 0..MaxChanges]
      BY <1>6, <1>r, SessionAssumption DEF StartFailed, ForgetTarget, RefreshTypes
    <3>3. doomed' \in [Refresher -> DOMAIN built' \cup {0}]
      BY <1>6, <1>a, <1>r DEF StartFailed, SessionTypes, RefreshTypes
    <3>4. KnowsWhose'
      BY <1>6, <1>r DEF StartFailed, Goto, RefreshTypes, KnowsWhose
    <3> QED
      BY <1>6, <1>a, <1>r, <3>1, <3>2, <3>3, <3>4 DEF StartFailed, Goto, ForgetTarget, jobs, splits, inbound, SessionTypes, RefreshTypes, KnowsWhose
  <2> QED
    BY <2>1, <2>2, <2>3, <2>4, <2>5
<1>7. CASE ReadSlots(r)
  <2>1. SessionTypes'
    BY <1>7, <1>a, <1>r, <1>c, SessionAssumption
    DEF ReadSlots, Goto, session, jobs, splits, inbound, SessionTypes, RefreshTypes, KnowsWhose, CountTyped
  <2>2. Numbered'
    BY <1>7, <1>a
    DEF ReadSlots, Goto, session, jobs, splits, inbound, Numbered
  <2>3. JobTypes'
    BY <1>7, <1>a, <1>j, Stages
    DEF ReadSlots, Goto, session, jobs, splits, inbound, SessionTypes, JobTypes
  <2>4. SplitTypes' /\ GateHeld'
    BY <1>7, <1>j, <1>s, SessionAssumption
    DEF ReadSlots, Goto, session, jobs, splits, inbound, JobTypes, SplitTypes, GateHeld
  <2>5. RefreshTypes' /\ KnowsWhose'
    BY <1>7, <1>a, <1>r
    DEF ReadSlots, Goto, session, jobs, splits, inbound, SessionTypes, RefreshTypes, KnowsWhose
  <2> QED
    BY <2>1, <2>2, <2>3, <2>4, <2>5
<1>8. CASE ReadFlight(r)
  <2>1. SessionTypes'
    BY <1>8, <1>a, <1>r, <1>c, SessionAssumption
    DEF ReadFlight, Goto, session, jobs, splits, inbound, SessionTypes, RefreshTypes, KnowsWhose, CountTyped
  <2>2. Numbered'
    BY <1>8, <1>a
    DEF ReadFlight, Goto, session, jobs, splits, inbound, Numbered
  <2>3. JobTypes'
    BY <1>8, <1>a, <1>j, Stages
    DEF ReadFlight, Goto, session, jobs, splits, inbound, SessionTypes, JobTypes
  <2>4. SplitTypes' /\ GateHeld'
    BY <1>8, <1>j, <1>s, SessionAssumption
    DEF ReadFlight, Goto, session, jobs, splits, inbound, JobTypes, SplitTypes, GateHeld
  <2>5. RefreshTypes' /\ KnowsWhose'
    BY <1>8, <1>a, <1>r
    DEF ReadFlight, Goto, session, jobs, splits, inbound, SessionTypes, RefreshTypes, KnowsWhose
  <2> QED
    BY <2>1, <2>2, <2>3, <2>4, <2>5
<1>9. CASE Heal(r)
  <2>1. SessionTypes'
    BY <1>9, <1>a, <1>r, <1>c, SessionAssumption
    DEF Heal, Goto, jobs, splits, inbound, SessionTypes, RefreshTypes, KnowsWhose, CountTyped
  <2>2. Numbered'
    BY <1>9, <1>a
    DEF Heal, Goto, jobs, splits, inbound, Numbered
  <2>3. JobTypes'
    BY <1>9, <1>a, <1>j, Stages
    DEF Heal, Goto, jobs, splits, inbound, SessionTypes, JobTypes
  <2>4. SplitTypes' /\ GateHeld'
    BY <1>9, <1>j, <1>s, SessionAssumption
    DEF Heal, Goto, jobs, splits, inbound, JobTypes, SplitTypes, GateHeld
  <2>5. RefreshTypes' /\ KnowsWhose'
    BY <1>9, <1>a, <1>r
    DEF Heal, Goto, jobs, splits, inbound, SessionTypes, RefreshTypes, KnowsWhose
  <2> QED
    BY <2>1, <2>2, <2>3, <2>4, <2>5
<1>10. CASE HealCancels(r)
  <2>1. SessionTypes'
    BY <1>10, <1>a, <1>r, <1>c, SessionAssumption
    DEF HealCancels, Goto, session, splits, refresh, inbound, SessionTypes, RefreshTypes, KnowsWhose, CountTyped
  <2>2. Numbered'
    BY <1>10, <1>a
    DEF HealCancels, Goto, session, splits, refresh, inbound, Numbered
  <2>3. JobTypes'
    BY <1>10, <1>a, <1>j, Stages
    DEF HealCancels, Goto, session, splits, refresh, inbound, SessionTypes, JobTypes
  <2>4. SplitTypes' /\ GateHeld'
    BY <1>10, <1>j, <1>s, SessionAssumption
    DEF HealCancels, Goto, session, splits, refresh, inbound, JobTypes, SplitTypes, GateHeld
  <2>5. RefreshTypes' /\ KnowsWhose'
    BY <1>10, <1>a, <1>r
    DEF HealCancels, Goto, session, splits, refresh, inbound, SessionTypes, RefreshTypes, KnowsWhose
  <2> QED
    BY <2>1, <2>2, <2>3, <2>4, <2>5
<1> QED
  BY <1>1, <1>2, <1>3, <1>4, <1>5, <1>6, <1>7, <1>8, <1>9, <1>10 DEF Refresh

\* A change of the devices counts nobody and starts nothing.
LEMMA DevicesKeep ==
    ASSUME Inv, DevicesChange
    PROVE  Inv'
<1>1. SessionTypes' /\ JobTypes' /\ SplitTypes' /\ RefreshTypes'
  <2>1. wanted' \in 0..MaxChanges /\ pending' \in BOOLEAN
    BY SessionAssumption DEF Inv, Typed, TypeOK, SessionTypes, DevicesChange
  <2>2. UNCHANGED <<count, restarting, supervisor, cachedFor, built, up, faults, stage, uses, canceled>>
    BY DEF DevicesChange, jobs
  <2>3. UNCHANGED <<pieces, overdue, gate, deviceless, pc, target, doomed, sawBusy, sawFlight>>
    BY DEF DevicesChange, splits, inbound, refresh
  <2>4. SessionTypes'
    BY <2>1, <2>2 DEF Inv, Typed, TypeOK, SessionTypes
  <2>5. JobTypes' /\ SplitTypes'
    BY <2>2, <2>3 DEF Inv, Typed, TypeOK, JobTypes, SplitTypes
  <2>6. RefreshTypes'
    BY <2>2, <2>3 DEF Inv, Typed, TypeOK, RefreshTypes
  <2> QED
    BY <2>4, <2>5, <2>6
<1>2. Numbered' /\ GateHeld' /\ KnowsWhose' /\ SplitsAbove' /\ CountNeverHigh'
  BY DEF Inv, Typed, DevicesChange, jobs, splits, refresh, Numbered, GateHeld,
     KnowsWhose, SplitsAbove, SplitRunning, CountNeverHigh
<1> QED
  BY <1>1, <1>2 DEF Inv, Typed, TypeOK

-----------------------------------------------------------------------------
(* Theorems *)

\* Nobody is counted at the start, and the supervisor is the first.
LEMMA InitInv == Init => Inv
<1> SUFFICES ASSUME Init
             PROVE  Inv
  OBVIOUS
<1>1. DOMAIN built = 1..1 /\ built[1] = 0
  BY DEF Init
<1>2. count = 0 /\ SplitsAbove /\ CountNeverHigh
  <2>1. Cardinality(Running) >= 0 /\ Cardinality(SplitRunning) >= 0
    BY FiniteRunning
  <2> QED
    BY <2>1, FiniteRunning, SessionAssumption DEF Init, SplitsAbove, CountNeverHigh, Running
<1>3. SessionTypes
  <2>1. count \in 0..(MaxJobs + Cardinality(Split))
    BY <1>2, FiniteRunning, SessionAssumption
  <2>2. pending \in BOOLEAN /\ restarting \in BOOLEAN
    BY DEF Init
  <2>3. supervisor \in DOMAIN built \cup {0} /\ up \subseteq DOMAIN built
    BY <1>1 DEF Init
  <2>4. \A g \in DOMAIN built : built[g] \in 0..MaxChanges
    BY <1>1, SessionAssumption
  <2>5. wanted \in 0..MaxChanges /\ cachedFor \in 0..MaxChanges /\ faults \in 0..MaxFaults
    BY SessionAssumption DEF Init
  <2> QED
    BY <2>1, <2>2, <2>3, <2>4, <2>5 DEF SessionTypes
<1>4. JobTypes /\ SplitTypes /\ GateHeld
  BY <1>1, Stages, SessionAssumption DEF Init, JobTypes, SplitTypes, GateHeld
<1>5. RefreshTypes /\ KnowsWhose
  BY <1>1, SessionAssumption DEF Init, RefreshTypes, KnowsWhose
<1> QED
  BY <1>1, <1>2, <1>3, <1>4, <1>5 DEF Inv, Typed, TypeOK, Numbered

\* A count that only splits carry above MaxJobs is bounded by their number.
LEMMA CountBounded ==
    ASSUME count' \in Nat, SplitsAbove'
    PROVE  CountTyped'
<1>1. SplitRunning' \subseteq Split
  BY DEF SplitRunning
<1>2. IsFiniteSet(SplitRunning') /\ Cardinality(SplitRunning') <= Cardinality(Split)
  BY <1>1, FiniteRunning, FS_Subset
<1>3. Cardinality(SplitRunning') \in Nat
  BY <1>2, FS_CardinalityType
<1> QED
  BY <1>2, <1>3, FiniteRunning, SessionAssumption DEF SplitsAbove, CountTyped

\* Every step keeps the invariant.
LEMMA NextInv == Inv /\ [Next]_vars => Inv'
<1> SUFFICES ASSUME Inv, [Next]_vars
             PROVE  Inv'
  OBVIOUS
<1>0. TypeOK /\ SplitsAbove /\ CountNeverHigh /\ Typed /\ count \in Nat
  BY FiniteRunning, SessionAssumption DEF Inv, Typed, TypeOK, SessionTypes
<1>1. CASE DevicesChange
  BY <1>1, DevicesKeep
<1>2. ASSUME NEW j \in Job \ Split,
             Admit(j) \/ Invoke(j) \/ Returns(j) \/ Abort(j) \/ Decrement(j)
      PROVE  Inv'
  <2>1. SplitsAbove' /\ CountNeverHigh'
    BY <1>0, <1>2, InvokeCounts, EndCounts
  <2>2. count' \in Nat
    BY <1>0, <1>2 DEF Admit, Invoke, Returns, Abort, Decrement, session
  <2>3. Typed'
    BY <1>0, <1>2, <2>1, <2>2, CountBounded, InvokeKeeps
  <2> QED
    BY <2>1, <2>3 DEF Inv
<1>3. ASSUME NEW j \in Split, Chunk(j) \/ TooLarge(j) \/ Receive(j) \/ SplitStep(j)
      PROVE  Inv'
  <2>1. SplitsAbove' /\ CountNeverHigh'
    BY <1>0, <1>3, SplitCounts
  <2>2. count' \in Nat
    BY <1>0, <1>3
    DEF Chunk, TooLarge, Receive, SplitStep, Look, AfterLook, Deadline, Place, AdmitSplit,
        GateTimesOut, StartEngine, Decode, Answer, Decrement, session
  <2>3. Typed'
    BY <1>0, <1>3, <2>1, <2>2, CountBounded, SplitKeeps
  <2> QED
    BY <2>1, <2>3 DEF Inv
<1>4. ASSUME NEW r \in Refresher, Refresh(r)
      PROVE  Inv'
  <2>1. SplitsAbove' /\ CountNeverHigh'
    BY <1>0, <1>4, RefreshCounts
  <2>2. count' \in Nat
    BY <1>0, <1>4
    DEF Refresh, Claim, Detect, TakeSupervisor, Shutdown, StartOk, StartFailed, ReadSlots,
        ReadFlight, Heal, HealCancels, session
  <2>3. Typed'
    BY <1>0, <1>4, <2>1, <2>2, CountBounded, RefreshKeeps
  <2> QED
    BY <2>1, <2>3 DEF Inv
<1>5. CASE UNCHANGED vars
  <2>1. SessionTypes' /\ JobTypes' /\ SplitTypes' /\ RefreshTypes'
    BY <1>0, <1>5 DEF vars, session, jobs, splits, inbound, refresh, TypeOK, SessionTypes,
       JobTypes, SplitTypes, RefreshTypes
  <2>2. Numbered' /\ GateHeld' /\ KnowsWhose' /\ SplitsAbove' /\ CountNeverHigh'
    BY <1>0, <1>5 DEF vars, session, jobs, splits, refresh, Typed, Numbered, GateHeld,
       KnowsWhose, SplitsAbove, SplitRunning, CountNeverHigh
  <2> QED
    BY <2>1, <2>2 DEF Inv, Typed, TypeOK
<1> QED
  BY <1>1, <1>2, <1>3, <1>4, <1>5 DEF Next

\* The session's variables keep their types; the count never exceeds what
\* admission and the splits allow (respond_invoke, respond_invoke_split).
THEOREM TypeCorrect == Spec => []TypeOK
<1>1. Inv => TypeOK
  BY DEF Inv, Typed
<1> QED
  BY <1>1, InitInv, NextInv, PTL DEF Spec

\* The count is never higher than the invokes that still have to count
\* themselves out, whatever is healed, aborted or restarted in between.
THEOREM CountIsBacked == Spec => []CountNeverHigh
<1>1. Inv => CountNeverHigh
  BY DEF Inv
<1> QED
  BY <1>1, InitInv, NextInv, PTL DEF Spec
=============================================================================
