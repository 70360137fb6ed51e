----------------------------- MODULE RpcWatchdog -----------------------------
(***************************************************************************)
(* worker_rpc_invoke_cancellable (supervisor/host.rs): one invoke sent to  *)
(* a worker, and the timers that decide when to give the worker up.  Time  *)
(* is counted in units of WORKER_CLOUD_KEEPALIVE (15 s).  Timers and reads *)
(* are prompt: the clock advances only when neither is due.                *)
(***************************************************************************)
EXTENDS Naturals

CONSTANTS
    DecodeSilence,  \* WORKER_DECODE_SILENCE, WORKER_LOAD_SILENCE: 2 units
    LongSilence,    \* WORKER_PREFILL_SILENCE: 12 units
    LoadWall,       \* WORKER_LOAD_WALL: 6 units
    FirstTokenHop,  \* WORKER_FIRST_TOKEN_HOP: 16 units
    DecodeWall,     \* WORKER_DECODE_WALL: 40 units
    Deadline,       \* WORKER_INVOKE_DEADLINE: 48 units
    StallTimer,     \* the router's stall timer, 30 s: 2 units
    LongLines,      \* kinds of lines written in more than one piece
    MaxStall,       \* bound on the time the worker leaves its stdin unread
    MaxTalk         \* bound on the lines a worker writes per unit

Keepalive == 1

\* The order the tests of host.rs insist on.
ASSUME WatchdogAssumption ==
    /\ {DecodeSilence, LongSilence, LoadWall, FirstTokenHop, DecodeWall,
        Deadline, StallTimer, MaxStall, MaxTalk} \subseteq Nat
    /\ 0 < DecodeSilence /\ DecodeSilence < LongSilence
    /\ LoadWall < FirstTokenHop /\ FirstTokenHop < Deadline
    /\ Keepalive < LongSilence /\ Keepalive <= DecodeSilence
    /\ LongLines \subseteq {"progress", "delta", "result", "error", "noise"}

\* "a missed-beat kill": a worker quiet for as long as the router waits is given
\* up, so no keepalive is sent in decode (both 30 s).
ASSUME StallAssumption == DecodeSilence <= StallTimer

Cold == {"start", "load", "evict"}
Phases == Cold \cup {"resolve", "context", "prefill", "decode"}

\* worker_silence_for_phase, worker_wall_for_phase, phase_sends_cloud_keepalive
Silence(p) == IF p \in Cold \cup {"prefill", "context"} THEN LongSilence
                                                        ELSE DecodeSilence
Wall(p) == IF p = "decode" THEN DecodeWall
           ELSE IF p \in Cold THEN LoadWall ELSE FirstTokenHop

\* (mutant) the eviction of weights sends no keepalive.
SendsKeepalive_NotEvict(p) == p \in {"start", "load", "prefill", "context"}

SendsKeepalive(p) == p \in Cold \cup {"prefill", "context"}

\* phase_limit_error: a worker given up before decoding is a busy agent.
LimitCode(p) == IF p = "decode" THEN "timeout" ELSE "busy"

Lines == [kind : {"progress"}, phase : Phases]
            \cup [kind : {"delta", "result", "error", "noise"}, phase : {"decode"}]

VARIABLES
    pc,         \* "write", "top" (of the loop), "wait" (in select) or "done"
    clock,
    startedAt,  \* invoke_started
    phase,      \* last_phase
    phaseAt,    \* phase_started
    silence,
    progressAt, \* last_progress
    keepAt,     \* last_cloud_keepalive
    pipe,       \* the unread line of the worker's stdout, or NoLine
    whole,      \* the line is there to its end
    worker,     \* the worker: its phase, or "gone" or "answered"
    outcome,    \* "none", "ok", "error", "lost", "canceled", "busy", "timeout"
    said,       \* lines the worker has written at this instant
    heard       \* what happened: see Heard

watch == <<startedAt, phase, phaseAt, silence, progressAt, keepAt>>
vars == <<pc, clock, watch, pipe, whole, worker, outcome, said, heard>>

NoLine == [kind |-> "none", phase |-> "start"]

\* History: when the cloud last heard of the job, when the worker last wrote a
\* line that is not noise, since when it has been in the phase last read, whether the client has
\* got a token, and what killed the worker.
Heard == [cloud : Nat, spoke : Nat, since : Nat, token : BOOLEAN,
          killed : {"no", "silence", "wall", "deadline"}]

TypeOK ==
    /\ pc \in {"write", "top", "wait", "done"}
    /\ {clock, startedAt, phaseAt, silence, progressAt, keepAt, said} \subseteq Nat
    /\ phase \in Phases
    /\ pipe \in Lines \cup {NoLine} /\ whole \in BOOLEAN
    /\ worker \in Phases \cup {"gone", "answered"}
    /\ outcome \in {"none", "ok", "error", "lost", "canceled", "busy", "timeout"}
    /\ heard \in Heard

Init ==
    /\ pc = "write" /\ clock = 0 /\ outcome = "none"
    /\ startedAt = 0 /\ phase = "start" /\ phaseAt = 0
    /\ silence = Silence("start") /\ progressAt = 0 /\ keepAt = 0
    /\ pipe = NoLine /\ whole = TRUE /\ worker = "resolve" /\ said = 0
    /\ heard = [cloud |-> 0, spoke |-> 0, since |-> 0, token |-> FALSE,
                killed |-> "no"]

End(o) == pc' = "done" /\ outcome' = o

-----------------------------------------------------------------------------
(* The worker: worker.rs, llm/model_cache.rs and llm/embedded.rs *)

\* (mutant) a reload is reported under a phase the supervisor does not know.
After_Reload(p) == {p, "reload"}

\* The phases a worker reports after phase p.  A context or a decode that runs
\* out of memory drops the weights and loads them again on the next tier.
After(p) ==
    {p} \cup CASE p = "resolve" -> {"start"}
               [] p = "start" -> {"evict", "load", "context"}
               [] p = "evict" -> {"load", "context"}
               [] p = "load" -> {"context"}
               [] p = "context" -> {"prefill", "load"}
               [] p = "prefill" -> {"decode", "load"}
               [] p = "decode" -> {"load"}

Writes(line) ==
    /\ pipe = NoLine /\ said < MaxTalk
    /\ pipe' = line /\ said' = said + 1
    /\ whole' = (line.kind \notin LongLines)
    /\ heard' = [heard EXCEPT !.spoke = IF line.kind = "noise" THEN @ ELSE clock]

Works ==
    /\ pc \in {"top", "wait"} /\ worker \in Phases
    /\ \/ \E p \in After(worker) :
             /\ Writes([kind |-> "progress", phase |-> p])
             /\ worker' = p
       \/ /\ worker \in {"prefill", "decode"}
          /\ Writes([kind |-> "delta", phase |-> "decode"])
          /\ worker' = "decode"
       \/ /\ Writes([kind |-> "noise", phase |-> "decode"])
          /\ UNCHANGED worker
       \/ \E k \in {"result", "error"} :
             /\ k = "result" => worker = "decode"
             /\ Writes([kind |-> k, phase |-> "decode"])
             /\ worker' = "answered"
    /\ UNCHANGED <<pc, clock, watch, outcome>>

EndsLine ==
    /\ pc \in {"top", "wait"} /\ ~whole
    /\ whole' = TRUE
    /\ UNCHANGED <<pc, clock, watch, pipe, worker, outcome, said, heard>>

Dies ==
    /\ pc # "done" /\ worker \in Phases
    /\ worker' = "gone"
    /\ UNCHANGED <<pc, clock, watch, pipe, whole, outcome, said, heard>>

-----------------------------------------------------------------------------
(* The supervisor *)

\* write_worker_request: all timers start when the request has been taken in.
WriteRequest ==
    /\ pc = "write"
    /\ IF worker = "gone"
       THEN End("lost") /\ UNCHANGED watch
       ELSE /\ pc' = "top"
            /\ startedAt' = clock /\ phaseAt' = clock /\ progressAt' = clock
            /\ keepAt' = clock
            /\ UNCHANGED <<phase, silence, outcome>>
    /\ heard' = [heard EXCEPT !.since = clock]
    /\ UNCHANGED <<clock, pipe, whole, worker, said>>

\* A worker that does not read its stdin keeps write_all waiting.
WriteStalls ==
    /\ pc = "write" /\ worker # "gone" /\ clock < MaxStall
    /\ clock' = clock + 1
    /\ UNCHANGED <<pc, watch, pipe, whole, worker, outcome, said, heard>>

Kill(limit, o) ==
    /\ End(o)
    /\ heard' = [heard EXCEPT !.killed = limit]

LoopTop ==
    /\ pc = "top"
    /\ \/ /\ clock - startedAt >= Deadline
          /\ Kill("deadline", LimitCode(phase))
       \/ /\ clock - startedAt < Deadline
          /\ clock - phaseAt >= Wall(phase)
          /\ Kill("wall", LimitCode(phase))
       \/ /\ clock - startedAt < Deadline
          /\ clock - phaseAt < Wall(phase)
          /\ pc' = "wait"
          /\ UNCHANGED <<outcome, heard>>
    /\ UNCHANGED <<clock, watch, pipe, whole, worker, said>>

\* cancel.notified() comes first in the biased select.
Cancel ==
    /\ pc = "wait"
    /\ End("canceled")
    /\ UNCHANGED <<clock, watch, pipe, whole, worker, said, heard>>

\* A progress or delta line: the phase clock restarts only when the phase
\* changes; silence and keepalive restart on every line.
Progressed(p) ==
    /\ phase' = p
    /\ phaseAt' = IF p # phase THEN clock ELSE phaseAt
    /\ silence' = Silence(p)
    /\ progressAt' = clock /\ keepAt' = clock
    /\ heard' = [heard EXCEPT !.cloud = clock,
                              !.since = IF p # phase THEN clock ELSE @,
                              !.token = @ \/ pipe.kind = "delta"]
    /\ UNCHANGED startedAt

\* (mutant) every line restarts the phase clock.
ReadLine_Restarts ==
    /\ pc = "wait" /\ pipe # NoLine /\ whole
    /\ \/ /\ pipe.kind \in {"progress", "delta"}
          /\ phase' = pipe.phase /\ phaseAt' = clock
          /\ silence' = Silence(pipe.phase)
          /\ progressAt' = clock /\ keepAt' = clock
          /\ heard' = [heard EXCEPT !.cloud = clock,
                          !.since = IF pipe.phase # phase THEN clock ELSE @]
          /\ pc' = "top"
          /\ UNCHANGED <<outcome, startedAt>>
       \/ /\ pipe.kind \in {"noise", "result", "error"}
          /\ IF pipe.kind = "noise" THEN pc' = "top" /\ UNCHANGED outcome ELSE End("ok")
          /\ UNCHANGED <<watch, heard>>
    /\ pipe' = NoLine
    /\ UNCHANGED <<clock, whole, worker, said>>

\* (mutant) a token does not count as progress.
ReadLine_DeafToTokens ==
    /\ pc = "wait" /\ pipe # NoLine /\ whole
    /\ \/ /\ pipe.kind = "progress" /\ Progressed(pipe.phase)
          /\ pc' = "top" /\ UNCHANGED outcome
       \/ /\ pipe.kind \in {"noise", "delta"}
          /\ pc' = "top" /\ UNCHANGED <<outcome, watch, heard>>
       \/ /\ pipe.kind \in {"result", "error"}
          /\ End("ok") /\ UNCHANGED <<watch, heard>>
    /\ pipe' = NoLine
    /\ UNCHANGED <<clock, whole, worker, said>>

ReadLine ==
    /\ pc = "wait" /\ pipe # NoLine /\ whole
    /\ \/ /\ pipe.kind \in {"progress", "delta"}
          /\ Progressed(pipe.phase)
          /\ pc' = "top"
          /\ UNCHANGED outcome
       \/ /\ pipe.kind = "noise"
          /\ pc' = "top"
          /\ UNCHANGED <<outcome, watch, heard>>
       \/ /\ pipe.kind \in {"result", "error"}
          /\ End(IF pipe.kind = "result" THEN "ok" ELSE "error")
          /\ UNCHANGED <<watch, heard>>
    /\ pipe' = NoLine
    /\ UNCHANGED <<clock, whole, worker, said>>

\* (mutant) 0 bytes are taken for an empty line.
ReadEof_Ignored ==
    /\ pc = "wait" /\ worker = "gone" /\ (pipe = NoLine \/ ~whole)
    /\ pc' = "top"
    /\ UNCHANGED <<clock, watch, pipe, whole, worker, outcome, said, heard>>

\* read_line returns 0 bytes.
ReadEof ==
    /\ pc = "wait" /\ worker = "gone" /\ (pipe = NoLine \/ ~whole)
    /\ End("lost")
    /\ UNCHANGED <<clock, watch, pipe, whole, worker, said, heard>>

Silent == clock - progressAt >= silence
KeepaliveDue == SendsKeepalive(phase) /\ clock - keepAt >= Keepalive /\ ~Silent
Overdue == clock - phaseAt >= Wall(phase) \/ clock - startedAt >= Deadline

\* The timer of the select.  It drops the read_line future; what that had read
\* of an unfinished line is lost, and the rest of the line is not JSON.
Sleep ==
    /\ pc = "wait" /\ (pipe = NoLine \/ ~whole)
    /\ Silent \/ KeepaliveDue \/ Overdue \/ ~whole
    /\ IF Silent
       THEN Kill("silence", LimitCode(phase)) /\ UNCHANGED keepAt
       ELSE /\ keepAt' = IF KeepaliveDue THEN clock ELSE keepAt
            /\ heard' = [heard EXCEPT !.cloud = IF KeepaliveDue THEN clock ELSE @]
            /\ pc' = "top"
            /\ UNCHANGED outcome
    /\ pipe' = NoLine /\ whole' = TRUE
    /\ UNCHANGED <<clock, startedAt, phase, phaseAt, silence, progressAt, worker, said>>

\* Time passes while nothing is due.
Tick ==
    /\ pc = "wait" /\ pipe = NoLine /\ worker # "gone"
    /\ ~(Silent \/ KeepaliveDue \/ Overdue)
    /\ clock' = clock + 1 /\ said' = 0
    /\ UNCHANGED <<pc, watch, pipe, whole, worker, outcome, heard>>

Supervise == WriteRequest \/ LoopTop \/ ReadLine \/ ReadEof \/ Sleep \/ Tick

Next == Supervise \/ Works \/ EndsLine \/ Dies \/ WriteStalls \/ Cancel

Spec == Init /\ [][Next]_vars

\* The supervisor's loop runs and time passes; the worker owes nothing.
FairSpec == Spec /\ WF_vars(Supervise)

-----------------------------------------------------------------------------
(* Properties *)

\* However often the worker reports, it does not stay in one phase longer than
\* the wall of that phase, nor in an invoke longer than the deadline.
WallsHold ==
    pc \in {"top", "wait"} =>
        /\ clock - heard.since <= Wall(phase)
        /\ clock - startedAt <= Deadline

\* "While waiting on load/prefill, still ping the cloud so the router 30s stall
\* timer cannot cancel a healthy cold mmap": once the worker has the request, the
\* cloud is never left longer than the stall timer without a sign of the job.
CloudHears ==
    pc \in {"top", "wait"} =>
        \E t \in {startedAt, heard.cloud} : clock - t <= StallTimer

\* A worker is killed for silence only when it wrote nothing for as long as its
\* phase allows.
KilledOnlyWhenSilent ==
    heard.killed = "silence" => clock - heard.spoke >= silence

\* Every invoke returns, whatever the worker does or leaves undone.
InvokeReturns == <>(pc = "done")

-----------------------------------------------------------------------------
(* What comments of the source say and the model refutes: README.md tells how *)

\* "No first token yet: hop as agent_busy" (WORKER_FIRST_TOKEN_HOP): an invoke
\* that ends as busy has not given the client a token.
BusyMeansNoToken == outcome = "busy" => ~heard.token

\* "Absolute wall from invoke start" (WORKER_INVOKE_DEADLINE): counted from the
\* moment the invoke was handed to the worker.
DeadlineIsAbsolute == pc # "done" => clock <= Deadline
=============================================================================
