------------------------------ MODULE Occupancy ------------------------------
(* The watch that takes a GPU out of the pool while other software fills it,   *)
(* and the timer that frees VRAM outside of earning hours (gpu_occupancy.rs,   *)
(* vram_lifecycle.rs). Time is counted in heartbeats of six seconds: 12 s and  *)
(* 8 s of samples are two intervals between heartbeats, the 15 s after our own *)
(* eviction are two or three samples, by where in the interval it fell.        *)
(*                                                                             *)
(* A watch is a record: latched (slot ids), candidate and clear (slot id ->    *)
(* intervals since the first such sample, Never when there is none), ignore    *)
(* (samples still ignored).                                                    *)
EXTENDS Capacity, ComputePool

Never == -1
OsSlack == 3        \* 1.5 GB
EnterHold == 2
ExitHold == 2
IgnoreAfterOurs == {2, 3}

NewWatch(ids) == [latched |-> {}, ignore |-> 0,
                  candidate |-> [id \in ids |-> Never], clear |-> [id \in ids |-> Never]]

\* After our own eviction the driver reports full cards for a while.
NoteOurVram(watch, samples) ==
    [watch EXCEPT !.ignore = samples, !.candidate = [id \in DOMAIN watch.candidate |-> Never]]

\* The least a model on offer needs of a card that could host it; 0: no model.
SmallestAdvertisedNeed(card, advertised, ram, headroom) ==
    LET needs == {OccupancyMinVram(m) : m \in {m \in advertised :
                                                 CanHostModel(m, card, ram, headroom, 0)}}
    IN  IF needs = {} THEN 0 ELSE CHOOSE n \in needs : \A k \in needs : n <= k

\* An idle, empty GPU whose free VRAM would not take even that model.
RawForeignOccupancy(s, busy, loaded, free, need) ==
    /\ s.kind # "cpu" /\ s.card.strategy \notin {"cpu", "metal"}
    /\ ~busy /\ loaded = {} /\ need > 0 /\ free >= 0
    /\ free + OsSlack < need

WatchSample_AtOnce(watch, raw) ==    \* (mutant) one sample after the first is enough
    LET taken == {id \in DOMAIN raw : raw[id] /\ watch.ignore = 0}
    IN  [latched   |-> (watch.latched \ {id \in DOMAIN raw : ~raw[id]})
                         \cup {id \in taken : watch.candidate[id] # Never},
         ignore    |-> IF watch.ignore > 0 THEN watch.ignore - 1 ELSE 0,
         candidate |-> [id \in DOMAIN raw |-> IF id \in taken THEN 0 ELSE Never],
         clear     |-> watch.clear]
WatchSample_Restarts(watch, raw) ==    \* (mutant) each free sample restarts the clear timer
    LET taken == {id \in DOMAIN raw : raw[id] /\ watch.ignore = 0}
    IN  [latched   |-> watch.latched \cup {id \in taken : watch.candidate[id] >= 1},
         ignore    |-> IF watch.ignore > 0 THEN watch.ignore - 1 ELSE 0,
         candidate |-> [id \in DOMAIN raw |-> IF id \notin taken THEN Never
                           ELSE IF watch.candidate[id] = Never THEN 0 ELSE 1],
         clear     |-> [id \in DOMAIN raw |-> IF id \in watch.latched THEN 0 ELSE Never]]
\* One sample of every slot: raw(id) says that it looks taken.
WatchSample(watch, raw) ==
    LET ignoring == watch.ignore > 0
        Older(age, limit) == IF age = Never THEN 0 ELSE IF age < limit THEN age + 1 ELSE limit
        taken(id) == raw[id] /\ ~ignoring
        cand == [id \in DOMAIN raw |->
                    IF taken(id) THEN Older(watch.candidate[id], EnterHold) ELSE Never]
        free == [id \in DOMAIN raw |->
                    CASE taken(id) -> Never
                      [] raw[id] /\ ignoring -> watch.clear[id]
                      [] OTHER -> IF id \in watch.latched
                                  THEN Older(watch.clear[id], ExitHold) ELSE Never]
        enter == {id \in DOMAIN raw : taken(id) /\ cand[id] >= EnterHold}
        leave == {id \in watch.latched : ~raw[id] /\ free[id] >= ExitHold}
    IN  [latched   |-> (watch.latched \cup enter) \ leave,
         ignore    |-> IF ignoring THEN watch.ignore - 1 ELSE 0,
         candidate |-> cand,
         clear     |-> [id \in DOMAIN raw |-> IF id \in leave THEN Never ELSE free[id]]]

-----------------------------------------------------------------------------
(* The lifecycle of VRAM: earning (the schedule accepts jobs now or soon),     *)
(* evicted (freed already outside of it), grace (the minutes after a job).     *)

NewLife == [earning |-> TRUE, evicted |-> FALSE, grace |-> FALSE]

\* A change of the schedule: entering earning hours rearms the eviction.
ApplySchedule(life, earning) ==
    [life EXCEPT !.earning = earning, !.evicted = @ /\ ~(earning /\ ~life.earning)]
LeftEarning(life, earning) == life.earning /\ ~earning

OnJobStarted(life)  == [life EXCEPT !.evicted = FALSE, !.grace = FALSE]
OnJobFinished(life) == [life EXCEPT !.grace = TRUE]
OnVramLoaded_Quiet(life) == life    \* (mutant) a late warm does not rearm the eviction
OnVramLoaded(life)  == [life EXCEPT !.evicted = FALSE]

\* Evict once, when off schedule, idle and past the grace.
TickEvicts(life, busy) == ~busy /\ ~life.earning /\ ~life.grace /\ ~life.evicted
Tick(life, busy) == [life EXCEPT !.evicted = @ \/ TickEvicts(life, busy)]
=============================================================================
