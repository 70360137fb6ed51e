--------------------------- MODULE InvokeContract ---------------------------
(***************************************************************************)
(* What Supervisor::invoke and invoke_image promise their caller, without  *)
(* slots being lent, killed or respawned: an invoke ends once, with "ok"   *)
(* only after a worker ran it; a pinned invoke runs on its pin only and    *)
(* once; an unpinned one may start again on slots it has not tried, but    *)
(* never after the client has received a token.                            *)
(***************************************************************************)
EXTENDS Naturals

CONSTANTS
    Slot, Job, None,
    Pin         \* [Job -> Slot \cup {None}], as SlotPool assumes

VARIABLES
    stage,   \* "new", "waiting", "running" or "ended"
    where,   \* the slots the running attempt uses
    tried,   \* the slots of earlier attempts
    spoke,   \* a token has reached the client
    result   \* "none", "ok" or "failed"

contractVars == <<stage, where, tried, spoke, result>>

ContractTypeOK ==
    /\ stage \in [Job -> {"new", "waiting", "running", "ended"}]
    /\ where \in [Job -> SUBSET Slot]
    /\ tried \in [Job -> SUBSET Slot]
    /\ spoke \in [Job -> BOOLEAN]
    /\ result \in [Job -> {"none", "ok", "failed"}]

ContractInit ==
    /\ stage = [j \in Job |-> "new"]
    /\ where = [j \in Job |-> {}]
    /\ tried = [j \in Job |-> {}]
    /\ spoke = [j \in Job |-> FALSE]
    /\ result = [j \in Job |-> "none"]

Accept(j) ==
    /\ stage[j] = "new"
    /\ stage' = [stage EXCEPT ![j] = "waiting"]
    /\ UNCHANGED <<where, tried, spoke, result>>

Run(j, slots) ==
    /\ stage[j] = "waiting"
    /\ slots # {} /\ slots \cap tried[j] = {}
    /\ Pin[j] # None => Pin[j] \in slots
    /\ stage' = [stage EXCEPT ![j] = "running"]
    /\ where' = [where EXCEPT ![j] = slots]
    /\ UNCHANGED <<tried, spoke, result>>

Speak(j) ==
    /\ stage[j] = "running" /\ ~spoke[j]
    /\ spoke' = [spoke EXCEPT ![j] = TRUE]
    /\ UNCHANGED <<stage, where, tried, result>>

StartOver(j) ==
    /\ stage[j] = "running" /\ ~spoke[j] /\ Pin[j] = None
    /\ stage' = [stage EXCEPT ![j] = "waiting"]
    /\ where' = [where EXCEPT ![j] = {}]
    /\ tried' = [tried EXCEPT ![j] = @ \cup where[j]]
    /\ UNCHANGED <<spoke, result>>

End(j, r) ==
    /\ stage[j] \in {"waiting", "running"}
    /\ r = "ok" => stage[j] = "running"
    /\ stage' = [stage EXCEPT ![j] = "ended"]
    /\ where' = [where EXCEPT ![j] = {}]
    /\ result' = [result EXCEPT ![j] = r]
    /\ UNCHANGED <<tried, spoke>>

ContractNext ==
    \E j \in Job :
        \/ Accept(j) \/ Speak(j) \/ StartOver(j)
        \/ \E slots \in SUBSET Slot : Run(j, slots)
        \/ \E r \in {"ok", "failed"} : End(j, r)

ContractSpec == ContractInit /\ [][ContractNext]_contractVars
=============================================================================
