---------------------------- MODULE ImageRuntime ----------------------------
(* The second runtime: an isolated CPython, a Diffusers venv and snapshots   *)
(* in the Hugging Face cache (image/mod.rs, image/python.rs), filled by a    *)
(* setup worker of the catalog sync and used by image jobs, which install    *)
(* what they miss of the first two themselves (image/worker.py); and the     *)
(* session of agent.rs that offers, withdraws, purges and tears down.        *)
(*                                                                           *)
(* Two installers may be at work: the catalog sync and one image job. A      *)
(* worker is a process group of its own, so one whose agent dies goes on     *)
(* until it next writes to the closed pipe: the stray.                       *)
EXTENDS Integers, FiniteSets, Sequences, SequencesExt

CONSTANTS Catalog,       \* the image SKUs, in the order of the catalog
          Repo(_),       \* image_repo of a SKU
          LeftBy,        \* venv markers an earlier release may have left
          MaxTrouble     \* faults of network, disk and process, jobs, pushes, purges

ASSUME MarkersAssumption == LeftBy \subseteq {"v4", "v5"}
ASSUME CatalogAssumption == Catalog \in Seq(ToSet(Catalog)) /\ "none" \notin ToSet(Catalog)

Sku   == ToSet(Catalog)
Hub   == {Repo(k) : k \in Sku}
NoSku == "none"
Gone  == {"gone"}            \* no directory for the repo
Parts == {"weights", "rest"} \* what WEIGHT_COMPONENTS names, and all else

VARIABLES
    python,     \* the root of the isolated CPython, and who fills it
    venv,       \* the venv directory, its interpreter and its markers
    hub,        \* the snapshot of each repo
    proc,       \* the sync, the job and the stray
    flight,     \* sync_in_flight
    loading,    \* downloading_model of the state file
    link,       \* the session has had its "ready"
    enabled,    \* model_policy
    advertised, \* image SKUs of the last register message
    waiting,    \* purges to apply once the canceled sync is idle, or no wait
    trouble

vars == <<python, venv, hub, proc, flight, loading, link, enabled, advertised, waiting, trouble>>

Who == {"sync", "job", "stray"}
World == [python |-> python, venv |-> venv, hub |-> hub, proc |-> proc, flight |-> flight, loading |-> loading]
Becomes(w) == /\ python' = w.python /\ venv' = w.venv /\ hub' = w.hub
              /\ proc' = w.proc /\ flight' = w.flight /\ loading' = w.loading

Off      == [pc |-> "off", todo |-> {}, k |-> NoSku, canceled |-> FALSE]
NoPython == [st |-> "gone", by |-> "none"]
NoVenv   == [dir |-> FALSE, bin |-> FALSE, marks |-> {}]
NoWait   == [on |-> FALSE, purge |-> {}, idle |-> FALSE]

\* A new machine, or one on which an earlier release set the runtime up.
Init ==
    /\ \/ python = NoPython /\ venv = NoVenv
       \/ /\ LeftBy # {}
          /\ python = [st |-> "ok", by |-> "none"]
          /\ venv = [dir |-> TRUE, bin |-> TRUE, marks |-> LeftBy]
    /\ hub = [r \in Hub |-> Gone]
    /\ proc = [i \in Who |-> Off]
    /\ flight = FALSE /\ loading = NoSku
    /\ link = FALSE
    /\ enabled = Sku
    /\ advertised = {}
    /\ waiting = NoWait
    /\ trouble = MaxTrouble

-----------------------------------------------------------------------------
(* What is on disk, and when a SKU counts as installed. *)

\* hf_snapshot_ready: of what model_index.json lists, only the components that
\* carry weights are looked at.
SnapshotReady(w, r) == "weights" \in w.hub[r]

\* image_runtime_ready, by DEPS_MARKER.
RuntimeReady(w) == w.python.st = "ok" /\ "v4" \in w.venv.marks

InstallReady(w, k) == RuntimeReady(w) /\ SnapshotReady(w, Repo(k))

OnDisk(w, r) == w.hub[r] # Gone

\* keep_image_runtime and keep_image_repo.
KeepRuntime(w, on, skip) == \E k \in Sku \ skip : k \in on \/ OnDisk(w, Repo(k))
KeepRepo_Enabled(w, r, on, skip) == \E k \in Sku \ skip : Repo(k) = r /\ k \in on     \* (mutant) a disabled SKU's snapshot does not count
KeepRepo(w, r, on, skip) == \E k \in Sku \ skip : Repo(k) = r /\ (k \in on \/ OnDisk(w, r))

\* maybe_teardown_image_runtime. The pip of a worker has no interpreter left.
Teardown(w) == [w EXCEPT !.python = NoPython, !.venv = NoVenv,
                         !.proc = [i \in Who |-> IF w.proc[i].pc = "deps" THEN [w.proc[i] EXCEPT !.pc = "lost"]
                                                 ELSE w.proc[i]]]
Presence(w, on, skip) == IF KeepRuntime(w, on, skip) THEN w ELSE Teardown(w)

\* apply_purge_models: each repo no other SKU keeps is renamed away.
Purge(w, on, purge) ==
    LET staged == {r \in Hub : OnDisk(w, r) /\ ~KeepRepo(w, r, on, purge) /\ \E k \in purge : Repo(k) = r}
        v == [w EXCEPT !.hub = [r \in Hub |-> IF r \in staged THEN Gone ELSE w.hub[r]]]
    IN  IF purge = {} THEN w ELSE Presence(v, on, purge)

-----------------------------------------------------------------------------
(* What the session offers and asks for. *)

RegisterModelIds(w, on) == {k \in on : InstallReady(w, k) /\ w.loading # k}
Pending(w, on) == {k \in on : ~InstallReady(w, k)}

SyncModelWeights(w, on) ==
    IF Pending(w, on) = {} \/ w.flight THEN w
    ELSE [w EXCEPT !.flight = TRUE, !.proc["sync"] = [Off EXCEPT !.pc = "head", !.todo = Pending(w, on)]]

CancelActive(w) == [w EXCEPT !.loading = NoSku, !.proc["sync"].canceled = (w.proc["sync"].pc # "off")]

\* withdraw_incomplete_image_snapshot, which sends a register message.
Withdraw(w, k) ==
    LET v == SyncModelWeights([w EXCEPT !.loading = k], enabled)
    IN  Becomes(v) /\ advertised' = RegisterModelIds(v, enabled)

-----------------------------------------------------------------------------
(* An installation, by i: install_image_model of the sync, run_qwen_image of *)
(* the job. Each action runs to the next await or process boundary.          *)

EndSync_KeepsFlag(w) == [w EXCEPT !.proc["sync"] = Off, !.loading = NoSku, !.flight = w.proc["sync"].canceled]  \* (mutant) the flag stays on a canceled sync
EndSync(w) == [w EXCEPT !.proc["sync"] = Off, !.loading = NoSku, !.flight = FALSE]
First(todo) == Catalog[Min({n \in DOMAIN Catalog : Catalog[n] \in todo})]
NextSku(w) ==
    LET todo == w.proc["sync"].todo
    IN  [w EXCEPT !.loading = NoSku,
                  !.proc["sync"] = [Off EXCEPT !.pc = "head", !.todo = todo \ {First(todo)}]]

\* A SKU that is installed is passed over; the label is left as it is.
Skip(w) == [w EXCEPT !.proc["sync"].todo = @ \ {First(@)}]

\* What follows an installation or a job that ended, for better or worse.
Ends(w, i) ==
    IF i # "sync" THEN [w EXCEPT !.proc[i] = Off]
    ELSE IF w.proc[i].canceled THEN EndSync(w) ELSE NextSku(w)

\* run_image_worker spawns the worker for a job file in the venv directory.
Spawn(w, i) == IF w.venv.dir THEN [w EXCEPT !.proc[i].pc = "venv"] ELSE Ends(w, i)

\* ensure_worker_script, then ensure_image_python up to the first byte: what is
\* there and does not run is removed.
Ensure(w, i) ==
    LET v == [w EXCEPT !.venv.dir = TRUE]
    IN  IF v.python.st = "ok" THEN Spawn(v, i)
        ELSE [v EXCEPT !.python = [st |-> "part", by |-> i], !.proc[i].pc = "fetch"]

\* install_image_model up to there; a full disk ends the sync.
TakeSku ==
    LET t == proc["sync"]
        k == First(t.todo)
    IN  /\ t.pc = "head"
        /\ \/ /\ t.canceled \/ t.todo = {}
              /\ Becomes(EndSync(World)) /\ UNCHANGED trouble
           \/ /\ ~t.canceled /\ t.todo # {}
              /\ Becomes(IF InstallReady(World, k) THEN Skip(World)
                         ELSE Ensure([World EXCEPT !.loading = k, !.proc["sync"].k = k], "sync"))
              /\ UNCHANGED trouble
           \/ /\ ~t.canceled /\ t.todo # {} /\ ~InstallReady(World, k)
              /\ trouble > 0 /\ trouble' = trouble - 1
              /\ Becomes(EndSync(World))

\* The job has its slot and the slot's worker is gone.
JobStarts ==
    /\ proc["job"].pc = "claimed"
    /\ Becomes(Ensure(World, "job"))
    /\ UNCHANGED trouble

\* The archive is complete: download_file renames it under its final name. If
\* another installer has begun anew, there is nothing to rename, or the other's.
Fetched(i) ==
    /\ proc[i].pc = "fetch" /\ ~proc[i].canceled
    /\ \/ python # [st |-> "part", by |-> i] /\ Becomes(Ends(World, i))
       \/ python.st = "part" /\ Becomes([World EXCEPT !.python.st = "archive", !.proc[i].pc = "unpack"])
    /\ UNCHANGED trouble

\* extract_tarball and the first run of the interpreter.
Unpacked(i) ==
    /\ proc[i].pc = "unpack" /\ ~proc[i].canceled
    /\ Becomes(IF python = [st |-> "archive", by |-> i] THEN Spawn([World EXCEPT !.python.st = "ok"], i)
               ELSE Ends(World, i))
    /\ UNCHANGED trouble

\* After ensure_venv_and_deps: the setup worker downloads, the job's generates
\* if the weights are there.
AfterDeps_NoDownload(w, i) ==       \* (mutant) a venv that is set up ends the setup
    IF i = "sync" THEN Ends(w, i) ELSE [w EXCEPT !.proc[i].pc = "check"]
AfterDeps(w, i) ==
    IF i # "sync" THEN [w EXCEPT !.proc[i].pc = "check"]
    ELSE [w EXCEPT !.proc[i].pc = "hub",
                   !.hub[Repo(w.proc[i].k)] = IF OnDisk(w, Repo(w.proc[i].k)) THEN @ ELSE {}]

\* The worker creates the venv, and is done if it finds its own marker.
Venv(i) ==
    /\ proc[i].pc = "venv" /\ ~proc[i].canceled
    /\ LET w == [World EXCEPT !.venv.dir = TRUE, !.venv.bin = TRUE]
       IN  Becomes(IF python.st # "ok" THEN Ends([World EXCEPT !.venv.dir = TRUE], i)
                   ELSE IF "v5" \in venv.marks THEN AfterDeps(w, i)
                   ELSE [w EXCEPT !.proc[i].pc = "deps"])
    /\ UNCHANGED trouble

\* pip has installed everything, in the venv and through the interpreter it
\* began with, and the marker is written.
Deps(i) ==
    /\ proc[i].pc \in {"deps", "lost"} /\ ~proc[i].canceled
    /\ Becomes(IF proc[i].pc = "lost" \/ python.st # "ok" THEN Ends(World, i)
               ELSE AfterDeps([World EXCEPT !.venv.marks = @ \cup {"v5"}], i))
    /\ UNCHANGED trouble

\* snapshot_download writes what is missing, in any order. If the directory was
\* renamed away under it, it fails, and may have made a new one.
Download(w, i, r, part) ==
    IF ~OnDisk(w, r) THEN Ends(w, i)
    ELSE LET v == [w EXCEPT !.hub[r] = @ \cup {part}]
         IN  IF v.hub[r] = Parts THEN Ends(v, i) ELSE v
HubFile(i) ==
    LET r == Repo(proc[i].k)
    IN  /\ proc[i].pc = "hub" /\ ~proc[i].canceled
        /\ \/ \E part \in Parts \ hub[r] : Becomes(Download(World, i, r, part))
           \/ Parts \subseteq hub[r] /\ Becomes(Ends(World, i))
           \/ ~OnDisk(World, r) /\ Becomes(Ends([World EXCEPT !.hub[r] = {}], i))
        /\ UNCHANGED trouble

Installs(i) == Fetched(i) \/ Unpacked(i) \/ Venv(i) \/ Deps(i) \/ HubFile(i)

\* local_snapshot_dir and snapshot_weights_complete, the worker's own check.
WorkerFinds(r) == "weights" \in hub[r]

\* generate: the snapshot is checked again, and a hole in what the check does
\* not see fails the load.
Generate ==
    /\ proc["job"].pc = "check"
    /\ LET k == proc["job"].k
           w == Ends(World, "job")
       IN  IF WorkerFinds(Repo(k)) /\ "rest" \in hub[Repo(k)]
           THEN Becomes(w) /\ UNCHANGED advertised
           ELSE Withdraw(w, k)

\* The network, pip, a silent worker (IMAGE_SILENCE), or the wall clock.
Fault(i) ==
    /\ proc[i].pc \in {"fetch", "unpack", "venv", "deps", "lost", "hub", "check"} /\ ~proc[i].canceled
    /\ trouble > 0 /\ trouble' = trouble - 1
    /\ Becomes(Ends(World, i))

\* The sync sees its cancel flag, at the next chunk or within 250 ms, and kills
\* the worker; after the archive is complete, the Python root goes with it,
\* whoever has begun to fill it.
SyncCanceled ==
    LET t == proc["sync"]
    IN  /\ t.canceled /\ t.pc \notin {"off", "head"}
        /\ \/ t.pc # "unpack" /\ Becomes(Ends(World, "sync"))
           \/ t.pc \in {"fetch", "unpack"} /\ Becomes(Ends([World EXCEPT !.python = NoPython], "sync"))
        /\ UNCHANGED trouble

\* The job is canceled while it holds its slot.
JobCanceled ==
    /\ proc["job"].pc # "off"
    /\ Becomes([World EXCEPT !.proc["job"] = Off])
    /\ UNCHANGED trouble

-----------------------------------------------------------------------------
(* The session. *)

\* An image invoke for what was offered. What is not ready here is withdrawn.
Invoke(k) ==
    /\ link /\ proc["job"].pc = "off" /\ k \in advertised
    /\ trouble > 0 /\ trouble' = trouble - 1
    /\ IF InstallReady(World, k)
       THEN /\ Becomes([World EXCEPT !.proc["job"] = [Off EXCEPT !.pc = "claimed", !.k = k]])
            /\ UNCHANGED advertised
       ELSE Withdraw(World, k)
    /\ UNCHANGED <<link, enabled, waiting>>

\* The "ready" of a session, up to its register message.
Ready ==
    LET v == SyncModelWeights(Presence(World, enabled, {}), enabled)
    IN  /\ ~link /\ link' = TRUE
        /\ Becomes(v)
        /\ advertised' = RegisterModelIds(v, enabled)
        /\ UNCHANGED <<enabled, waiting, trouble>>

\* The agent dies. A worker goes on until it writes to its pipe.
Crash ==
    /\ trouble > 0 /\ trouble' = trouble - 1
    /\ link' = FALSE /\ flight' = FALSE /\ waiting' = NoWait /\ advertised' = {}
    /\ \E i \in Who :
         proc' = [j \in Who |-> IF j = "stray" /\ proc[i].pc \in {"venv", "deps", "hub"}
                                   THEN [proc[i] EXCEPT !.todo = {}, !.canceled = FALSE] ELSE Off]
    /\ UNCHANGED <<python, venv, hub, loading, enabled>>

\* What the stray's current step had still to write, or nothing.
StrayEnds ==
    LET t == proc["stray"]
        w == [World EXCEPT !.proc["stray"] = Off]
    IN  /\ t.pc # "off"
        /\ \/ Becomes(w)
           \/ t.pc = "venv" /\ python.st = "ok" /\ Becomes([w EXCEPT !.venv.dir = TRUE, !.venv.bin = TRUE])
           \/ t.pc = "deps" /\ python.st = "ok" /\ Becomes([w EXCEPT !.venv.marks = @ \cup {"v5"}])
           \/ t.pc = "hub" /\ Becomes([w EXCEPT !.hub[Repo(t.k)] = Parts])
        /\ UNCHANGED trouble

\* The maintenance of the heartbeat: what is missing, and what changed.
NeedsReregister(w, on) == RegisterModelIds(w, on) # advertised
Heartbeat ==
    LET v == SyncModelWeights(World, enabled)
    IN  /\ link
        /\ Becomes(v)
        /\ advertised' = RegisterModelIds(v, enabled)
        /\ UNCHANGED <<link, enabled, waiting, trouble>>

\* A pong or a policy push: the new policy, the SKUs to purge, and what is
\* canceled for either.
Stops(purge) == flight /\ \E k \in purge : loading = k \/ ~InstallReady(World, k)
Pong(on, purge) ==
    LET policy == enabled # on
        hit    == policy /\ loading \notin on \cup {NoSku}
        v      == IF hit THEN CancelActive(World) ELSE World
        kept   == IF policy /\ ~flight THEN Presence(v, on, {}) ELSE v
        stops  == Stops(purge)
    IN  /\ link /\ ~waiting.on
        /\ trouble > 0 /\ trouble' = trouble - 1
        /\ enabled' = on
        /\ Becomes(IF stops THEN CancelActive(kept) ELSE kept)
        /\ waiting' = [on |-> TRUE, purge |-> purge, idle |-> hit \/ stops]
        /\ UNCHANGED <<link, advertised>>

\* wait_for_catalog_sync_idle, which gives up after 90 s, and the rest of the
\* handler. A pong without news is the same with nothing to purge.
PongApply ==
    LET w == SyncModelWeights(Presence(Purge(World, enabled, waiting.purge), enabled, {}), enabled)
    IN  /\ link
        /\ ~waiting.idle \/ ~flight \/ trouble > 0
        /\ trouble' = IF waiting.idle /\ flight THEN trouble - 1 ELSE trouble
        /\ Becomes(w)
        /\ advertised' = RegisterModelIds(w, enabled)
        /\ waiting' = NoWait
        /\ UNCHANGED <<link, enabled>>

-----------------------------------------------------------------------------
Rest == <<link, enabled, advertised, waiting>>
SyncStep == (TakeSku \/ Installs("sync") \/ SyncCanceled) /\ UNCHANGED Rest
JobStep  == \/ (JobStarts \/ Installs("job")) /\ UNCHANGED Rest
            \/ Generate /\ UNCHANGED <<link, enabled, waiting, trouble>>
Strays   == StrayEnds /\ UNCHANGED Rest
Breaks   == (Fault("sync") \/ Fault("job") \/ JobCanceled) /\ UNCHANGED Rest

Next == \/ SyncStep \/ JobStep \/ Strays \/ Breaks
        \/ Ready \/ Crash \/ Heartbeat \/ PongApply
        \/ \E k \in Sku : Invoke(k)
        \/ \E on, purge \in SUBSET Sku : Pong(on, purge)

\* Weak fairness of both installers and of the stray, each of which ends, of
\* the reconnect loop, of the pong handler and of the heartbeat.
Spec ==
    /\ Init /\ [][Next]_vars
    /\ WF_vars(SyncStep) /\ WF_vars(JobStep) /\ WF_vars(Strays)
    /\ WF_vars(Ready) /\ WF_vars(PongApply) /\ WF_vars(Heartbeat)

-----------------------------------------------------------------------------
(* What the checks establish. *)

\* Types; the sync holds its flag for as long as it runs, and the flag is only
\* up while it runs, so that a canceled sync neither overlaps the next one nor
\* keeps it from starting.
TypeOK ==
    /\ python.st \in {"gone", "part", "archive", "ok"} /\ python.by \in Who \cup {"none"}
    /\ venv.dir \in BOOLEAN /\ venv.bin \in BOOLEAN /\ venv.marks \subseteq {"v4", "v5"}
    /\ \A r \in Hub : hub[r] = Gone \/ hub[r] \subseteq Parts
    /\ \A i \in Who : proc[i].pc \in {"off", "head", "claimed", "fetch", "unpack", "venv", "deps", "lost", "hub", "check"}
    /\ flight <=> proc["sync"].pc # "off"
    /\ loading \in Sku \cup {NoSku}
    /\ enabled \subseteq Sku /\ advertised \subseteq Sku /\ waiting.purge \subseteq Sku

\* A snapshot goes only when every SKU that shares its repo is to be purged:
\* neither a policy change, a canceled or failed installation nor a purge of
\* one of several SKUs takes it away.
SnapshotStays ==
    [][\A r \in Hub : OnDisk(World, r) /\ ~OnDisk(World, r)' =>
          \A k \in Sku : Repo(k) = r => k \in waiting.purge]_vars

\* A SKU whose snapshot is found to have a hole is neither offered nor, unless
\* another sync runs, filled.
Withdrawn(k) == loading = k /\ ~flight

\* On a machine that has the marker the agent looks for, an enabled SKU is
\* offered again and again, whatever installations were cut, canceled, raced by
\* a job or purged before, unless it is left withdrawn.
EnabledGetsOffered ==
    \A k \in Sku :
        <>[](k \in enabled /\ "v4" \in venv.marks /\ ~Withdrawn(k)) => []<>(k \in advertised)

\* A setup worker that has done all its steps leaves the SKU installed.
\* (image/worker.py:337 bumps the marker; image/mod.rs:27 is the agent's.)
InstallMeansReady ==
    \A k \in Sku :
        python.st = "ok" /\ venv.bin /\ "v5" \in venv.marks /\ hub[Repo(k)] = Parts => InstallReady(World, k)
=============================================================================
