----------------------------- MODULE ModelFiles -----------------------------
(* The model cache on disk and everyone who writes to it: the catalog syncs  *)
(* of models/sync.rs with their resumable downloads (models/download.rs),    *)
(* the readiness, adoption and purge rules of models/storage.rs, the         *)
(* quarantine of models/health.rs, the session of agent.rs that starts and   *)
(* cancels syncs and offers what is on disk, and the disk clearing of        *)
(* update/space.rs.                                                          *)
(*                                                                           *)
(* A file is the sequence of blocks on disk; <<1, ..., Blocks>> is the file  *)
(* the server has. An open handle follows its file when it is renamed and    *)
(* writes to nowhere once it is unlinked. A sync belongs to the session that *)
(* spawned it and outlives it: sync s is the sync of session s.              *)
EXTENDS Integers, FiniteSets, Sequences, SequencesExt

CONSTANTS Catalog,       \* the models with weights, in the order of the catalog
          FilesOf(_),    \* a model's weight_filenames: the primary first
          Blocks,        \* blocks of a file
          MaxAttempts,   \* DOWNLOAD_RETRIES
          MaxSessions,   \* sessions between the agent and the cloud
          MaxTrouble     \* network, disk and process faults, policy pushes,
                         \* purges, quarantines and disk clearings

Model   == ToSet(Catalog)
Session == 1..MaxSessions
Absent  == <<-1>>            \* no such file
NoModel == "none"
Whole   == [i \in 1..Blocks |-> i]

ASSUME BlocksAssumption == Blocks \in Nat \ {0}
ASSUME CatalogAssumption ==
    /\ Catalog \in Seq(Model) /\ NoModel \notin Model
    /\ \A m \in Model : FilesOf(m) \in Seq(ToSet(FilesOf(m))) \ {<<>>}
ASSUME BoundsAssumption == {MaxAttempts, MaxSessions, MaxTrouble} \subseteq Nat

VARIABLES
    dir,        \* the cache directory of each model
    task,       \* the catalog sync of each session
    flight,     \* sync_in_flight of each session
    loading,    \* downloading_model of the state file
    sess,       \* sessions so far; the last one is the current one
    link,       \* the current session has had its "ready"
    enabled,    \* model_policy
    inventory,  \* cached_disk_ready, and disk_inventory_primed
    advertised, \* models of the last register message
    waiting,    \* purges to apply once the canceled sync is idle, or no wait
    raced,      \* models two syncs have worked on at the same time
    trouble

vars == <<dir, task, flight, loading, sess, link, enabled, inventory, advertised, waiting, raced, trouble>>

World == [dir |-> dir, task |-> task, flight |-> flight, loading |-> loading]
Becomes(w) == dir' = w.dir /\ task' = w.task /\ flight' = w.flight /\ loading' = w.loading

Off == [pc |-> "off", todo |-> {}, m |-> NoModel, src |-> "mirror", k |-> 0, attempt |-> 0,
        asked |-> 0, at |-> "none", append |-> FALSE, next |-> 0, canceled |-> FALSE]
EmptyDir(m) == [here |-> FALSE, part |-> [f \in ToSet(FilesOf(m)) |-> Absent],
                file |-> [f \in ToSet(FilesOf(m)) |-> Absent], manifest |-> {}, corrupt |-> FALSE]
NoWait == [on |-> FALSE, purge |-> {}, idle |-> FALSE]

Init ==
    /\ dir = [m \in Model |-> EmptyDir(m)]
    /\ task = [s \in Session |-> Off]
    /\ flight = [s \in Session |-> FALSE]
    /\ loading = NoModel
    /\ sess = 0 /\ link = FALSE
    /\ enabled = Model
    /\ inventory = [primed |-> FALSE, ready |-> {}]
    /\ advertised = {}
    /\ waiting = NoWait
    /\ raced = {}
    /\ trouble = MaxTrouble

-----------------------------------------------------------------------------
(* What is on disk, and when it counts as installed. *)

\* gguf_payload_in_bounds: the header is readable and the payload fits. It
\* cannot see that blocks are missing in the middle or written twice.
InBounds_Header(c) == c # Absent /\ c # <<>> /\ c[1] = 1    \* (mutant) the payload is not measured
InBounds(c) == c # Absent /\ Len(c) >= Blocks /\ c[1] = 1

Complete(w, m, f)     == InBounds(w.dir[m].file[f])
ManifestFile(w, m, f) == f \in w.dir[m].manifest /\ Complete(w, m, f)
WeightsReady(w, m)    == /\ ~w.dir[m].corrupt /\ w.dir[m].manifest # {}
                         /\ \A f \in w.dir[m].manifest : Complete(w, m, f)

\* adopt_existing_gguf: the file the catalog names, or else the only one.
Adoptable(w, m) ==
    LET whole == {f \in ToSet(FilesOf(m)) : Complete(w, m, f)}
        named == FilesOf(m)[1]
    IN  IF named \in whole THEN {named} ELSE IF Cardinality(whole) = 1 THEN whole ELSE {}

\* catalog_model_weights_ready, whose manifest is rewritten for what it adopts.
CheckReady(w, m) ==
    IF WeightsReady(w, m) \/ Adoptable(w, m) = {} THEN w ELSE [w EXCEPT !.dir[m].manifest = Adoptable(w, m)]

-----------------------------------------------------------------------------
(* The file system. *)

FileNow(t) == FilesOf(t.m)[t.k]

Paths(M) == UNION {{m} \X ToSet(FilesOf(m)) : m \in M}

\* The handles open on files that move or go.
Follow(w, paths, from, to) ==
    [w EXCEPT !.task = [s \in Session |->
        IF w.task[s].at = from /\ <<w.task[s].m, FileNow(w.task[s])>> \in paths
        THEN [w.task[s] EXCEPT !.at = to] ELSE w.task[s]]]

\* What is left of the files c of model m.
Left(c, m, paths) == [f \in DOMAIN c |-> IF <<m, f>> \in paths THEN Absent ELSE c[f]]
RemoveParts(w, paths) ==
    [Follow(w, paths, "part", "lost") EXCEPT
        !.dir = [m \in Model |-> [w.dir[m] EXCEPT !.part = Left(@, m, paths)]]]
RemoveFiles(w, paths) ==
    [Follow(w, paths, "file", "lost") EXCEPT
        !.dir = [m \in Model |-> [w.dir[m] EXCEPT !.file = Left(@, m, paths)]]]
RenamePart(w, m, f) ==
    [Follow(Follow(w, {<<m, f>>}, "file", "lost"), {<<m, f>>}, "part", "file") EXCEPT
        !.dir[m].file[f] = w.dir[m].part[f], !.dir[m].part[f] = Absent]

\* Every handle inside the directories is lost with them.
DropDirs(w, M) ==
    [w EXCEPT !.dir = [m \in Model |-> IF m \in M THEN EmptyDir(m) ELSE w.dir[m]],
              !.task = [s \in Session |-> IF w.task[s].m \in M /\ w.task[s].at # "none"
                                          THEN [w.task[s] EXCEPT !.at = "lost"] ELSE w.task[s]]]

SetCorrupt(w, M, b) ==
    [w EXCEPT !.dir = [m \in Model |-> IF m \in M THEN [w.dir[m] EXCEPT !.corrupt = b] ELSE w.dir[m]]]

\* purge_incomplete_model_weights; the health file is not in the manifest
\* either, so it goes too.
PurgeIncomplete_Everything(w, M) ==     \* (mutant) the manifest is not looked at
    SetCorrupt(RemoveFiles(RemoveParts(w, Paths(M)), Paths(M)), M, FALSE)
PurgeIncomplete(w, M) ==
    LET scraps == {p \in Paths(M) : ~ManifestFile(w, p[1], p[2])}
    IN  SetCorrupt(RemoveFiles(RemoveParts(w, Paths(M)), scraps), M, FALSE)
PurgeFailed(w, M) ==
    LET v == PurgeIncomplete(w, M) IN DropDirs(v, {m \in M : ~WeightsReady(v, m)})

\* A write through the handle: at the end, or at the handle's own offset.
Written(c, t) ==
    IF t.append THEN Append(c, t.next)
    ELSE [i \in 1..(IF Len(c) < t.next THEN t.next ELSE Len(c)) |->
             IF i = t.next THEN i ELSE IF i <= Len(c) THEN c[i] ELSE 0]
WriteBlock(w, s) ==
    LET t == w.task[s]
    IN  CASE t.at = "part" -> [w EXCEPT !.dir[t.m].part[FileNow(t)] = Written(@, t)]
          [] t.at = "file" -> [w EXCEPT !.dir[t.m].file[FileNow(t)] = Written(@, t)]
          [] OTHER -> w

-----------------------------------------------------------------------------
(* A sync: spawn_catalog_sync and the download it awaits, one action between *)
(* two awaits that matter.                                                   *)

\* The cancel flag, the model and the flags a sync leaves behind.
EndSync(w, s) == [w EXCEPT !.task[s] = Off, !.loading = NoModel, !.flight[s] = FALSE]

\* The next one, in the order of the catalog.
First(todo) == Catalog[Min({i \in DOMAIN Catalog : Catalog[i] \in todo})]
NextModel(w, s) ==
    LET t == w.task[s]
    IN  [w EXCEPT !.loading = NoModel,
                  !.task[s] = [Off EXCEPT !.pc = "head", !.todo = t.todo \ {First(t.todo)}, !.canceled = t.canceled]]

\* A model that is ready is passed over; the label is left as it is.
Skip(w, s) == [w EXCEPT !.task[s].todo = @ \ {First(@)}]

\* After download_catalog_model: "ok", "retry" (the partial file stays),
\* "failed", or "nospace".
EndModel(w, s, result) ==
    LET m == w.task[s].m
    IN  IF w.task[s].canceled THEN EndSync(PurgeIncomplete(w, {m}), s)
        ELSE CASE result \in {"ok", "retry"} -> NextModel(w, s)
               [] result = "failed"  -> NextModel(PurgeFailed(w, {m}), s)
               [] result = "nospace" -> EndSync(PurgeFailed(w, {m}), s)

Missing(w, m, k) == {i \in k..Len(FilesOf(m)) : ~ManifestFile(w, m, FilesOf(m)[i])}

PartLen(w, m, f) == IF w.dir[m].part[f] = Absent THEN 0 ELSE Len(w.dir[m].part[f])

\* download_hf_file and download_mirror_file up to the first request, from file k
\* on; after the last file the manifest is written.
Advance(w, s, k) ==
    LET m == w.task[s].m
    IN  IF Missing(w, m, k) = {}
        THEN EndModel([w EXCEPT !.dir[m].manifest = ToSet(FilesOf(m)), !.dir[m].corrupt = FALSE,
                                !.dir[m].here = TRUE], s, "ok")
        ELSE LET i == Min(Missing(w, m, k))
             IN  [RemoveFiles(w, {<<m, FilesOf(m)[i]>>}) EXCEPT
                    !.dir[m].here = TRUE, !.task[s].k = i, !.task[s].attempt = 1,
                    !.task[s].pc = "answer", !.task[s].asked = PartLen(w, m, FilesOf(m)[i]), !.task[s].at = "none"]

\* download_mirror_gguf and download_hf_gguf.
Source(w, s) == IF Missing(w, w.task[s].m, 1) = {} THEN EndModel(w, s, "ok") ELSE Advance(w, s, 1)

\* stream_url_to_file's next attempt, or the other source, or the verdict.
Fails(w, s, retryable) ==
    LET t == w.task[s]
        v == [w EXCEPT !.task[s].at = "none"]
    IN  IF retryable /\ t.attempt < MaxAttempts
        THEN [v EXCEPT !.task[s].pc = "ask", !.task[s].attempt = @ + 1]
        ELSE IF t.src = "mirror" THEN Source([RemoveParts(v, Paths({t.m})) EXCEPT !.task[s].src = "hf"], s)
        ELSE EndModel(v, s, IF retryable THEN "retry" ELSE "failed")

FinalizeDownload(w, s) ==
    LET t == w.task[s]
        f == FileNow(t)
        v == [w EXCEPT !.task[s].at = "none"]
        r == RenamePart(v, t.m, f)
    IN  IF w.dir[t.m].part[f] \in {Absent, <<>>} THEN Fails(RemoveParts(v, {<<t.m, f>>}), s, FALSE)
        ELSE IF InBounds(r.dir[t.m].file[f]) THEN Advance(r, s, t.k + 1)
        ELSE Fails(RemoveFiles(r, {<<t.m, f>>}), s, TRUE)

\* The loop over the pending models. A full disk ends the sync.
TakeModel(s) ==
    LET t == task[s]
        m == First(t.todo)
        w == CheckReady(World, m)
    IN  /\ t.pc = "head"
        /\ \/ /\ t.canceled \/ t.todo = {}
              /\ Becomes(EndSync(World, s))
           \/ /\ ~t.canceled /\ t.todo # {}
              /\ Becomes(IF WeightsReady(w, m) THEN Skip(w, s)
                         ELSE Source([w EXCEPT !.loading = m, !.task[s].m = m, !.task[s].src = "mirror"], s))
        /\ UNCHANGED trouble
DiskFull(s) ==
    LET m == First(task[s].todo)
        w == CheckReady(World, m)
    IN  /\ task[s].pc = "head" /\ task[s].todo # {} /\ ~task[s].canceled
        /\ ~WeightsReady(w, m)
        /\ trouble > 0 /\ trouble' = trouble - 1
        /\ Becomes(EndSync(w, s))

\* The next attempt, after a pause.
Request(s) ==
    /\ task[s].pc = "ask"
    /\ Becomes([World EXCEPT !.task[s].pc = "answer", !.task[s].asked = PartLen(World, task[s].m, FileNow(task[s]))])
    /\ UNCHANGED trouble

\* The part is opened, at its end for a range answer and emptied otherwise.
Opened(w, s, resume) ==
    LET t == w.task[s]
        old == w.dir[t.m].part[FileNow(t)]
    IN  IF ~w.dir[t.m].here THEN Fails(w, s, FALSE)
        ELSE [w EXCEPT !.dir[t.m].part[FileNow(t)] = IF resume /\ old # Absent THEN old ELSE <<>>,
                       !.task[s].pc = "stream", !.task[s].at = "part", !.task[s].append = resume,
                       !.task[s].next = IF resume THEN t.asked + 1 ELSE 1]

\* stream_url_once: 416, 206 or 200.
Answer(s) ==
    LET t == task[s]
    IN  /\ t.pc = "answer"
        /\ Becomes(IF t.asked >= Blocks THEN FinalizeDownload(World, s) ELSE Opened(World, s, t.asked > 0))
        /\ UNCHANGED trouble
\* A server that ignores the range, an HTTP error, a connection error.
AnswerFault(s) ==
    LET t == task[s]
    IN  /\ t.pc = "answer"
        /\ trouble > 0 /\ trouble' = trouble - 1
        /\ \/ t.asked > 0 /\ Becomes(Opened(RemoveParts(World, {<<t.m, FileNow(t)>>}), s, FALSE))
           \/ \E retryable \in BOOLEAN : Becomes(Fails(World, s, retryable))

Chunk(s) ==
    LET w == WriteBlock(World, s)
    IN  /\ task[s].pc = "stream"
        /\ Becomes(IF task[s].next < Blocks THEN [w EXCEPT !.task[s].next = @ + 1] ELSE FinalizeDownload(w, s))
        /\ UNCHANGED trouble
\* The stream breaks, or ends early without a declared length, or the disk is
\* full: then nothing is tried at the other source.
Cut(s) ==
    /\ task[s].pc = "stream"
    /\ trouble > 0 /\ trouble' = trouble - 1
    /\ \/ Becomes(Fails(World, s, TRUE))
       \/ Becomes(FinalizeDownload(World, s))
       \/ Becomes(EndModel(World, s, "nospace"))

SyncStep(s) == TakeModel(s) \/ Request(s) \/ Answer(s) \/ Chunk(s)
SyncFault(s) == DiskFull(s) \/ AnswerFault(s) \/ Cut(s)

-----------------------------------------------------------------------------
(* The session: what it offers, what it downloads and what it stops.         *)

CatalogReady(inv, m) == inv.primed /\ m \in inv.ready
RegisterModelIds(w, inv, on) == {m \in on : CatalogReady(inv, m) /\ w.loading # m}
Pending(inv, on) == {m \in on : ~CatalogReady(inv, m)}

NeedsReregister_More(new, old) == ~(new \subseteq old)     \* (mutant) only news are sent
NeedsReregister(new, old) == new # old
Reregister(w, inv, on) ==
    LET new == RegisterModelIds(w, inv, on)
    IN  advertised' = IF NeedsReregister(new, advertised) THEN new ELSE advertised

\* sync_model_weights: one sync per session, by the session's own flag.
SyncModelWeights(w, s, inv, on) ==
    IF Pending(inv, on) = {} \/ w.flight[s] THEN w
    ELSE [w EXCEPT !.flight[s] = TRUE, !.task[s] = [Off EXCEPT !.pc = "head", !.todo = Pending(inv, on)]]

\* cancel_active_downloads reaches the sync of its own session only.
CancelActive_FreesFlag(w, s) ==     \* (mutant) as if the sync had exited
    [w EXCEPT !.loading = NoModel, !.task[s].canceled = (w.task[s].pc # "off"), !.flight[s] = FALSE]
CancelActive(w, s) == [w EXCEPT !.loading = NoModel, !.task[s].canceled = (w.task[s].pc # "off")]

ApplyPolicy(w, s, on) ==
    LET v == PurgeIncomplete(w, Model \ on)
    IN  IF w.loading \notin on \cup {NoModel} THEN CancelActive(v, s) ELSE v

Scan(w) == [primed |-> TRUE, ready |-> {m \in Model : WeightsReady(w, m)}]
NoScan  == [primed |-> FALSE, ready |-> {}]

\* A connection up to its register message: a new SessionState with flags of
\* its own. The disk scan of the connection may or may not have come in.
Ready ==
    LET w == World
        s == sess + 1
        v == ApplyPolicy(w, s, enabled)
    IN  /\ ~link /\ sess < MaxSessions
        /\ sess' = s /\ link' = TRUE
        /\ inventory' \in {NoScan, Scan(w)}
        /\ LET u == SyncModelWeights(v, s, inventory', enabled)
           IN  Becomes(u) /\ advertised' = RegisterModelIds(u, inventory', enabled)
        /\ UNCHANGED <<enabled, waiting, trouble>>

\* The connection ends; the sync goes on.
Lose ==
    /\ link /\ ~waiting.on /\ sess < MaxSessions
    /\ link' = FALSE /\ loading' = NoModel /\ advertised' = {}
    /\ UNCHANGED <<dir, task, flight, sess, enabled, inventory, waiting, trouble>>

\* The agent dies; its state file keeps the model it was downloading.
Crash ==
    /\ sess > 0 /\ sess < MaxSessions
    /\ trouble > 0 /\ trouble' = trouble - 1
    /\ link' = FALSE /\ waiting' = NoWait /\ advertised' = {}
    /\ task' = [s \in Session |-> Off] /\ flight' = [s \in Session |-> FALSE]
    /\ UNCHANGED <<dir, loading, sess, enabled, inventory>>

\* The maintenance task of the heartbeat, which may overlap a pong.
HeartbeatSync ==
    /\ link /\ Pending(inventory, enabled) # {} /\ ~flight[sess]
    /\ Becomes(SyncModelWeights(World, sess, inventory, enabled))
    /\ UNCHANGED <<sess, link, enabled, inventory, advertised, waiting, trouble>>
HeartbeatScan ==
    /\ link
    /\ inventory' = Scan(World)
    /\ Reregister(World, inventory', enabled)
    /\ UNCHANGED <<dir, task, flight, loading, sess, link, enabled, waiting, trouble>>

\* A pong or a policy push: the new policy, models to purge, and what is
\* canceled for either.
Stops(purge) ==
    /\ flight[sess]
    /\ \E m \in purge : loading = m \/ ~CatalogReady(inventory, m)
Pong(on, purge) ==
    LET policy == enabled # on
        v == IF policy THEN ApplyPolicy(World, sess, on) ELSE World
        hit == policy /\ loading \notin on \cup {NoModel}
        stops == Stops(purge)
    IN  /\ link /\ ~waiting.on
        /\ trouble > 0 /\ trouble' = trouble - 1
        /\ enabled' = on
        /\ Becomes(IF stops THEN CancelActive(v, sess) ELSE v)
        /\ waiting' = [on |-> TRUE, purge |-> purge, idle |-> hit \/ stops]
        /\ UNCHANGED <<sess, link, inventory, advertised>>

\* wait_for_catalog_sync_idle, which gives up after 90 s, and the rest of the
\* handler: the purged directories are renamed away, what is missing is
\* downloaded, and what is offered is sent.
PongApply ==
    LET w == SyncModelWeights(DropDirs(World, waiting.purge), sess, inventory, enabled)
    IN  /\ waiting.on
        /\ ~waiting.idle \/ ~flight[sess] \/ trouble > 0
        /\ trouble' = IF waiting.idle /\ flight[sess] THEN trouble - 1 ELSE trouble
        /\ Becomes(w)
        /\ Reregister(w, inventory, enabled)
        /\ waiting' = NoWait
        /\ UNCHANGED <<sess, link, enabled, inventory>>

\* handle_weight_load_failure of a job: the error of the loader blames the
\* file. quarantine_corrupt_weights spares the manifest.
LoadFails(m) ==
    /\ link /\ trouble > 0 /\ trouble' = trouble - 1
    /\ WeightsReady(World, m) /\ m \in advertised
    /\ Becomes(SetCorrupt(RemoveFiles(RemoveParts(World, Paths({m})), Paths({m})), {m}, TRUE))
    /\ UNCHANGED <<sess, link, enabled, inventory, advertised, waiting>>

\* ensure_disk_for_update, in the process of an updater: every directory that
\* is not ready, and then as many of the others as it takes.
FreeSpace(more) ==
    LET unready == {m \in Model : dir[m].here /\ ~WeightsReady(World, m)}
    IN  /\ trouble > 0 /\ trouble' = trouble - 1
        /\ Becomes(DropDirs(PurgeFailed(World, unready), more))
        /\ UNCHANGED <<sess, link, enabled, inventory, advertised, waiting>>

-----------------------------------------------------------------------------
Working(t) == t.pc \in {"ask", "answer", "stream"}
Overlap == {m \in Model : \E s, z \in Session : s # z /\ Working(task[s]) /\ Working(task[z])
                                                /\ task[s].m = m /\ task[z].m = m}

SyncRuns == \E s \in Session : (SyncStep(s) \/ SyncFault(s))
                               /\ UNCHANGED <<sess, link, enabled, inventory, advertised, waiting>>
Act == \/ SyncRuns
       \/ Ready \/ Lose \/ Crash \/ HeartbeatSync \/ HeartbeatScan \/ PongApply
       \/ \E m \in Model : \E on \in {enabled \ {m}, enabled \cup {m}}, purge \in SUBSET {m} : Pong(on, purge)
       \/ \E m \in Model : LoadFails(m)
       \/ \E m \in Model : \E more \in SUBSET {m} : FreeSpace(more)
Next == Act /\ raced' = raced \cup Overlap'

Sync(s) == /\ SyncStep(s) /\ UNCHANGED <<sess, link, enabled, inventory, advertised, waiting>>
           /\ raced' = raced \cup Overlap'

\* Weak fairness of the syncs, of the reconnect loop, of the heartbeat's two
\* steps and of the pong handler. The last four undo their own guard, so weak
\* fairness says that the guard does not hold for ever.
Spec ==
    /\ Init /\ [][Next]_vars
    /\ \A s \in Session : []<>(task[s].pc = "off") \/ []<><<Sync(s)>>_vars
    /\ []<>~(~link /\ sess < MaxSessions)
    /\ []<>~(link /\ Pending(inventory, enabled) # {} /\ ~flight[sess])
    /\ []<>~(link /\ (inventory # Scan(World) \/ NeedsReregister(RegisterModelIds(World, inventory, enabled), advertised)))
    /\ []<>~(waiting.on /\ (~waiting.idle \/ ~flight[sess]))

-----------------------------------------------------------------------------
(* What the checks establish. *)

\* Types; a directory that is not there is empty, and a running sync holds the
\* flag of its session, so that no second one starts beside it.
TypeOK ==
    /\ \A m \in Model : /\ dir[m].here \in BOOLEAN /\ dir[m].corrupt \in BOOLEAN
                        /\ dir[m].manifest \subseteq ToSet(FilesOf(m))
                        /\ ~dir[m].here => dir[m] = EmptyDir(m)
    /\ \A s \in Session : /\ task[s].pc \in {"off", "head", "ask", "answer", "stream"}
                          /\ Working(task[s]) => task[s].m \in Model
                          /\ task[s].pc # "off" => flight[s] /\ s <= sess
    /\ loading \in Model \cup {NoModel}
    /\ enabled \subseteq Model /\ advertised \subseteq Model /\ raced \subseteq Model

\* A file that counts as complete is the server's file, whatever was resumed,
\* cut, restarted or canceled on the way, unless two syncs worked on its model
\* at the same time.
OnlyRacesCorrupt ==
    \A m \in Model \ raced : \A f \in ToSet(FilesOf(m)) :
        Complete(World, m, f) => dir[m].file[f] = Whole

\* Every file of a ready model is there and complete.
ReadyHasAllFiles ==
    \A m \in Model : WeightsReady(World, m) => \A f \in ToSet(FilesOf(m)) : Complete(World, m, f)

\* Weights once ready stay ready, policy changes, failed and canceled syncs
\* included: only a purge, a quarantine or an updater short of disk space takes
\* them away, or a second sync that works on the same model.
InstalledStays ==
    [][\A m \in Model \ raced' :
          WeightsReady(World, m) /\ ~WeightsReady(World, m)' =>
              (PongApply /\ m \in waiting.purge) \/ LoadFails(m) \/ FreeSpace({m})]_vars

\* Once policy, network and disk are quiet, what the session offers is exactly
\* what the policy enables: every sync has ended and given its flag back, what
\* was interrupted has been downloaded, and nothing stale is offered.
EnabledGetsOffered == <>[](advertised = enabled)
=============================================================================
