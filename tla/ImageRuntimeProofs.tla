------------------------- MODULE ImageRuntimeProofs -------------------------
(***************************************************************************)
(* The image runtime stays well typed, its sync holds the flag exactly     *)
(* while it runs, and a snapshot goes only with its last SKU, for any      *)
(* catalog and any sharing of repos.                                       *)
(***************************************************************************)
EXTENDS ImageRuntime, TLAPS, WellFoundedInduction

-----------------------------------------------------------------------------
(* Worlds *)

Pcs    == {"off", "head", "claimed", "fetch", "unpack", "venv", "deps", "lost", "hub", "check"}
Python == [st : {"gone", "part", "archive", "ok"}, by : Who \cup {"none"}]
Venv0  == [dir : BOOLEAN, bin : BOOLEAN, marks : SUBSET {"v4", "v5"}]
Snap   == {Gone} \cup SUBSET Parts
Hubs   == [Hub -> Snap]
Proc   == [pc : Pcs, todo : SUBSET Sku, k : Sku \cup {NoSku}, canceled : BOOLEAN]
Procs  == [Who -> Proc]
Load   == Sku \cup {NoSku}
Worlds == [python : Python, venv : Venv0, hub : Hubs, proc : Procs, flight : BOOLEAN, loading : Load]

\* A process at work is so for a SKU.
Busy(p) == p.pc \notin {"off", "head"}
About(w) == \A i \in Who : Busy(w.proc[i]) => w.proc[i].k \in Sku

\* The sync holds its flag exactly while it runs.
Flagged(w) == w.flight <=> w.proc["sync"].pc # "off"

Sound(w) == w \in Worlds /\ About(w) /\ Flagged(w)

\* Snapshots stay from one world to the next.
Grows(w, v) == \A r \in Hub : OnDisk(w, r) => OnDisk(v, r)
Goes(w, v) == Sound(v) /\ Grows(w, v)

\* One process is changed.
LEMMA Retasks ==
    ASSUME NEW w, Sound(w), NEW i \in Who, NEW p \in Proc, Busy(p) => p.k \in Sku,
           NEW v \in Worlds, v.proc = [w.proc EXCEPT ![i] = p],
           IF i = "sync" THEN v.flight <=> p.pc # "off" ELSE v.flight = w.flight
    PROVE  Sound(v)
<1>1. w.proc \in Procs
  BY DEF Sound, Worlds
<1>2. \A j \in Who : v.proc[j] = IF j = i THEN p ELSE w.proc[j]
  BY <1>1 DEF Procs
<1>3. "sync" \in Who
  BY DEF Who
<1>4. About(v)
  BY <1>2 DEF Sound, About
<1>5. Flagged(v)
  BY <1>2, <1>3 DEF Sound, Flagged
<1> QED BY <1>4, <1>5 DEF Sound

\* A process that has a SKU.
Has(p) == p.pc # "off" /\ p.k \in Sku

LEMMA BusyHas == ASSUME NEW w, Sound(w), NEW i \in Who, Busy(w.proc[i]) PROVE Has(w.proc[i])
BY DEF Sound, About, Busy, Has

\* Processes in a world.
LEMMA ProcTyped == ASSUME NEW w, Sound(w), NEW i \in Who PROVE w.proc[i] \in Proc
BY DEF Sound, Worlds, Procs

\* No process.
LEMMA OffTyped == Off \in Proc /\ Off.pc = "off" /\ ~Busy(Off)
BY DEF Off, Proc, Pcs, Busy

\* A process goes to its next step.
LEMMA Advances ==
    ASSUME NEW w, Sound(w), NEW i \in Who, Has(w.proc[i]), NEW x \in Pcs \ {"off"}
    PROVE  LET v == [w EXCEPT !.proc[i].pc = x]
           IN  /\ Sound(v) /\ v.hub = w.hub /\ v.python = w.python /\ v.venv = w.venv /\ v.flight = w.flight
               /\ v.loading = w.loading /\ v.proc = [w.proc EXCEPT ![i].pc = x]
<1> DEFINE v == [w EXCEPT !.proc[i].pc = x]
           p == [w.proc[i] EXCEPT !.pc = x]
<1>1. w \in Worlds
  BY DEF Sound
<1>2. w.proc \in Procs /\ w.proc[i] \in Proc
  BY <1>1, ProcTyped DEF Worlds
<1>3. /\ v.hub = w.hub /\ v.python = w.python /\ v.venv = w.venv /\ v.flight = w.flight
      /\ v.loading = w.loading /\ v.proc = [w.proc EXCEPT ![i].pc = x]
  BY <1>1 DEF Worlds
<1>4. p \in Proc /\ p.pc = x /\ p.k = w.proc[i].k
  BY <1>2 DEF Proc
<1>5. v.proc = [w.proc EXCEPT ![i] = p]
  BY <1>2, <1>3 DEF Procs
<1>6. [w.proc EXCEPT ![i] = p] \in Procs
  BY <1>2, <1>4 DEF Procs
<1>7. v \in Worlds
  <2>1. v = [python |-> v.python, venv |-> v.venv, hub |-> v.hub, proc |-> v.proc, flight |-> v.flight, loading |-> v.loading]
    BY <1>1 DEF Worlds
  <2> HIDE DEF v, p
  <2> QED BY <1>1, <1>3, <1>5, <1>6, <2>1 DEF Worlds
<1>8. p.k \in Sku
  BY <1>4 DEF Has
<1>9. i = "sync" => v.flight
  BY <1>3 DEF Sound, Flagged, Has
<1> HIDE DEF p, v
<1>10. Sound(v)
  BY <1>3, <1>4, <1>5, <1>7, <1>8, <1>9, Retasks
<1> QED BY <1>3, <1>10 DEF v

\* A world is a record of six.
LEMMA SixFields ==
    ASSUME NEW w \in Worlds
    PROVE  w = [python |-> w.python, venv |-> w.venv, hub |-> w.hub, proc |-> w.proc, flight |-> w.flight, loading |-> w.loading]
BY DEF Worlds

\* What is made of the fields of worlds is one.
LEMMA MadeOf ==
    ASSUME NEW p \in Python, NEW e \in Venv0, NEW h \in Hubs, NEW t \in Procs, NEW f \in BOOLEAN, NEW l \in Load
    PROVE  [python |-> p, venv |-> e, hub |-> h, proc |-> t, flight |-> f, loading |-> l] \in Worlds
BY DEF Worlds

-----------------------------------------------------------------------------
(* The operations of an installation *)

\* The first of what is to do is of it.
LEMMA MinIn == ASSUME NEW S \in SUBSET Nat, S # {} PROVE Min(S) \in S
<1>1. PICK x \in S : \A y \in S : ~(y < x)
  <2>1. IsWellFoundedOn(OpToRel(<, Nat), Nat)
    BY NatLessThanWellFounded
  <2>2. PICK x \in S : \A y \in S : <<y, x>> \notin OpToRel(<, Nat)
    BY <2>1, WFMin
  <2> QED BY <2>2 DEF OpToRel
<1>2. \A y \in S : x =< y
  BY <1>1
<1> QED BY <1>2 DEF Min

LEMMA FirstIn == ASSUME NEW todo \in SUBSET Sku, todo # {} PROVE First(todo) \in todo
<1> DEFINE I == {n \in DOMAIN Catalog : Catalog[n] \in todo}
<1>1. I # {} /\ I \subseteq Nat
  <2>1. \A k \in Sku : \E n \in DOMAIN Catalog : Catalog[n] = k
    BY DEF Sku, ToSet
  <2>2. DOMAIN Catalog \subseteq Nat
    BY CatalogAssumption
  <2> QED BY <2>1, <2>2
<1>2. Min(I) \in I
  BY <1>1, MinIn
<1> QED BY <1>2 DEF First

\* The sync ends, with its flag.
LEMMA EndSyncKeeps == ASSUME NEW w, Sound(w) PROVE Sound(EndSync(w)) /\ EndSync(w).hub = w.hub
<1> DEFINE v == EndSync(w)
<1>1. w \in Worlds /\ "sync" \in Who
  BY DEF Sound, Who
<1>0. v = [w EXCEPT !.proc["sync"] = Off, !.loading = NoSku, !.flight = FALSE]
  BY DEF EndSync
<1> HIDE DEF v
<1>2. /\ v.hub = w.hub /\ v.python = w.python /\ v.venv = w.venv /\ v.flight = FALSE /\ v.loading = NoSku
      /\ v.proc = [w.proc EXCEPT !["sync"] = Off]
      /\ v = [python |-> v.python, venv |-> v.venv, hub |-> v.hub, proc |-> v.proc, flight |-> v.flight, loading |-> v.loading]
  BY <1>0, <1>1 DEF Worlds
<1>3. [w.proc EXCEPT !["sync"] = Off] \in Procs
  BY <1>1, OffTyped DEF Worlds, Procs
<1>4. v \in Worlds
  BY <1>1, <1>2, <1>3 DEF Worlds, Load
<1>5. Sound(v)
  BY <1>1, <1>2, <1>4, OffTyped, Retasks
<1> QED BY <1>2, <1>5 DEF v

\* The sync goes to its next SKU.
LEMMA NextSkuKeeps ==
    ASSUME NEW w, Sound(w), w.flight
    PROVE  Sound(NextSku(w)) /\ NextSku(w).hub = w.hub
<1> DEFINE v == NextSku(w)
           todo == w.proc["sync"].todo
           p == [Off EXCEPT !.pc = "head", !.todo = todo \ {First(todo)}]
<1>1. w \in Worlds /\ "sync" \in Who
  BY DEF Sound, Who
<1>2. todo \subseteq Sku
  BY <1>1, ProcTyped DEF Proc
<1>3. p \in Proc /\ p.pc = "head" /\ ~Busy(p)
  BY <1>2, OffTyped DEF Proc, Pcs, Busy
<1>4. v = [w EXCEPT !.loading = NoSku, !.proc["sync"] = p]
  BY DEF NextSku
<1> HIDE DEF p, v
<1>5. /\ v.hub = w.hub /\ v.python = w.python /\ v.venv = w.venv /\ v.flight = w.flight /\ v.loading = NoSku
      /\ v.proc = [w.proc EXCEPT !["sync"] = p]
      /\ v = [python |-> v.python, venv |-> v.venv, hub |-> v.hub, proc |-> v.proc, flight |-> v.flight, loading |-> v.loading]
  BY <1>1, <1>4 DEF Worlds
<1>6. [w.proc EXCEPT !["sync"] = p] \in Procs
  BY <1>1, <1>3 DEF Worlds, Procs
<1>7. v \in Worlds
  BY <1>1, <1>5, <1>6 DEF Worlds, Load
<1>8. Sound(v)
  BY <1>1, <1>3, <1>5, <1>7, Retasks
<1> QED BY <1>5, <1>8 DEF v

\* The sync passes over a SKU.
LEMMA SkipKeeps ==
    ASSUME NEW w, Sound(w), w.proc["sync"].pc = "head"
    PROVE  Sound(Skip(w)) /\ Skip(w).hub = w.hub
<1> DEFINE v == Skip(w)
           t == w.proc["sync"]
           x == t.todo \ {First(t.todo)}
           p == [t EXCEPT !.todo = x]
<1>1. w \in Worlds /\ "sync" \in Who
  BY DEF Sound, Who
<1>2. t \in Proc
  BY <1>1, ProcTyped
<1>3. x \in SUBSET Sku
  BY <1>2 DEF Proc
<1>4. v = [w EXCEPT !.proc["sync"] = p]
  BY DEF Skip
<1> HIDE DEF x, v, t
<1>5. p \in Proc /\ p.pc = t.pc
  BY <1>2, <1>3 DEF Proc
<1>6. p.pc = "head" /\ ~Busy(p)
  BY <1>5 DEF Busy, t
<1> HIDE DEF p
<1>7. /\ v.hub = w.hub /\ v.python = w.python /\ v.venv = w.venv /\ v.flight = w.flight /\ v.loading = w.loading
      /\ v.proc = [w.proc EXCEPT !["sync"] = p]
      /\ v = [python |-> v.python, venv |-> v.venv, hub |-> v.hub, proc |-> v.proc, flight |-> v.flight, loading |-> v.loading]
  BY <1>1, <1>4 DEF Worlds
<1>8. [w.proc EXCEPT !["sync"] = p] \in Procs
  BY <1>1, <1>5 DEF Worlds, Procs
<1>9. v \in Worlds
  BY <1>1, <1>7, <1>8 DEF Worlds
<1>10. v.flight
  BY <1>7 DEF Sound, Flagged
<1>11. Sound(v)
  BY <1>1, <1>5, <1>6, <1>7, <1>9, <1>10, Retasks
<1> QED BY <1>7, <1>11 DEF v

\* An installation or a job ends.
LEMMA EndsKeeps ==
    ASSUME NEW w, Sound(w), NEW i \in Who, w.proc[i].pc # "off"
    PROVE  Sound(Ends(w, i)) /\ Ends(w, i).hub = w.hub
<1>1. CASE i # "sync"
  <2> DEFINE v == [w EXCEPT !.proc[i] = Off]
  <2>1. w \in Worlds
    BY DEF Sound
  <2>2. /\ v.hub = w.hub /\ v.python = w.python /\ v.venv = w.venv /\ v.flight = w.flight /\ v.loading = w.loading
        /\ v.proc = [w.proc EXCEPT ![i] = Off]
        /\ v = [python |-> v.python, venv |-> v.venv, hub |-> v.hub, proc |-> v.proc, flight |-> v.flight, loading |-> v.loading]
    BY <2>1 DEF Worlds
  <2>3. Ends(w, i) = v
    BY <1>1 DEF Ends
  <2> HIDE DEF v
  <2>4. [w.proc EXCEPT ![i] = Off] \in Procs
    BY <2>1, OffTyped DEF Worlds, Procs
  <2>5. v \in Worlds
    BY <2>1, <2>2, <2>4 DEF Worlds
  <2>6. Sound(v)
    BY <1>1, <2>2, <2>5, OffTyped, Retasks
  <2> QED BY <2>2, <2>3, <2>6
<1>2. CASE i = "sync"
  <2>1. w.flight
    BY <1>2 DEF Sound, Flagged
  <2> QED BY <1>2, <2>1, EndSyncKeeps, NextSkuKeeps DEF Ends
<1> QED BY <1>1, <1>2

\* A worker is spawned, if the directory for its job file is there.
LEMMA SpawnKeeps ==
    ASSUME NEW w, Sound(w), NEW i \in Who, Has(w.proc[i])
    PROVE  Sound(Spawn(w, i)) /\ Spawn(w, i).hub = w.hub
<1>1. w.proc[i].pc # "off"
  BY DEF Has
<1>2. "venv" \in Pcs \ {"off"}
  BY DEF Pcs
<1> QED BY <1>1, <1>2, EndsKeeps, Advances DEF Spawn

\* Python, the venv or the SKU of the state file is another.
LEMMA Furnished ==
    ASSUME NEW w, Sound(w), NEW v \in Worlds, v.proc = w.proc, v.flight = w.flight
    PROVE  Sound(v)
BY DEF Sound, About, Flagged

LEMMA Pythons ==
    ASSUME NEW w, Sound(w), NEW y \in Python
    PROVE  LET v == [w EXCEPT !.python = y] IN Sound(v) /\ v.hub = w.hub /\ v.proc = w.proc /\ v.venv = w.venv
<1> DEFINE v == [w EXCEPT !.python = y]
<1>1. w \in Worlds
  BY DEF Sound
<1>2. v \in Worlds /\ v.hub = w.hub /\ v.proc = w.proc /\ v.venv = w.venv /\ v.flight = w.flight
  BY <1>1 DEF Worlds
<1> HIDE DEF v
<1>3. Sound(v)
  BY <1>2, Furnished
<1> QED BY <1>2, <1>3 DEF v

LEMMA Venvs ==
    ASSUME NEW w, Sound(w), NEW e \in Venv0
    PROVE  LET v == [w EXCEPT !.venv = e] IN Sound(v) /\ v.hub = w.hub /\ v.proc = w.proc /\ v.venv = e
<1> DEFINE v == [w EXCEPT !.venv = e]
<1>1. w \in Worlds
  BY DEF Sound
<1>2. v \in Worlds /\ v.hub = w.hub /\ v.proc = w.proc /\ v.venv = e /\ v.flight = w.flight
  BY <1>1 DEF Worlds
<1> HIDE DEF v
<1>3. Sound(v)
  BY <1>2, Furnished
<1> QED BY <1>2, <1>3 DEF v

LEMMA Loads ==
    ASSUME NEW w, Sound(w), NEW l \in Load
    PROVE  LET v == [w EXCEPT !.loading = l] IN Sound(v) /\ v.hub = w.hub /\ v.proc = w.proc /\ v.flight = w.flight
<1> DEFINE v == [w EXCEPT !.loading = l]
<1>1. w \in Worlds
  BY DEF Sound
<1>2. v \in Worlds /\ v.hub = w.hub /\ v.proc = w.proc /\ v.flight = w.flight
  BY <1>1 DEF Worlds
<1> HIDE DEF v
<1>3. Sound(v)
  BY <1>2, Furnished
<1> QED BY <1>2, <1>3 DEF v

\* An installer makes its directories, and begins to fetch a Python.
LEMMA EnsureKeeps ==
    ASSUME NEW w, Sound(w), NEW i \in Who, Has(w.proc[i])
    PROVE  Sound(Ensure(w, i)) /\ Ensure(w, i).hub = w.hub
<1> DEFINE v == [w EXCEPT !.venv.dir = TRUE]
           e == [w.venv EXCEPT !.dir = TRUE]
           y == [st |-> "part", by |-> i]
           u == [v EXCEPT !.python = y, !.proc[i].pc = "fetch"]
           z == [v EXCEPT !.proc[i].pc = "fetch"]
<1>1. w \in Worlds /\ w.venv \in Venv0
  BY DEF Sound, Worlds
<1>3. e \in Venv0
  BY <1>1 DEF Venv0
<1>0. v = [w EXCEPT !.venv = e]
  OBVIOUS
<1> HIDE DEF v, e
<1>2. /\ v.hub = w.hub /\ v.python = w.python /\ v.venv = e /\ v.proc = w.proc
      /\ v.flight = w.flight /\ v.loading = w.loading
      /\ v = [python |-> v.python, venv |-> v.venv, hub |-> v.hub, proc |-> v.proc, flight |-> v.flight, loading |-> v.loading]
  BY <1>0, <1>1 DEF Worlds
<1>4. v \in Worlds
  BY <1>1, <1>2, <1>3 DEF Worlds
<1>5. Sound(v) /\ Has(v.proc[i])
  BY <1>2, <1>4 DEF Sound, About, Flagged
<1>6. CASE v.python.st = "ok"
  <2>1. Sound(Spawn(v, i)) /\ Spawn(v, i).hub = v.hub
    BY <1>5, SpawnKeeps
  <2>2. Ensure(w, i) = Spawn(v, i)
    BY <1>6 DEF Ensure, v
  <2> QED BY <1>2, <2>1, <2>2
<1>7. CASE v.python.st # "ok"
  <2>0. "fetch" \in Pcs \ {"off"} /\ y \in Python
    BY DEF Pcs, Python
  <2>1. Sound(z) /\ z.hub = v.hub /\ z \in Worlds
    BY <1>5, <2>0, Advances DEF Sound
  <2>a. u = [z EXCEPT !.python = y]
    <3> DEFINE p == [v.proc EXCEPT ![i].pc = "fetch"]
    <3>1. u = [v EXCEPT !.python = y, !.proc = p] /\ z = [v EXCEPT !.proc = p]
      OBVIOUS
    <3> HIDE DEF u, z, y, p
    <3> QED BY <1>4, <3>1 DEF Worlds
  <2> HIDE DEF u, z, y
  <2>2. /\ u.hub = z.hub /\ u.python = y /\ u.venv = z.venv /\ u.proc = z.proc
        /\ u.flight = z.flight /\ u.loading = z.loading
        /\ u = [python |-> u.python, venv |-> u.venv, hub |-> u.hub, proc |-> u.proc, flight |-> u.flight, loading |-> u.loading]
    BY <2>1, <2>a DEF Worlds
  <2>3. Ensure(w, i) = u
    BY <1>7 DEF Ensure, v, u, y
  <2>4. u \in Worlds
    BY <2>0, <2>1, <2>2 DEF Worlds
  <2>5. Sound(u)
    BY <2>1, <2>2, <2>4 DEF Sound, About, Flagged
  <2> QED BY <1>2, <2>1, <2>2, <2>3, <2>5
<1> QED BY <1>6, <1>7

\* Where the snapshot of a SKU is looked for.
LEMMA RepoIn == ASSUME NEW k \in Sku PROVE Repo(k) \in Hub
BY DEF Hub

\* A snapshot gets new contents.
LEMMA Rehubs ==
    ASSUME NEW w, Sound(w), NEW r \in Hub, NEW x \in SUBSET Parts
    PROVE  LET v == [w EXCEPT !.hub[r] = x]
           IN  Sound(v) /\ v.proc = w.proc /\ v.hub[r] = x /\ Grows(w, v)
<1> DEFINE v == [w EXCEPT !.hub[r] = x]
<1>1. w \in Worlds /\ w.hub \in Hubs
  BY DEF Sound, Worlds
<1>2. /\ v.hub = [w.hub EXCEPT ![r] = x] /\ v.python = w.python /\ v.venv = w.venv /\ v.proc = w.proc
      /\ v.flight = w.flight /\ v.loading = w.loading
      /\ v = [python |-> v.python, venv |-> v.venv, hub |-> v.hub, proc |-> v.proc, flight |-> v.flight, loading |-> v.loading]
  BY <1>1 DEF Worlds
<1> HIDE DEF v
<1>3. [w.hub EXCEPT ![r] = x] \in Hubs /\ [w.hub EXCEPT ![r] = x][r] = x
  BY <1>1 DEF Hubs, Snap
<1>4. v \in Worlds
  BY <1>1, <1>2, <1>3 DEF Worlds
<1>5. Sound(v)
  BY <1>2, <1>4 DEF Sound, About, Flagged
<1>6. x # Gone
  BY DEF Gone, Parts
<1>7. \A q \in Hub : v.hub[q] = IF q = r THEN x ELSE w.hub[q]
  BY <1>1, <1>2 DEF Hubs
<1>8. Grows(w, v)
  BY <1>6, <1>7 DEF Grows, OnDisk
<1> QED BY <1>2, <1>3, <1>5, <1>8 DEF v

\* The worker has set up the venv.
LEMMA AfterDepsKeeps ==
    ASSUME NEW w, Sound(w), NEW i \in Who, Busy(w.proc[i])
    PROVE  Goes(w, AfterDeps(w, i))
<1> DEFINE r == Repo(w.proc[i].k)
           x == IF OnDisk(w, r) THEN w.hub[r] ELSE {}
           v == [w EXCEPT !.proc[i].pc = "hub"]
           u == [v EXCEPT !.hub[r] = x]
<1>0. "hub" \in Pcs \ {"off"} /\ "check" \in Pcs \ {"off"}
  BY DEF Pcs
<1>1. w \in Worlds /\ r \in Hub
  BY RepoIn DEF Sound, About
<1>2. x \in SUBSET Parts
  BY <1>1 DEF OnDisk, Worlds, Hubs, Snap
<1>3. CASE i # "sync"
  <2>1. LET z == [w EXCEPT !.proc[i].pc = "check"] IN Sound(z) /\ z.hub = w.hub
    BY <1>0, BusyHas, Advances
  <2> QED BY <1>3, <2>1 DEF AfterDeps, Goes, Grows, OnDisk
<1>4. CASE i = "sync"
  <2>1. Sound(v) /\ v.hub = w.hub
    BY <1>0, BusyHas, Advances
  <2>2. AfterDeps(w, i) = [w EXCEPT !.proc[i].pc = "hub", !.hub[r] = x]
    BY <1>4 DEF AfterDeps
  <2>3. AfterDeps(w, i) = u
    <3> DEFINE p == [w.proc EXCEPT ![i].pc = "hub"]
               h == [w.hub EXCEPT ![r] = x]
    <3>1. v = [w EXCEPT !.proc = p] /\ u = [v EXCEPT !.hub = [v.hub EXCEPT ![r] = x]]
          /\ AfterDeps(w, i) = [w EXCEPT !.proc = p, !.hub = h]
      BY <2>2
    <3>2. u = [v EXCEPT !.hub = h]
      BY <2>1, <3>1
    <3> HIDE DEF p, h, u, v
    <3> QED BY <1>1, <3>1, <3>2 DEF Worlds
  <2> HIDE DEF x, r, v
  <2>4. Sound(u) /\ Grows(v, u)
    BY <1>1, <1>2, <2>1, Rehubs
  <2> HIDE DEF u
  <2> QED BY <2>1, <2>3, <2>4 DEF Goes, Grows, OnDisk
<1> QED BY <1>3, <1>4

\* A part of a snapshot is written.
LEMMA DownloadKeeps ==
    ASSUME NEW w, Sound(w), NEW i \in Who, Busy(w.proc[i]), NEW r \in Hub, NEW part \in Parts
    PROVE  Goes(w, Download(w, i, r, part))
<1>1. w.proc[i].pc # "off"
  BY DEF Busy
<1>2. CASE ~OnDisk(w, r)
  BY <1>1, <1>2, EndsKeeps DEF Download, Goes, Grows, OnDisk
<1>3. CASE OnDisk(w, r)
  <2> DEFINE x == w.hub[r] \cup {part}
             v == [w EXCEPT !.hub[r] = x]
  <2>1. x \in SUBSET Parts
    BY <1>3 DEF OnDisk, Sound, Worlds, Hubs, Snap
  <2>2. Download(w, i, r, part) = IF v.hub[r] = Parts THEN Ends(v, i) ELSE v
    BY <1>3 DEF Download
  <2> HIDE DEF x
  <2>3. Sound(v) /\ v.proc = w.proc /\ Grows(w, v)
    BY <2>1, Rehubs
  <2> HIDE DEF v
  <2>4. Sound(Ends(v, i)) /\ Ends(v, i).hub = v.hub
    BY <1>1, <2>3, EndsKeeps
  <2> QED BY <2>2, <2>3, <2>4 DEF Goes, Grows, OnDisk
<1> QED BY <1>2, <1>3

-----------------------------------------------------------------------------
(* The operations of the session *)

\* A pip without its interpreter.
Lose(p) == IF p.pc = "deps" THEN [p EXCEPT !.pc = "lost"] ELSE p

LEMMA LoseKeeps ==
    ASSUME NEW p \in Proc
    PROVE  Lose(p) \in Proc /\ Lose(p).k = p.k /\ (Busy(Lose(p)) <=> Busy(p)) /\ (Lose(p).pc = "off" <=> p.pc = "off")
<1>1. CASE p.pc = "deps"
  <2>1. Lose(p) = [p EXCEPT !.pc = "lost"]
    BY <1>1 DEF Lose
  <2>2. Lose(p) \in Proc /\ Lose(p).k = p.k /\ Lose(p).pc = "lost"
    BY <2>1 DEF Proc, Pcs
  <2> QED BY <1>1, <2>2 DEF Busy
<1>2. CASE p.pc # "deps"
  BY <1>2 DEF Lose
<1> QED BY <1>1, <1>2

\* The runtime is torn down.
LEMMA TeardownKeeps == ASSUME NEW w, Sound(w) PROVE Sound(Teardown(w)) /\ Teardown(w).hub = w.hub
<1> DEFINE v == Teardown(w)
           t == [i \in Who |-> Lose(w.proc[i])]
<1>1. w \in Worlds /\ "sync" \in Who
  BY DEF Sound, Who
<1>2. v = [w EXCEPT !.python = NoPython, !.venv = NoVenv, !.proc = t]
  BY DEF Teardown, Lose
<1>3. \A i \in Who : t[i] = Lose(w.proc[i])
  OBVIOUS
<1>4. t \in Procs
  BY ProcTyped, LoseKeeps DEF Procs
<1> HIDE DEF v, t
<1>5. /\ v.hub = w.hub /\ v.python = NoPython /\ v.venv = NoVenv /\ v.proc = t
      /\ v.flight = w.flight /\ v.loading = w.loading
      /\ v = [python |-> v.python, venv |-> v.venv, hub |-> v.hub, proc |-> v.proc, flight |-> v.flight, loading |-> v.loading]
  BY <1>1, <1>2 DEF Worlds
<1>6. NoPython \in Python /\ NoVenv \in Venv0
  BY DEF NoPython, NoVenv, Python, Venv0
<1>7. v \in Worlds
  BY <1>1, <1>4, <1>5, <1>6 DEF Worlds
<1>8. About(v)
  BY <1>3, <1>5, ProcTyped, LoseKeeps DEF Sound, About
<1>9. Flagged(v)
  BY <1>1, <1>3, <1>5, ProcTyped, LoseKeeps DEF Sound, Flagged
<1> QED BY <1>5, <1>7, <1>8, <1>9 DEF Sound, v

\* The runtime stays only where a SKU is enabled or on disk.
LEMMA PresenceKeeps ==
    ASSUME NEW w, Sound(w), NEW on, NEW skip
    PROVE  Sound(Presence(w, on, skip)) /\ Presence(w, on, skip).hub = w.hub
BY TeardownKeeps DEF Presence

\* A purge takes a snapshot only with all its SKUs.
LEMMA PurgeKeeps ==
    ASSUME NEW w, Sound(w), NEW on, NEW purge \in SUBSET Sku
    PROVE  /\ Sound(Purge(w, on, purge))
           /\ \A r \in Hub : OnDisk(w, r) /\ ~OnDisk(Purge(w, on, purge), r)
                                => \A k \in Sku : Repo(k) = r => k \in purge
<1> DEFINE staged == {r \in Hub : OnDisk(w, r) /\ ~KeepRepo(w, r, on, purge) /\ \E k \in purge : Repo(k) = r}
           h == [r \in Hub |-> IF r \in staged THEN Gone ELSE w.hub[r]]
           v == [w EXCEPT !.hub = h]
<1>1. w \in Worlds
  BY DEF Sound
<1>2. h \in Hubs
  BY <1>1 DEF Worlds, Hubs, Snap
<1>3. \A r \in Hub : h[r] = Gone /\ w.hub[r] # Gone => ~KeepRepo(w, r, on, purge) /\ OnDisk(w, r)
  OBVIOUS
<1>4. Purge(w, on, purge) = IF purge = {} THEN w ELSE Presence(v, on, purge)
  BY DEF Purge
<1> HIDE DEF h
<1>5. v \in Worlds /\ v.hub = h /\ v.proc = w.proc /\ v.flight = w.flight
  BY <1>1, <1>2 DEF Worlds
<1> HIDE DEF v
<1>6. Sound(v)
  BY <1>5 DEF Sound, About, Flagged
<1>7. Sound(Presence(v, on, purge)) /\ Presence(v, on, purge).hub = h
  BY <1>5, <1>6, PresenceKeeps
<1>8. ASSUME NEW r \in Hub, OnDisk(w, r), ~OnDisk(Purge(w, on, purge), r), NEW k \in Sku, Repo(k) = r
      PROVE  k \in purge
  <2>1. h[r] = Gone /\ w.hub[r] # Gone
    BY <1>4, <1>7, <1>8 DEF OnDisk
  <2>2. ~KeepRepo(w, r, on, purge)
    BY <1>3, <2>1
  <2> QED BY <1>8, <2>2 DEF KeepRepo
<1> QED BY <1>4, <1>7, <1>8

\* A sync starts, if there is none and something to do.
LEMMA SyncKeeps ==
    ASSUME NEW w, Sound(w), NEW on \in SUBSET Sku
    PROVE  Sound(SyncModelWeights(w, on)) /\ SyncModelWeights(w, on).hub = w.hub
<1>1. CASE Pending(w, on) = {} \/ w.flight
  BY <1>1 DEF SyncModelWeights
<1>2. CASE ~(Pending(w, on) = {} \/ w.flight)
  <2> DEFINE p == [Off EXCEPT !.pc = "head", !.todo = Pending(w, on)]
             v == [w EXCEPT !.flight = TRUE, !.proc["sync"] = p]
  <2>1. w \in Worlds /\ "sync" \in Who
    BY DEF Sound, Who
  <2>2. Pending(w, on) \subseteq Sku
    BY DEF Pending
  <2>3. p \in Proc /\ p.pc = "head" /\ ~Busy(p)
    BY <2>2, OffTyped DEF Proc, Pcs, Busy
  <2>4. SyncModelWeights(w, on) = v
    BY <1>2 DEF SyncModelWeights
  <2>a. v = [w EXCEPT !.flight = TRUE, !.proc["sync"] = p]
    OBVIOUS
  <2> HIDE DEF p, v
  <2>5. /\ v.hub = w.hub /\ v.python = w.python /\ v.venv = w.venv /\ v.flight = TRUE /\ v.loading = w.loading
        /\ v.proc = [w.proc EXCEPT !["sync"] = p]
        /\ v = [python |-> v.python, venv |-> v.venv, hub |-> v.hub, proc |-> v.proc, flight |-> v.flight, loading |-> v.loading]
    BY <2>1, <2>a DEF Worlds
  <2>6. [w.proc EXCEPT !["sync"] = p] \in Procs
    BY <2>1, <2>3 DEF Worlds, Procs
  <2>7. v \in Worlds
    BY <2>1, <2>5, <2>6 DEF Worlds
  <2>8. Sound(v)
    BY <2>1, <2>3, <2>5, <2>7, Retasks
  <2> QED BY <2>4, <2>5, <2>8
<1> QED BY <1>1, <1>2

\* A running sync is told to stop.
LEMMA CancelKeeps == ASSUME NEW w, Sound(w) PROVE Sound(CancelActive(w)) /\ CancelActive(w).hub = w.hub
<1> DEFINE c == w.proc["sync"].pc # "off"
           p == [w.proc["sync"] EXCEPT !.canceled = c]
           v == [w EXCEPT !.loading = NoSku, !.proc["sync"] = p]
<1>1. w \in Worlds /\ "sync" \in Who
  BY DEF Sound, Who
<1>2. /\ p \in Proc /\ p.pc = w.proc["sync"].pc /\ p.k = w.proc["sync"].k
  <2>1. w.proc["sync"] \in Proc /\ c \in BOOLEAN
    BY <1>1, ProcTyped
  <2> HIDE DEF c
  <2> QED BY <2>1 DEF Proc
<1>3. CancelActive(w) = v
  BY DEF CancelActive
<1>a. v = [w EXCEPT !.loading = NoSku, !.proc["sync"] = p]
  OBVIOUS
<1> HIDE DEF p, v
<1>4. /\ v.hub = w.hub /\ v.python = w.python /\ v.venv = w.venv /\ v.flight = w.flight /\ v.loading = NoSku
      /\ v.proc = [w.proc EXCEPT !["sync"] = p]
      /\ v = [python |-> v.python, venv |-> v.venv, hub |-> v.hub, proc |-> v.proc, flight |-> v.flight, loading |-> v.loading]
  BY <1>1, <1>a DEF Worlds
<1>5. [w.proc EXCEPT !["sync"] = p] \in Procs
  BY <1>1, <1>2 DEF Worlds, Procs
<1>6. v \in Worlds
  BY <1>1, <1>4, <1>5 DEF Worlds, Load
<1>7. Busy(p) => p.k \in Sku
  BY <1>1, <1>2 DEF Sound, About, Busy
<1>8. v.flight <=> p.pc # "off"
  BY <1>2, <1>4 DEF Sound, Flagged
<1>9. Sound(v)
  BY <1>1, <1>2, <1>4, <1>6, <1>7, <1>8, Retasks
<1> QED BY <1>3, <1>4, <1>9
-----------------------------------------------------------------------------
(* The steps *)

\* What a step keeps that purges nothing.
Kept == Sound(World)' /\ \A r \in Hub : OnDisk(World, r) => OnDisk(World, r)'

\* The world after a step.
LEMMA BecomesIs ==
    ASSUME NEW v, Becomes(v), v \in Worlds
    PROVE  World' = v
<1>1. v = [python |-> v.python, venv |-> v.venv, hub |-> v.hub, proc |-> v.proc, flight |-> v.flight, loading |-> v.loading]
  BY SixFields
<1> HIDE DEF Worlds
<1> QED BY <1>1 DEF Becomes, World

\* A step to a world that has all snapshots.
LEMMA KeptBy ==
    ASSUME NEW v, Becomes(v), Goes(World, v)
    PROVE  Kept
<1>1. World' = v
  BY BecomesIs DEF Goes, Sound
<1>2. Sound(World') /\ \A r \in Hub : OnDisk(World, r) => OnDisk(World', r)
  BY <1>1 DEF Goes, Grows
<1> QED BY <1>2 DEF Kept, Sound, About, Flagged, OnDisk

\* The same for one that changes none.
LEMMA KeptAs ==
    ASSUME NEW v, Becomes(v), Sound(v), v.hub = hub
    PROVE  Kept
<1>1. World.hub = hub
  BY DEF World
<1> QED BY <1>1, KeptBy DEF Goes, Grows, OnDisk

\* The fields of the world.
LEMMA WorldIs ==
    /\ World.python = python /\ World.venv = venv /\ World.hub = hub
    /\ World.proc = proc /\ World.flight = flight /\ World.loading = loading
BY DEF World

\* The sync takes a SKU.
LEMMA TakeSkuKeeps == ASSUME Sound(World), TakeSku PROVE Kept
<1> DEFINE t == proc["sync"]
           k == First(t.todo)
           w == [World EXCEPT !.loading = k, !.proc["sync"].k = k]
<1>1. "sync" \in Who /\ t.pc = "head" /\ t \in Proc
  BY WorldIs, ProcTyped DEF TakeSku, Who
<1>2. World.flight
  BY <1>1, WorldIs DEF Sound, Flagged
<1>3. CASE Becomes(EndSync(World))
  BY <1>3, EndSyncKeeps, KeptAs, WorldIs
<1>4. CASE Becomes(Skip(World))
  BY <1>1, <1>4, SkipKeeps, KeptAs, WorldIs
<1>5. CASE t.todo # {} /\ Becomes(Ensure(w, "sync"))
  <2>1. k \in Sku
    BY <1>1, <1>5, FirstIn DEF Proc
  <2> DEFINE p == [World.proc["sync"] EXCEPT !.k = k]
             v == [World EXCEPT !.loading = k]
             q == [World.proc EXCEPT !["sync"] = p]
             u == [v EXCEPT !.proc = q]
  <2>2. w = u
    <3>1. v.proc = World.proc
      BY WorldIs DEF World
    <3>2. w = [World EXCEPT !.loading = k, !.proc = q]
      OBVIOUS
    <3> HIDE DEF w, k, p, q
    <3> QED BY <3>1, <3>2 DEF World
  <2> HIDE DEF k
  <2>3. Sound(v) /\ v.hub = hub /\ v.proc = World.proc /\ v.flight = World.flight
    BY <2>1, Loads, WorldIs DEF Load
  <2>4. p \in Proc /\ p.k = k /\ p.pc = "head"
    BY <1>1, <2>1, WorldIs DEF Proc
  <2> HIDE DEF p, v, w
  <2>5. v \in Worlds /\ q \in Procs
    BY <1>1, <2>3, <2>4 DEF Sound, Worlds, Procs
  <2>6. q = [v.proc EXCEPT !["sync"] = p] /\ q["sync"] = p
    BY <1>1, <2>3, <2>5 DEF Worlds, Procs
  <2> HIDE DEF q
  <2>7. u \in Worlds /\ u.proc = q /\ u.hub = v.hub /\ u.flight = v.flight
    BY <2>5 DEF Worlds
  <2> HIDE DEF u
  <2>a. p.k \in Sku /\ (u.flight <=> p.pc # "off") /\ u.proc = [v.proc EXCEPT !["sync"] = p]
    BY <1>2, <2>1, <2>3, <2>4, <2>6, <2>7
  <2>8. Sound(u)
    BY <1>1, <2>a, <2>3, <2>4, <2>7, Retasks
  <2>9. Has(u.proc["sync"])
    BY <2>1, <2>4, <2>6, <2>7 DEF Has
  <2>10. Sound(Ensure(u, "sync")) /\ Ensure(u, "sync").hub = u.hub
    BY <1>1, <2>8, <2>9, EnsureKeeps
  <2> QED BY <1>5, <2>2, <2>3, <2>7, <2>10, KeptAs
<1> QED BY <1>3, <1>4, <1>5 DEF TakeSku

\* The job begins.
LEMMA JobStartsKeeps == ASSUME Sound(World), JobStarts PROVE Kept
<1>1. "job" \in Who /\ Busy(World.proc["job"])
  BY WorldIs DEF JobStarts, Busy, Who
<1> QED BY <1>1, BusyHas, EnsureKeeps, KeptAs, WorldIs DEF JobStarts

\* A process at work ends.
LEMMA EndKept ==
    ASSUME Sound(World), NEW i \in Who, proc[i].pc # "off", Becomes(Ends(World, i))
    PROVE  Kept
BY EndsKeeps, KeptAs, WorldIs

\* What is in the world is typed.
LEMMA WorldTyped == ASSUME Sound(World) PROVE python \in Python /\ venv \in Venv0 /\ hub \in Hubs
BY WorldIs DEF Sound, Worlds

\* The archive is renamed.
LEMMA FetchedKeeps == ASSUME Sound(World), NEW i \in Who, Fetched(i) PROVE Kept
<1>1. proc[i].pc # "off" /\ Has(World.proc[i])
  BY WorldIs, BusyHas DEF Fetched, Busy
<1>2. CASE Becomes(Ends(World, i))
  BY <1>1, <1>2, EndKept
<1>3. CASE Becomes([World EXCEPT !.python.st = "archive", !.proc[i].pc = "unpack"])
  <2> DEFINE y == [python EXCEPT !.st = "archive"]
             v == [World EXCEPT !.python = y]
             u == [v EXCEPT !.proc[i].pc = "unpack"]
             q == [proc EXCEPT ![i].pc = "unpack"]
  <2>1. y \in Python
    BY WorldTyped DEF Python
  <2>2. u = [World EXCEPT !.python.st = "archive", !.proc[i].pc = "unpack"]
    <3>1. u = [v EXCEPT !.proc = [v.proc EXCEPT ![i].pc = "unpack"]] /\ v.proc = proc
      BY DEF World
    <3>2. [World EXCEPT !.python.st = "archive", !.proc[i].pc = "unpack"] = [World EXCEPT !.python = y, !.proc = q]
      BY WorldIs
    <3> HIDE DEF y, q, u
    <3> QED BY <3>1, <3>2 DEF World, q
  <2> HIDE DEF y
  <2>3. Sound(v) /\ v.hub = World.hub /\ v.proc = World.proc
    BY <2>1, Pythons
  <2> HIDE DEF v
  <2>4. "unpack" \in Pcs \ {"off"}
    BY DEF Pcs
  <2>5. Sound(u) /\ u.hub = v.hub
    BY <1>1, <2>3, <2>4, Advances
  <2> HIDE DEF u
  <2> QED BY <1>3, <2>2, <2>3, <2>5, KeptAs, WorldIs
<1> QED BY <1>2, <1>3 DEF Fetched

\* The interpreter runs.
LEMMA UnpackedKeeps == ASSUME Sound(World), NEW i \in Who, Unpacked(i) PROVE Kept
<1>1. proc[i].pc # "off" /\ Has(World.proc[i])
  BY WorldIs, BusyHas DEF Unpacked, Busy
<1>2. CASE Becomes(Ends(World, i))
  BY <1>1, <1>2, EndKept
<1>3. CASE Becomes(Spawn([World EXCEPT !.python.st = "ok"], i))
  <2> DEFINE y == [python EXCEPT !.st = "ok"]
             v == [World EXCEPT !.python = y]
  <2>1. y \in Python
    BY WorldTyped DEF Python
  <2>2. v = [World EXCEPT !.python.st = "ok"]
    BY WorldIs
  <2> HIDE DEF y
  <2>3. Sound(v) /\ v.hub = World.hub /\ v.proc = World.proc
    BY <2>1, Pythons
  <2> HIDE DEF v
  <2>4. Sound(Spawn(v, i)) /\ Spawn(v, i).hub = v.hub
    BY <1>1, <2>3, SpawnKeeps
  <2> QED BY <1>3, <2>2, <2>3, <2>4, KeptAs, WorldIs
<1> QED BY <1>2, <1>3 DEF Unpacked

\* The venv is created.
LEMMA VenvKeeps == ASSUME Sound(World), NEW i \in Who, Venv(i) PROVE Kept
<1> DEFINE d == [World EXCEPT !.venv.dir = TRUE]
           w == [World EXCEPT !.venv.dir = TRUE, !.venv.bin = TRUE]
           e == [venv EXCEPT !.dir = TRUE]
           f == [venv EXCEPT !.dir = TRUE, !.bin = TRUE]
<1>1. proc[i].pc # "off" /\ Busy(World.proc[i])
  BY WorldIs DEF Venv, Busy
<1>2. d = [World EXCEPT !.venv = e] /\ w = [World EXCEPT !.venv = f]
  BY WorldIs
<1>3. e \in Venv0 /\ f \in Venv0
  BY WorldTyped DEF Venv0
<1>4. \/ Becomes(Ends(d, i)) \/ Becomes(AfterDeps(w, i)) \/ Becomes([w EXCEPT !.proc[i].pc = "deps"])
  BY DEF Venv
<1> HIDE DEF d, w, e, f
<1>5. Sound(d) /\ d.hub = hub /\ d.proc = World.proc
  BY <1>2, <1>3, Venvs, WorldIs
<1>6. Sound(w) /\ w.hub = hub /\ w.proc = World.proc
  BY <1>2, <1>3, Venvs, WorldIs
<1>7. CASE Becomes(Ends(d, i))
  BY <1>1, <1>5, <1>7, EndsKeeps, KeptAs, WorldIs
<1>8. CASE Becomes(AfterDeps(w, i))
  <2>1. Goes(w, AfterDeps(w, i))
    BY <1>1, <1>6, AfterDepsKeeps
  <2>2. Goes(World, AfterDeps(w, i))
    BY <1>6, <2>1, WorldIs DEF Goes, Grows, OnDisk
  <2> QED BY <1>8, <2>2, KeptBy
<1>9. CASE Becomes([w EXCEPT !.proc[i].pc = "deps"])
  <2> DEFINE u == [w EXCEPT !.proc[i].pc = "deps"]
  <2>1. "deps" \in Pcs \ {"off"} /\ Has(w.proc[i])
    BY <1>1, <1>6, BusyHas DEF Pcs
  <2>2. Sound(u) /\ u.hub = w.hub
    BY <1>6, <2>1, Advances
  <2> HIDE DEF u
  <2> QED BY <1>6, <1>9, <2>2, KeptAs DEF u
<1> QED BY <1>4, <1>7, <1>8, <1>9

\* pip is done.
LEMMA DepsKeeps == ASSUME Sound(World), NEW i \in Who, Deps(i) PROVE Kept
<1>1. proc[i].pc # "off" /\ Busy(World.proc[i])
  BY WorldIs DEF Deps, Busy
<1>2. CASE Becomes(Ends(World, i))
  BY <1>1, <1>2, EndKept
<1>3. CASE Becomes(AfterDeps([World EXCEPT !.venv.marks = @ \cup {"v5"}], i))
  <2> DEFINE e == [venv EXCEPT !.marks = @ \cup {"v5"}]
             w == [World EXCEPT !.venv = e]
  <2>1. w = [World EXCEPT !.venv.marks = @ \cup {"v5"}]
    BY WorldIs
  <2>2. e \in Venv0
    BY WorldTyped DEF Venv0
  <2> HIDE DEF e
  <2>3. Sound(w) /\ w.hub = hub /\ w.proc = World.proc
    BY <2>2, Venvs, WorldIs
  <2> HIDE DEF w
  <2>4. Goes(w, AfterDeps(w, i))
    BY <1>1, <2>3, AfterDepsKeeps
  <2>5. Goes(World, AfterDeps(w, i))
    BY <2>3, <2>4, WorldIs DEF Goes, Grows, OnDisk
  <2> QED BY <1>3, <2>1, <2>5, KeptBy
<1> QED BY <1>2, <1>3 DEF Deps

\* A file of a snapshot is downloaded, or none.
LEMMA HubFileKeeps == ASSUME Sound(World), NEW i \in Who, HubFile(i) PROVE Kept
<1> DEFINE r == Repo(proc[i].k)
           v == [World EXCEPT !.hub[r] = {}]
<1>1. proc[i].pc # "off" /\ Busy(World.proc[i])
  BY WorldIs DEF HubFile, Busy
<1>2. r \in Hub
  BY <1>1, RepoIn, WorldIs DEF Sound, About
<1>3. \/ \E part \in Parts : Becomes(Download(World, i, r, part))
      \/ Becomes(Ends(World, i)) \/ Becomes(Ends(v, i))
  BY DEF HubFile
<1> HIDE DEF r
<1>4. Sound(v) /\ v.proc = World.proc /\ Grows(World, v)
  <2>1. {} \in SUBSET Parts
    OBVIOUS
  <2> QED BY <1>2, <2>1, Rehubs
<1> HIDE DEF v
<1>5. ASSUME NEW part \in Parts, Becomes(Download(World, i, r, part)) PROVE Kept
  BY <1>1, <1>2, <1>5, DownloadKeeps, KeptBy
<1>6. CASE Becomes(Ends(World, i))
  BY <1>1, <1>6, EndKept
<1>7. CASE Becomes(Ends(v, i))
  <2>1. Sound(Ends(v, i)) /\ Ends(v, i).hub = v.hub
    BY <1>1, <1>4, EndsKeeps, WorldIs
  <2>2. Goes(World, Ends(v, i))
    BY <1>4, <2>1 DEF Goes, Grows, OnDisk
  <2> QED BY <1>7, <2>2, KeptBy
<1> QED BY <1>3, <1>5, <1>6, <1>7

\* Either installer's step.
LEMMA InstallsKeeps == ASSUME Sound(World), NEW i \in Who, Installs(i) PROVE Kept
BY FetchedKeeps, UnpackedKeeps, VenvKeeps, DepsKeeps, HubFileKeeps DEF Installs

\* What the session may offer.
Offers == enabled \subseteq Sku /\ advertised \subseteq Sku /\ waiting.purge \subseteq Sku

\* A SKU is withdrawn from a world that has all snapshots.
LEMMA WithdrawKeeps ==
    ASSUME Offers, NEW w, Sound(w), w.hub = hub, NEW k \in Sku, Withdraw(w, k)
    PROVE  Kept /\ advertised' \subseteq Sku
<1> DEFINE u == [w EXCEPT !.loading = k]
           v == SyncModelWeights(u, enabled)
<1>1. Sound(u) /\ u.hub = hub
  BY Loads DEF Load
<1>2. Becomes(v) /\ advertised' = RegisterModelIds(v, enabled)
  BY DEF Withdraw
<1> HIDE DEF u
<1>3. Sound(v) /\ v.hub = hub
  BY <1>1, SyncKeeps DEF Offers
<1> HIDE DEF v
<1>4. Kept
  BY <1>2, <1>3, KeptAs
<1> QED BY <1>2, <1>4 DEF RegisterModelIds, Offers

\* A job generates, or finds a hole.
LEMMA GenerateKeeps == ASSUME Sound(World), Offers, Generate PROVE Kept /\ advertised' \subseteq Sku
<1> DEFINE k == proc["job"].k
           w == Ends(World, "job")
<1>1. "job" \in Who /\ Busy(World.proc["job"]) /\ proc["job"].pc # "off"
  BY WorldIs DEF Generate, Busy, Who
<1>2. k \in Sku
  BY <1>1, WorldIs DEF Sound, About
<1>3. Sound(w) /\ w.hub = hub
  BY <1>1, EndsKeeps, WorldIs
<1>4. (Becomes(w) /\ UNCHANGED advertised) \/ Withdraw(w, k)
  BY DEF Generate
<1> HIDE DEF k, w
<1> QED BY <1>2, <1>3, <1>4, WithdrawKeeps, KeptAs DEF Offers

\* An installation or a job breaks.
LEMMA FaultKeeps == ASSUME Sound(World), NEW i \in Who, Fault(i) PROVE Kept
<1>1. proc[i].pc # "off" /\ Becomes(Ends(World, i))
  BY DEF Fault
<1> QED BY <1>1, EndKept

LEMMA JobCanceledKeeps == ASSUME Sound(World), JobCanceled PROVE Kept
<1>1. "job" \in Who /\ proc["job"].pc # "off" /\ Becomes(Ends(World, "job"))
  BY DEF JobCanceled, Ends, Who
<1> QED BY <1>1, EndKept

LEMMA SyncCanceledKeeps == ASSUME Sound(World), SyncCanceled PROVE Kept
<1> DEFINE v == [World EXCEPT !.python = NoPython]
<1>1. "sync" \in Who /\ proc["sync"].pc # "off"
  BY DEF SyncCanceled, Who
<1>2. Becomes(Ends(World, "sync")) \/ Becomes(Ends(v, "sync"))
  BY DEF SyncCanceled
<1>3. NoPython \in Python
  BY DEF NoPython, Python
<1>4. Sound(v) /\ v.hub = hub /\ v.proc = World.proc
  BY <1>3, Pythons, WorldIs
<1> HIDE DEF v
<1>5. CASE Becomes(Ends(World, "sync"))
  BY <1>1, <1>5, EndKept
<1>6. CASE Becomes(Ends(v, "sync"))
  BY <1>1, <1>4, <1>6, EndsKeeps, KeptAs, WorldIs
<1> QED BY <1>2, <1>5, <1>6

\* A job is admitted, or its SKU withdrawn.
LEMMA InvokeKeeps ==
    ASSUME Sound(World), Offers, NEW k \in Sku, Invoke(k)
    PROVE  Kept /\ advertised' \subseteq Sku
<1> DEFINE p == [Off EXCEPT !.pc = "claimed", !.k = k]
           v == [World EXCEPT !.proc["job"] = p]
<1>1. "job" \in Who /\ World \in Worlds
  BY DEF Who, Sound
<1>2. (Becomes(v) /\ UNCHANGED advertised) \/ Withdraw(World, k)
  BY DEF Invoke
<1>3. p \in Proc /\ p.k = k
  BY DEF Off, Proc, Pcs
<1>a. v = [World EXCEPT !.proc["job"] = p]
  OBVIOUS
<1> HIDE DEF p, v
<1>4. /\ v.hub = World.hub /\ v.python = World.python /\ v.venv = World.venv /\ v.flight = World.flight
      /\ v.loading = World.loading /\ v.proc = [World.proc EXCEPT !["job"] = p]
      /\ v = [python |-> v.python, venv |-> v.venv, hub |-> v.hub, proc |-> v.proc, flight |-> v.flight, loading |-> v.loading]
  BY <1>1, <1>a DEF Worlds
<1>5. [World.proc EXCEPT !["job"] = p] \in Procs
  BY <1>1, <1>3 DEF Worlds, Procs
<1>6. v \in Worlds
  BY <1>1, <1>4, <1>5 DEF Worlds
<1>7. Sound(v)
  BY <1>1, <1>3, <1>4, <1>6, Retasks
<1>8. CASE Becomes(v) /\ UNCHANGED advertised
  BY <1>4, <1>7, <1>8, KeptAs, WorldIs DEF Offers
<1>9. CASE Withdraw(World, k)
  BY <1>9, WithdrawKeeps, WorldIs
<1> QED BY <1>2, <1>8, <1>9

\* A session begins.
LEMMA ReadyKeeps == ASSUME Sound(World), Offers, Ready PROVE Kept /\ advertised' \subseteq Sku
<1> DEFINE u == Presence(World, enabled, {})
           v == SyncModelWeights(u, enabled)
<1>1. Sound(u) /\ u.hub = hub
  BY PresenceKeeps, WorldIs
<1>2. Becomes(v) /\ advertised' = RegisterModelIds(v, enabled)
  BY DEF Ready
<1> HIDE DEF u
<1>3. Sound(v) /\ v.hub = hub
  BY <1>1, SyncKeeps DEF Offers
<1> HIDE DEF v
<1> QED BY <1>2, <1>3, KeptAs DEF RegisterModelIds, Offers

\* A heartbeat.
LEMMA HeartbeatKeeps == ASSUME Sound(World), Offers, Heartbeat PROVE Kept /\ advertised' \subseteq Sku
<1> DEFINE v == SyncModelWeights(World, enabled)
<1>1. Becomes(v) /\ advertised' = RegisterModelIds(v, enabled)
  BY DEF Heartbeat
<1>2. Sound(v) /\ v.hub = hub
  BY SyncKeeps, WorldIs DEF Offers
<1> HIDE DEF v
<1> QED BY <1>1, <1>2, KeptAs DEF RegisterModelIds, Offers

\* The new policy is in force, and what it stops is canceled.
LEMMA PongKeeps ==
    ASSUME Sound(World), NEW on \in SUBSET Sku, NEW purge \in SUBSET Sku, Pong(on, purge)
    PROVE  Kept
<1> DEFINE c == CancelActive(World)
           q == Presence(World, on, {})
           d == Presence(c, on, {})
<1>1. \E v \in {World, c, q, d} : Becomes(v) \/ Becomes(CancelActive(v))
  BY DEF Pong
<1>2. Sound(World) /\ World.hub = hub /\ Sound(c) /\ c.hub = hub /\ Sound(q) /\ q.hub = hub
  BY CancelKeeps, PresenceKeeps, WorldIs
<1> HIDE DEF c, q
<1>3. Sound(d) /\ d.hub = hub
  BY <1>2, PresenceKeeps
<1> HIDE DEF d
<1>4. PICK v \in {World, c, q, d} : Becomes(v) \/ Becomes(CancelActive(v))
  BY <1>1
<1>5. Sound(v) /\ v.hub = hub
  BY <1>2, <1>3
<1>6. Sound(CancelActive(v)) /\ CancelActive(v).hub = hub
  BY <1>5, CancelKeeps
<1> QED BY <1>4, <1>5, <1>6, KeptAs

\* The agent dies, and leaves a worker at most.
LEMMA CrashKeeps == ASSUME Sound(World), Crash PROVE Kept
<1>1. PICK i \in Who :
         proc' = [j \in Who |-> IF j = "stray" /\ proc[i].pc \in {"venv", "deps", "hub"}
                                   THEN [proc[i] EXCEPT !.todo = {}, !.canceled = FALSE] ELSE Off]
  BY DEF Crash
<1> DEFINE p == [proc[i] EXCEPT !.todo = {}, !.canceled = FALSE]
<1>2. proc[i] \in Proc /\ World \in Worlds
  BY ProcTyped, WorldIs DEF Sound
<1>3. p \in Proc /\ p.pc = proc[i].pc /\ p.k = proc[i].k
  BY <1>2 DEF Proc
<1>4. proc' = [j \in Who |-> IF j = "stray" /\ proc[i].pc \in {"venv", "deps", "hub"} THEN p ELSE Off]
  BY <1>1
<1> HIDE DEF p
<1>5. \A j \in Who : proc'[j] = Off \/ (proc'[j] = p /\ proc[i].pc \in {"venv", "deps", "hub"} /\ j = "stray")
  BY <1>4
<1>6. proc' \in Procs
  BY <1>3, <1>4, OffTyped DEF Procs
<1>7. python' \in Python /\ venv' \in Venv0 /\ hub' \in Hubs /\ flight' \in BOOLEAN /\ loading' \in Load
  BY <1>2, WorldTyped, WorldIs DEF Crash, Worlds
<1>8. World' \in Worlds
  BY <1>6, <1>7, MadeOf DEF World
<1>9. proc[i].pc \in {"venv", "deps", "hub"} => proc[i].k \in Sku
  BY WorldIs DEF Sound, About, Busy
<1>10. World'.proc = proc' /\ World'.flight = FALSE /\ World'.hub = hub
  BY DEF World, Crash
<1>11. About(World')
  BY <1>3, <1>5, <1>9, <1>10, OffTyped DEF About
<1>12. Flagged(World')
  BY <1>5, <1>10, OffTyped DEF Flagged, Who
<1>13. Sound(World')
  BY <1>8, <1>11, <1>12 DEF Sound
<1>14. \A r \in Hub : OnDisk(World, r) => OnDisk(World', r)
  BY <1>10, WorldIs DEF OnDisk
<1> QED BY <1>13, <1>14 DEF Kept, Sound, About, Flagged, OnDisk

\* The worker it left ends.
LEMMA StrayEndsKeeps == ASSUME Sound(World), StrayEnds PROVE Kept
<1> DEFINE t == proc["stray"]
           w == [World EXCEPT !.proc["stray"] = Off]
           e == [venv EXCEPT !.dir = TRUE, !.bin = TRUE]
           f == [venv EXCEPT !.marks = @ \cup {"v5"}]
           r == Repo(t.k)
<1>1. "stray" \in Who /\ t.pc # "off"
  BY DEF StrayEnds, Who
<1>2. Ends(World, "stray") = w
  BY DEF Ends
<1>3. Sound(w) /\ w.hub = hub
  BY <1>1, <1>2, EndsKeeps, WorldIs
<1>4. w.venv = venv
  BY DEF World
<1>5. \/ Becomes(w)
      \/ Becomes([w EXCEPT !.venv.dir = TRUE, !.venv.bin = TRUE])
      \/ Becomes([w EXCEPT !.venv.marks = @ \cup {"v5"}])
      \/ t.pc = "hub" /\ Becomes([w EXCEPT !.hub[r] = Parts])
  BY DEF StrayEnds
<1>6. [w EXCEPT !.venv.dir = TRUE, !.venv.bin = TRUE] = [w EXCEPT !.venv = e]
  BY <1>4
<1>7. [w EXCEPT !.venv.marks = @ \cup {"v5"}] = [w EXCEPT !.venv = f]
  BY <1>4
<1>8. e \in Venv0 /\ f \in Venv0
  BY WorldTyped DEF Venv0
<1> HIDE DEF w, e, f
<1>9. CASE Becomes(w)
  BY <1>3, <1>9, KeptAs
<1>10. CASE Becomes([w EXCEPT !.venv = e])
  BY <1>3, <1>8, <1>10, Venvs, KeptAs
<1>11. CASE Becomes([w EXCEPT !.venv = f])
  BY <1>3, <1>8, <1>11, Venvs, KeptAs
<1>12. CASE t.pc = "hub" /\ Becomes([w EXCEPT !.hub[r] = Parts])
  <2>1. t.k \in Sku
    BY <1>1, <1>12, WorldIs DEF Sound, About, Busy
  <2>2. r \in Hub /\ Parts \in SUBSET Parts
    BY <2>1, RepoIn
  <2> DEFINE v == [w EXCEPT !.hub[r] = Parts]
  <2> HIDE DEF r
  <2>3. Sound(v) /\ Grows(w, v)
    BY <1>3, <2>2, Rehubs
  <2> HIDE DEF v
  <2>4. Goes(World, v)
    BY <1>3, <2>3, WorldIs DEF Goes, Grows, OnDisk
  <2> QED BY <1>12, <2>4, KeptBy DEF v
<1> QED BY <1>5, <1>6, <1>7, <1>9, <1>10, <1>11, <1>12

\* Purges are applied: the one step that takes snapshots.
LEMMA PongApplyKeeps ==
    ASSUME Sound(World), Offers, PongApply
    PROVE  /\ Sound(World)' /\ advertised' \subseteq Sku
           /\ \A r \in Hub : OnDisk(World, r) /\ ~OnDisk(World, r)' =>
                 \A k \in Sku : Repo(k) = r => k \in waiting.purge
<1> DEFINE p == Purge(World, enabled, waiting.purge)
           q == Presence(p, enabled, {})
           w == SyncModelWeights(q, enabled)
<1>1. Becomes(w) /\ advertised' = RegisterModelIds(w, enabled)
  BY DEF PongApply
<1>2. Sound(p) /\ \A r \in Hub : OnDisk(World, r) /\ ~OnDisk(p, r)
                                    => \A k \in Sku : Repo(k) = r => k \in waiting.purge
  BY PurgeKeeps DEF Offers
<1> HIDE DEF p
<1>3. Sound(q) /\ q.hub = p.hub
  BY <1>2, PresenceKeeps
<1> HIDE DEF q
<1>4. Sound(w) /\ w.hub = p.hub
  BY <1>3, SyncKeeps DEF Offers
<1> HIDE DEF w
<1>5. World' = w
  BY <1>1, <1>4, BecomesIs DEF Sound
<1>6. Sound(World')
  BY <1>4, <1>5
<1>7. \A r \in Hub : OnDisk(World, r) /\ ~OnDisk(World', r) => \A k \in Sku : Repo(k) = r => k \in waiting.purge
  BY <1>2, <1>4, <1>5 DEF OnDisk
<1>8. advertised' \subseteq Sku
  BY <1>1 DEF RegisterModelIds, Offers
<1> QED BY <1>6, <1>7, <1>8 DEF Sound, About, Flagged, OnDisk

-----------------------------------------------------------------------------
(* The invariant and what follows *)

Inv == Sound(World) /\ Offers

\* A step keeps the invariant, and takes no snapshot but a purged one.
Takes == \A r \in Hub : OnDisk(World, r) /\ ~OnDisk(World, r)' =>
             \A k \in Sku : Repo(k) = r => k \in waiting.purge

LEMMA InitInv == Init => Inv
<1> SUFFICES ASSUME Init PROVE Inv
  OBVIOUS
<1>1. python \in Python /\ venv \in Venv0
  <2>1. NoPython \in Python /\ [st |-> "ok", by |-> "none"] \in Python
    BY DEF NoPython, Python
  <2>2. NoVenv \in Venv0 /\ [dir |-> TRUE, bin |-> TRUE, marks |-> LeftBy] \in Venv0
    BY MarkersAssumption DEF NoVenv, Venv0
  <2> QED BY <2>1, <2>2 DEF Init
<1>2. hub \in Hubs /\ proc \in Procs /\ flight \in BOOLEAN /\ loading \in Load
  BY OffTyped DEF Init, Hubs, Snap, Procs, Load
<1>3. World \in Worlds
  BY <1>1, <1>2, MadeOf DEF World
<1>4. \A i \in Who : proc[i] = Off
  BY DEF Init
<1>5. About(World) /\ Flagged(World)
  BY <1>4, WorldIs, OffTyped DEF About, Flagged, Who, Init
<1>6. Offers
  BY DEF Init, Offers, NoWait
<1> QED BY <1>3, <1>5, <1>6 DEF Inv, Sound

LEMMA NextKeeps == Inv /\ [Next]_vars => Inv' /\ Takes
<1> SUFFICES ASSUME Inv, [Next]_vars PROVE Inv' /\ Takes
  OBVIOUS
<1>0. Sound(World) /\ Offers
  BY DEF Inv
<1>a. ASSUME Kept, UNCHANGED <<enabled, waiting>>, advertised' \subseteq Sku PROVE Inv' /\ Takes
  <2>1. Offers'
    BY <1>0, <1>a DEF Offers
  <2> QED BY <1>a, <2>1 DEF Kept, Inv, Takes
<1>b. ASSUME Kept, UNCHANGED Rest PROVE Inv' /\ Takes
  <2>1. UNCHANGED <<enabled, waiting, advertised>>
    BY <1>b DEF Rest
  <2> QED BY <1>0, <1>a, <1>b, <2>1 DEF Offers
<1>1. CASE SyncStep
  <2>1. "sync" \in Who
    BY DEF Who
  <2> QED BY <1>0, <1>1, <1>b, <2>1, TakeSkuKeeps, InstallsKeeps, SyncCanceledKeeps DEF SyncStep
<1>2. CASE JobStep
  <2>1. "job" \in Who
    BY DEF Who
  <2> QED BY <1>0, <1>2, <1>a, <1>b, <2>1, JobStartsKeeps, InstallsKeeps, GenerateKeeps DEF JobStep
<1>3. CASE Strays
  BY <1>0, <1>3, <1>b, StrayEndsKeeps DEF Strays
<1>4. CASE Breaks
  <2>1. "sync" \in Who /\ "job" \in Who
    BY DEF Who
  <2> QED BY <1>0, <1>4, <1>b, <2>1, FaultKeeps, JobCanceledKeeps DEF Breaks
<1>5. CASE Ready
  BY <1>0, <1>5, <1>a, ReadyKeeps DEF Ready
<1>6. CASE Crash
  <2>1. Kept
    BY <1>0, <1>6, CrashKeeps
  <2>2. Offers'
    BY <1>0, <1>6 DEF Crash, Offers, NoWait
  <2> QED BY <2>1, <2>2 DEF Kept, Inv, Takes
<1>7. CASE Heartbeat
  BY <1>0, <1>7, <1>a, HeartbeatKeeps DEF Heartbeat
<1>8. CASE PongApply
  <2>1. Sound(World)' /\ Takes /\ advertised' \subseteq Sku
    BY <1>0, <1>8, PongApplyKeeps DEF Takes
  <2>2. Offers'
    BY <1>0, <1>8, <2>1 DEF PongApply, Offers, NoWait
  <2> QED BY <2>1, <2>2 DEF Inv
<1>9. ASSUME NEW k \in Sku, Invoke(k) PROVE Inv' /\ Takes
  BY <1>0, <1>9, <1>a, InvokeKeeps DEF Invoke
<1>10. ASSUME NEW on \in SUBSET Sku, NEW purge \in SUBSET Sku, Pong(on, purge) PROVE Inv' /\ Takes
  <2>1. Kept
    BY <1>0, <1>10, PongKeeps
  <2>2. Offers'
    BY <1>0, <1>10 DEF Pong, Offers
  <2> QED BY <2>1, <2>2 DEF Kept, Inv, Takes
<1>11. CASE UNCHANGED vars
  <2>1. World' = World /\ Offers'
    BY <1>0, <1>11 DEF vars, World, Offers
  <2>2. Sound(World') /\ \A r \in Hub : OnDisk(World, r) => OnDisk(World', r)
    BY <1>0, <2>1
  <2> QED BY <2>1, <2>2 DEF Inv, Takes, Sound, About, Flagged, OnDisk
<1> QED BY <1>1, <1>2, <1>3, <1>4, <1>5, <1>6, <1>7, <1>8, <1>9, <1>10, <1>11 DEF Next

LEMMA Invariance == Spec => []Inv
<1> QED BY InitInv, NextKeeps, PTL DEF Spec

\* The image runtime stays well typed, and the sync of its catalog holds
\* sync_in_flight exactly while it runs (image/mod.rs, agent.rs): canceled,
\* failed or raced by a job, it neither overlaps the next one nor keeps it
\* from starting.
THEOREM TypeCorrect == Spec => []TypeOK
<1>1. Inv => TypeOK
  <2> SUFFICES ASSUME Inv PROVE TypeOK
    OBVIOUS
  <2>1. python \in Python /\ venv \in Venv0 /\ hub \in Hubs
    BY WorldTyped DEF Inv
  <2>2. \A i \in Who : proc[i].pc \in Pcs
    BY ProcTyped, WorldIs DEF Inv, Proc
  <2>3. flight <=> proc["sync"].pc # "off"
    BY WorldIs DEF Inv, Sound, Flagged
  <2>4. loading \in Sku \cup {NoSku}
    BY WorldIs DEF Inv, Sound, Worlds, Load
  <2> QED BY <2>1, <2>2, <2>3, <2>4 DEF Inv, Offers, TypeOK, Python, Venv0, Hubs, Snap, Pcs
<1> QED BY <1>1, Invariance, PTL

\* A snapshot goes only when every SKU that shares its repo is to be purged
\* (keep_image_repo, apply_purge_models): neither a policy change, a canceled
\* or failed installation nor a purge of one of several SKUs takes it away.
THEOREM SnapshotsStay == Spec => SnapshotStays
<1>1. Inv /\ [Next]_vars => [Takes]_vars
  BY NextKeeps
<1> QED BY <1>1, Invariance, PTL DEF Spec, SnapshotStays, Takes
=============================================================================
