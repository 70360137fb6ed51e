-------------------------- MODULE ModelFilesProofs --------------------------
(***************************************************************************)
(* A file of ModelFiles that counts as complete is the server's, for any   *)
(* catalog, any number of sessions and blocks and any trouble.  What a     *)
(* crash, a purge or a cut stream leaves on disk is not always a beginning *)
(* of that file: a resumed download may write its tail into an empty one.  *)
(* Such a file has lost its header, which is what saves it from being      *)
(* taken for whole.  And weights that are ready stay so, if a model has at *)
(* most two files.                                                         *)
(***************************************************************************)
EXTENDS ModelFiles, TLAPS, WellFoundedInduction

-----------------------------------------------------------------------------
(* The invariant *)

Files(m) == ToSet(FilesOf(m))

\* What is on disk of one model.
DirOf(m) ==
    [here : BOOLEAN, part : [Files(m) -> Seq(Int)], file : [Files(m) -> Seq(Int)],
     manifest : SUBSET Files(m), corrupt : BOOLEAN]

SyncState ==
    [pc : {"off", "head", "ask", "answer", "stream"}, todo : SUBSET Model,
     m : Model \cup {NoModel}, src : {"mirror", "hf"}, k : Nat, attempt : Nat,
     asked : Nat, at : {"none", "part", "file", "lost"}, append : BOOLEAN,
     next : Nat, canceled : BOOLEAN]

\* A directory that is gone is empty.
Empty(d, m) ==
    /\ d.manifest = {} /\ ~d.corrupt
    /\ \A f \in Files(m) : d.part[f] = Absent /\ d.file[f] = Absent
DirTyped(w, m) == w.dir[m] \in DirOf(m) /\ (~w.dir[m].here => Empty(w.dir[m], m))

\* A sync that works is at a file of its model, only one that streams has a
\* handle, and a handle that is not lost is in a directory that is there.
TaskTyped(w, s) ==
    LET t == w.task[s]
    IN  /\ t \in SyncState
        /\ Working(t) => t.m \in Model /\ t.k \in 1..Len(FilesOf(t.m))
        /\ t.at # "none" => t.pc = "stream"
        /\ t.at \in {"part", "file"} => w.dir[t.m].here
        /\ t.pc # "off" => w.flight[s]

Dirs == UNION {DirOf(m) : m \in Model}
Worlds ==
    [dir : [Model -> Dirs], task : [Session -> SyncState],
     flight : [Session -> BOOLEAN], loading : Model \cup {NoModel}]
WorldTyped(w) ==
    /\ w \in Worlds
    /\ \A m \in Model : DirTyped(w, m)
    /\ \A s \in Session : TaskTyped(w, s)

\* A sync belongs to a session there has been.
Started(s) == task[s].pc # "off" => s <= sess

Typed ==
    /\ WorldTyped(World) /\ \A s \in Session : Started(s)
    /\ sess \in 0..MaxSessions /\ (link => sess # 0)
    /\ enabled \subseteq Model /\ advertised \subseteq Model /\ raced \subseteq Model
    /\ waiting.on => sess # 0

\* What begins with the server's header is a beginning of the server's file.
Headed(c) == c # <<>> /\ c[1] = 1
Sound(c) == Headed(c) => Len(c) <= Blocks /\ \A i \in 1..Len(c) : c[i] = i

\* An open handle continues what is there, unless the header is missing.
Continues(t, c) ==
    /\ t.next \in 1..Blocks
    /\ Headed(c) => Len(c) = t.next - 1
    /\ ~t.append => /\ c = <<>> => t.next = 1
                    /\ t.next = 1 => c \in {<<>>, Absent}

\* What the server has been asked for is what is missing.
Asks(t, c) == Headed(c) => Len(c) = t.asked

TaskFits(w, s) ==
    LET t == w.task[s]
        c == w.dir[t.m].part[FileNow(t)]
    IN  /\ t.pc = "answer" => Asks(t, c)
        /\ t.at = "part" => Continues(t, c)
        /\ t.at # "file"

Clean(w, m) ==
    /\ \A f \in Files(m) : Sound(w.dir[m].part[f]) /\ Sound(w.dir[m].file[f])
    /\ \A s \in Session : w.task[s].m = m => TaskFits(w, s)

Cleanly == \A m \in Model \ raced : Clean(World, m)

Inv == Typed /\ Overlap \subseteq raced /\ Cleanly

-----------------------------------------------------------------------------
(* Removals *)

\* The sync is where it was, with its handle or without.
Stays(t, u) ==
    /\ u.pc = t.pc /\ u.m = t.m /\ u.k = t.k /\ u.asked = t.asked
    /\ u.append = t.append /\ u.next = t.next
    /\ u.at \in {t.at, "lost", "none"}

\* v is w with files gone, handles lost and syncs at rest.
Less(w, v) ==
    /\ \A m \in Model : \A f \in Files(m) :
          /\ v.dir[m].part[f] \in {w.dir[m].part[f], Absent}
          /\ v.dir[m].file[f] \in {w.dir[m].file[f], Absent}
    /\ \A s \in Session :
          \/ v.task[s].pc \in {"off", "head"}
          \/ Stays(w.task[s], v.task[s])

\* No sync starts.
NoneStarts(w, v) == \A s \in Session : v.task[s].pc # "off" => w.task[s].pc # "off"

Smaller(w, v) == WorldTyped(v) /\ Less(w, v) /\ NoneStarts(w, v)

LEMMA LessTrans ==
    ASSUME NEW u, NEW v, NEW w, Smaller(u, v), Smaller(v, w)
    PROVE  Smaller(u, w)
BY DEF Smaller, Less, Stays, NoneStarts

\* The same, with every sync where it was.
Pared(w, v) == Smaller(w, v) /\ \A s \in Session : Stays(w.task[s], v.task[s])

LEMMA ParedTrans ==
    ASSUME NEW u, NEW v, NEW w, Pared(u, v), Pared(v, w)
    PROVE  Pared(u, w)
BY LessTrans DEF Pared, Stays

LEMMA LessClean ==
    ASSUME NEW w, NEW v, WorldTyped(w), WorldTyped(v), Less(w, v), NEW m \in Model, Clean(w, m)
    PROVE  Clean(v, m)
<1>1. Absent = <<-1>> /\ Len(Absent) = 1 /\ Absent # <<>> /\ Absent[1] # 1
  BY DEF Absent
<1>2. ASSUME NEW f \in Files(m)
      PROVE  Sound(v.dir[m].part[f]) /\ Sound(v.dir[m].file[f])
  <2>1. Sound(Absent)
    BY <1>1 DEF Sound, Headed
  <2> QED
    BY <1>2, <2>1 DEF Less, Clean
<1>3. ASSUME NEW s \in Session, v.task[s].m = m
      PROVE  TaskFits(v, s)
  <2>1. TaskTyped(v, s)
    BY DEF WorldTyped
  <2>2. CASE v.task[s].pc \in {"off", "head"}
    BY <2>1, <2>2 DEF TaskTyped, TaskFits
  <2>3. CASE v.task[s].pc \notin {"off", "head"}
    <3>1. /\ v.task[s].pc = w.task[s].pc /\ w.task[s].m = m
          /\ v.task[s].k = w.task[s].k /\ v.task[s].asked = w.task[s].asked
          /\ v.task[s].append = w.task[s].append /\ v.task[s].next = w.task[s].next
          /\ v.task[s].at \in {w.task[s].at, "lost", "none"}
      BY <1>3, <2>3 DEF Less, Stays
    <3>2. TaskFits(w, s)
      BY <3>1 DEF Clean
    <3>3. Working(v.task[s])
      BY <2>1, <2>3 DEF TaskTyped, SyncState, Working
    <3> DEFINE f == FileNow(v.task[s])
    <3>4. f \in Files(m) /\ f = FileNow(w.task[s])
      BY <1>3, <2>1, <3>1, <3>3, CatalogAssumption DEF TaskTyped, FileNow, Files, ToSet
    <3>5. v.dir[m].part[f] \in {w.dir[m].part[f], Absent}
      BY <3>4 DEF Less
    <3>6. Asks(w.task[s], w.dir[m].part[f]) => Asks(v.task[s], v.dir[m].part[f])
      BY <1>1, <3>1, <3>5 DEF Asks, Headed
    <3>7. Continues(w.task[s], w.dir[m].part[f]) => Continues(v.task[s], v.dir[m].part[f])
      <4>1. Continues(w.task[s], w.dir[m].part[f]) => Continues(v.task[s], w.dir[m].part[f])
        BY <3>1 DEF Continues
      <4>2. Continues(w.task[s], w.dir[m].part[f]) => Continues(v.task[s], Absent)
        BY <1>1, <3>1 DEF Continues, Headed
      <4> QED
        BY <3>5, <4>1, <4>2
    <3> QED
      BY <1>3, <3>1, <3>2, <3>4, <3>6, <3>7 DEF TaskFits
  <2> QED
    BY <2>2, <2>3
<1> QED
  BY <1>2, <1>3 DEF Clean

Rec(d, t, f, l) == [dir |-> d, task |-> t, flight |-> f, loading |-> l]

\* A record with fields replaced.
LEMMA Fields ==
    ASSUME NEW w \in Worlds, NEW d, NEW t
    PROVE  /\ w = Rec(w.dir, w.task, w.flight, w.loading)
           /\ [w EXCEPT !.task = t] = Rec(w.dir, t, w.flight, w.loading)
           /\ [w EXCEPT !.dir = d] = Rec(d, w.task, w.flight, w.loading)
           /\ [[w EXCEPT !.task = t] EXCEPT !.dir = d] = Rec(d, t, w.flight, w.loading)
<1> DEFINE D == [Model -> Dirs]
           T == [Session -> SyncState]
           F == [Session -> BOOLEAN]
           L == Model \cup {NoModel}
<1>1. w \in [dir : D, task : T, flight : F, loading : L]
  BY DEF Worlds
<1> HIDE DEF D, T, F, L
<1>2. w = Rec(w.dir, w.task, w.flight, w.loading)
  BY <1>1 DEF Rec
<1>3. [w EXCEPT !.task = t] = Rec(w.dir, t, w.flight, w.loading)
  BY <1>1 DEF Rec
<1>4. [w EXCEPT !.dir = d] = Rec(d, w.task, w.flight, w.loading)
  BY <1>1 DEF Rec
<1>5. [Rec(w.dir, t, w.flight, w.loading) EXCEPT !.dir = d] = Rec(d, t, w.flight, w.loading)
  BY DEF Rec
<1> QED
  BY <1>2, <1>3, <1>4, <1>5

\* What is to be shown of a world that is made from another.
LEMMA Built ==
    ASSUME NEW w \in Worlds, NEW v, NEW d, NEW t, v = Rec(d, t, w.flight, w.loading),
           d = [m \in Model |-> d[m]], t = [s \in Session |-> t[s]],
           \A m \in Model : DirTyped(v, m), \A s \in Session : TaskTyped(v, s)
    PROVE  WorldTyped(v)
<1>1. v.dir = d /\ v.task = t /\ v.flight = w.flight /\ v.loading = w.loading
  BY DEF Rec
<1>2. \A m \in Model : d[m] \in Dirs
  BY <1>1 DEF DirTyped, Dirs
<1>3. d \in [Model -> Dirs]
  <2> HIDE DEF Dirs
  <2> QED
    BY <1>2
<1>4. \A s \in Session : t[s] \in SyncState
  BY <1>1 DEF TaskTyped
<1>5. t \in [Session -> SyncState]
  <2> HIDE DEF SyncState
  <2> QED
    BY <1>4
<1>6. v \in Worlds
  <2> HIDE DEF Dirs, SyncState
  <2>1. w.flight \in [Session -> BOOLEAN] /\ w.loading \in Model \cup {NoModel}
    BY DEF Worlds
  <2> QED
    BY <1>3, <1>5, <2>1 DEF Worlds, Rec
<1> QED
  BY <1>6 DEF WorldTyped

Lost(t) == [t EXCEPT !.at = "lost"]

LEMMA Loses ==
    ASSUME NEW w, NEW v, NEW s \in Session, TaskTyped(w, s), v.flight = w.flight,
           \/ v.task[s] = w.task[s]
           \/ v.task[s] = Lost(w.task[s]) /\ w.task[s].at # "none",
           v.task[s].at \in {"part", "file"} => v.dir[w.task[s].m].here
    PROVE  TaskTyped(v, s) /\ Stays(w.task[s], v.task[s])
<1>1. w.task[s] \in SyncState
  BY DEF TaskTyped
<1>2. CASE v.task[s] = w.task[s]
  BY <1>1, <1>2 DEF TaskTyped, Stays
<1>3. CASE v.task[s] = Lost(w.task[s]) /\ w.task[s].at # "none"
  <2>1. /\ v.task[s] \in SyncState /\ v.task[s].at = "lost"
        /\ v.task[s].pc = w.task[s].pc /\ v.task[s].m = w.task[s].m
        /\ v.task[s].k = w.task[s].k /\ v.task[s].asked = w.task[s].asked
        /\ v.task[s].append = w.task[s].append /\ v.task[s].next = w.task[s].next
    BY <1>1, <1>3 DEF SyncState, Lost
  <2> QED
    BY <1>3, <2>1 DEF TaskTyped, Working, Stays
<1> QED
  BY <1>2, <1>3

\* v is w with the directories d and the syncs t: files go, and handles with them.
Prunes(w, v, d, t) ==
    /\ WorldTyped(w) /\ v = Rec(d, t, w.flight, w.loading)
    /\ d = [m \in Model |-> d[m]] /\ t = [s \in Session |-> t[s]]
    /\ \A m \in Model :
          /\ DirTyped(v, m)
          /\ \A f \in Files(m) : /\ d[m].part[f] \in {w.dir[m].part[f], Absent}
                                 /\ d[m].file[f] \in {w.dir[m].file[f], Absent}
    /\ \A s \in Session :
          /\ t[s] = w.task[s] \/ (t[s] = Lost(w.task[s]) /\ w.task[s].at # "none")
          /\ t[s].at \in {"part", "file"} => d[w.task[s].m].here

LEMMA Pruned ==
    ASSUME NEW w, NEW v, NEW d, NEW t, Prunes(w, v, d, t)
    PROVE  Pared(w, v)
<1>0. /\ WorldTyped(w) /\ v = Rec(d, t, w.flight, w.loading)
      /\ d = [m \in Model |-> d[m]] /\ t = [s \in Session |-> t[s]]
      /\ \A m \in Model :
            /\ DirTyped(v, m)
            /\ \A f \in Files(m) : /\ d[m].part[f] \in {w.dir[m].part[f], Absent}
                                   /\ d[m].file[f] \in {w.dir[m].file[f], Absent}
      /\ \A s \in Session :
            /\ t[s] = w.task[s] \/ (t[s] = Lost(w.task[s]) /\ w.task[s].at # "none")
            /\ t[s].at \in {"part", "file"} => d[w.task[s].m].here
  BY DEF Prunes
<1>1. v.dir = d /\ v.task = t /\ v.flight = w.flight /\ v.loading = w.loading
  BY <1>0 DEF Rec
<1>2. w \in Worlds /\ \A s \in Session : TaskTyped(w, s)
  BY <1>0 DEF WorldTyped
<1>3. ASSUME NEW s \in Session
      PROVE  TaskTyped(v, s) /\ Stays(w.task[s], v.task[s])
  <2>1. /\ TaskTyped(w, s) /\ v.flight = w.flight
        /\ v.task[s] = w.task[s] \/ (v.task[s] = Lost(w.task[s]) /\ w.task[s].at # "none")
        /\ v.task[s].at \in {"part", "file"} => v.dir[w.task[s].m].here
    BY <1>0, <1>1, <1>2, <1>3
  <2> QED
    BY <2>1, Loses
<1>4. WorldTyped(v)
  BY <1>0, <1>2, <1>3, Built
<1> QED
  BY <1>0, <1>1, <1>3, <1>4 DEF Pared, Smaller, Less, NoneStarts, Stays

LEMMA LeftTyped ==
    ASSUME NEW m \in Model, NEW c \in [Files(m) -> Seq(Int)], NEW G
    PROVE  Left(c, m, G) \in [Files(m) -> Seq(Int)]
<1>1. Absent \in Seq(Int)
  BY DEF Absent
<1> QED
  BY <1>1 DEF Left

\* What RemoveParts leaves alone.
Partless(w, v, G) ==
    /\ v.flight = w.flight /\ v.loading = w.loading
    /\ \A s \in Session : Stays(w.task[s], v.task[s])
    /\ \A m \in Model :
          /\ v.dir[m].here = w.dir[m].here /\ v.dir[m].file = w.dir[m].file
          /\ v.dir[m].manifest = w.dir[m].manifest /\ v.dir[m].corrupt = w.dir[m].corrupt
          /\ \A f \in Files(m) : v.dir[m].part[f] = IF <<m, f>> \in G THEN Absent ELSE w.dir[m].part[f]

LEMMA RemovePartsLess ==
    ASSUME NEW w, WorldTyped(w), NEW G
    PROVE  Pared(w, RemoveParts(w, G)) /\ Partless(w, RemoveParts(w, G), G)
<1> DEFINE v == RemoveParts(w, G)
           d == [m \in Model |-> [w.dir[m] EXCEPT !.part = Left(@, m, G)]]
           t == [s \in Session |->
                   IF w.task[s].at = "part" /\ <<w.task[s].m, FileNow(w.task[s])>> \in G
                   THEN Lost(w.task[s]) ELSE w.task[s]]
<1>0. /\ w \in Worlds
      /\ \A m \in Model : DirTyped(w, m)
      /\ \A s \in Session : TaskTyped(w, s)
  BY DEF WorldTyped
<1>1. v = Rec(d, t, w.flight, w.loading)
  <2>1. Follow(w, G, "part", "lost") = [w EXCEPT !.task = t]
    BY DEF Follow, Lost
  <2>2. [w EXCEPT !.task = t].dir = w.dir
    BY <1>0, Fields DEF Rec
  <2>3. v = [[w EXCEPT !.task = t] EXCEPT !.dir = d]
    BY <2>1, <2>2 DEF RemoveParts
  <2> HIDE DEF v, d, t
  <2> QED
    BY <1>0, <2>3, Fields
<1> HIDE DEF v
<1>2. ASSUME NEW m \in Model
      PROVE  /\ d[m] \in DirOf(m) /\ (~d[m].here => Empty(d[m], m))
             /\ d[m].here = w.dir[m].here /\ d[m].file = w.dir[m].file
             /\ d[m].manifest = w.dir[m].manifest /\ d[m].corrupt = w.dir[m].corrupt
             /\ \A f \in Files(m) : d[m].part[f] = IF <<m, f>> \in G THEN Absent ELSE w.dir[m].part[f]
  <2>1. w.dir[m] \in DirOf(m) /\ w.dir[m].part \in [Files(m) -> Seq(Int)]
    BY <1>0 DEF DirTyped, DirOf
  <2> DEFINE c == Left(w.dir[m].part, m, G)
  <2> HIDE DEF c
  <2>2. /\ c \in [Files(m) -> Seq(Int)]
        /\ \A f \in Files(m) : c[f] = IF <<m, f>> \in G THEN Absent ELSE w.dir[m].part[f]
    <3>1. c \in [Files(m) -> Seq(Int)]
      BY <1>2, <2>1, LeftTyped, Zenon DEF c
    <3>2. \A f \in Files(m) : c[f] = IF <<m, f>> \in G THEN Absent ELSE w.dir[m].part[f]
      BY <2>1 DEF c, Left
    <3> QED
      BY <3>1, <3>2
  <2>3. d[m] = [w.dir[m] EXCEPT !.part = c]
    BY <1>2 DEF c
  <2> HIDE DEF d
  <2>4. /\ d[m] \in DirOf(m) /\ d[m].part = c
        /\ d[m].here = w.dir[m].here /\ d[m].file = w.dir[m].file
        /\ d[m].manifest = w.dir[m].manifest /\ d[m].corrupt = w.dir[m].corrupt
    BY <2>1, <2>2, <2>3 DEF DirOf
  <2>5. Empty(w.dir[m], m) => Empty(d[m], m)
    BY <2>2, <2>4 DEF Empty
  <2> QED
    BY <1>0, <1>2, <2>2, <2>4, <2>5 DEF DirTyped
<1>3. /\ v.dir = d /\ v.task = t /\ v.flight = w.flight /\ v.loading = w.loading
      /\ d = [m \in Model |-> d[m]] /\ t = [s \in Session |-> t[s]]
  BY <1>1 DEF Rec
<1>4. ASSUME NEW s \in Session
      PROVE  /\ t[s] = w.task[s] \/ (t[s] = Lost(w.task[s]) /\ w.task[s].at # "none")
             /\ t[s].at \in {"part", "file"} => d[w.task[s].m].here
  <2>1. t[s] = w.task[s] \/ (t[s] = Lost(w.task[s]) /\ w.task[s].at # "none")
    BY <1>4
  <2>2. w.task[s] \in SyncState /\ TaskTyped(w, s)
    BY <1>0 DEF TaskTyped
  <2>3. t[s].at \in {"part", "file"} => t[s] = w.task[s]
    BY <2>1, <2>2 DEF SyncState, Lost
  <2>4. w.task[s].at \in {"part", "file"} => w.task[s].m \in Model /\ w.dir[w.task[s].m].here
    BY <2>2 DEF TaskTyped, Working
  <2> QED
    BY <1>2, <2>1, <2>3, <2>4
<1> HIDE DEF d, t
<1>5. \A m \in Model : DirTyped(v, m)
  BY <1>2, <1>3 DEF DirTyped
<1>6. Pared(w, v)
  <2>1. \A m \in Model :
          /\ DirTyped(v, m)
          /\ \A f \in Files(m) : /\ d[m].part[f] \in {w.dir[m].part[f], Absent}
                                 /\ d[m].file[f] \in {w.dir[m].file[f], Absent}
    BY <1>2, <1>5
  <2>2. Prunes(w, v, d, t)
    BY <1>1, <1>3, <1>4, <2>1 DEF Prunes
  <2> QED
    BY <2>2, Pruned
<1> QED
  BY <1>2, <1>3, <1>6 DEF Partless, Pared, v

\* What RemoveFiles leaves alone.
Fileless(w, v, G) ==
    /\ v.flight = w.flight /\ v.loading = w.loading
    /\ \A s \in Session : Stays(w.task[s], v.task[s])
    /\ \A m \in Model :
          /\ v.dir[m].here = w.dir[m].here /\ v.dir[m].part = w.dir[m].part
          /\ v.dir[m].manifest = w.dir[m].manifest /\ v.dir[m].corrupt = w.dir[m].corrupt
          /\ \A f \in Files(m) : v.dir[m].file[f] = IF <<m, f>> \in G THEN Absent ELSE w.dir[m].file[f]

LEMMA RemoveFilesLess ==
    ASSUME NEW w, WorldTyped(w), NEW G
    PROVE  Pared(w, RemoveFiles(w, G)) /\ Fileless(w, RemoveFiles(w, G), G)
<1> DEFINE v == RemoveFiles(w, G)
           d == [m \in Model |-> [w.dir[m] EXCEPT !.file = Left(@, m, G)]]
           t == [s \in Session |->
                   IF w.task[s].at = "file" /\ <<w.task[s].m, FileNow(w.task[s])>> \in G
                   THEN Lost(w.task[s]) ELSE w.task[s]]
<1>0. /\ w \in Worlds
      /\ \A m \in Model : DirTyped(w, m)
      /\ \A s \in Session : TaskTyped(w, s)
  BY DEF WorldTyped
<1>1. v = Rec(d, t, w.flight, w.loading)
  <2>1. Follow(w, G, "file", "lost") = [w EXCEPT !.task = t]
    BY DEF Follow, Lost
  <2>2. [w EXCEPT !.task = t].dir = w.dir
    BY <1>0, Fields DEF Rec
  <2>3. v = [[w EXCEPT !.task = t] EXCEPT !.dir = d]
    BY <2>1, <2>2 DEF RemoveFiles
  <2> HIDE DEF v, d, t
  <2> QED
    BY <1>0, <2>3, Fields
<1> HIDE DEF v
<1>2. ASSUME NEW m \in Model
      PROVE  /\ d[m] \in DirOf(m) /\ (~d[m].here => Empty(d[m], m))
             /\ d[m].here = w.dir[m].here /\ d[m].part = w.dir[m].part
             /\ d[m].manifest = w.dir[m].manifest /\ d[m].corrupt = w.dir[m].corrupt
             /\ \A f \in Files(m) : d[m].file[f] = IF <<m, f>> \in G THEN Absent ELSE w.dir[m].file[f]
  <2>1. w.dir[m] \in DirOf(m) /\ w.dir[m].file \in [Files(m) -> Seq(Int)]
    BY <1>0 DEF DirTyped, DirOf
  <2> DEFINE c == Left(w.dir[m].file, m, G)
  <2> HIDE DEF c
  <2>2. /\ c \in [Files(m) -> Seq(Int)]
        /\ \A f \in Files(m) : c[f] = IF <<m, f>> \in G THEN Absent ELSE w.dir[m].file[f]
    <3>1. c \in [Files(m) -> Seq(Int)]
      BY <1>2, <2>1, LeftTyped, Zenon DEF c
    <3>2. \A f \in Files(m) : c[f] = IF <<m, f>> \in G THEN Absent ELSE w.dir[m].file[f]
      BY <2>1 DEF c, Left
    <3> QED
      BY <3>1, <3>2
  <2>3. d[m] = [w.dir[m] EXCEPT !.file = c]
    BY <1>2 DEF c
  <2> HIDE DEF d
  <2>4. /\ d[m] \in DirOf(m) /\ d[m].file = c
        /\ d[m].here = w.dir[m].here /\ d[m].part = w.dir[m].part
        /\ d[m].manifest = w.dir[m].manifest /\ d[m].corrupt = w.dir[m].corrupt
    BY <2>1, <2>2, <2>3 DEF DirOf
  <2>5. Empty(w.dir[m], m) => Empty(d[m], m)
    BY <2>2, <2>4 DEF Empty
  <2> QED
    BY <1>0, <1>2, <2>2, <2>4, <2>5 DEF DirTyped
<1>3. /\ v.dir = d /\ v.task = t /\ v.flight = w.flight /\ v.loading = w.loading
      /\ d = [m \in Model |-> d[m]] /\ t = [s \in Session |-> t[s]]
  BY <1>1 DEF Rec
<1>4. ASSUME NEW s \in Session
      PROVE  /\ t[s] = w.task[s] \/ (t[s] = Lost(w.task[s]) /\ w.task[s].at # "none")
             /\ t[s].at \in {"part", "file"} => d[w.task[s].m].here
  <2>1. t[s] = w.task[s] \/ (t[s] = Lost(w.task[s]) /\ w.task[s].at # "none")
    BY <1>4
  <2>2. w.task[s] \in SyncState /\ TaskTyped(w, s)
    BY <1>0 DEF TaskTyped
  <2>3. t[s].at \in {"part", "file"} => t[s] = w.task[s]
    BY <2>1, <2>2 DEF SyncState, Lost
  <2>4. w.task[s].at \in {"part", "file"} => w.task[s].m \in Model /\ w.dir[w.task[s].m].here
    BY <2>2 DEF TaskTyped, Working
  <2> QED
    BY <1>2, <2>1, <2>3, <2>4
<1> HIDE DEF d, t
<1>5. \A m \in Model : DirTyped(v, m)
  BY <1>2, <1>3 DEF DirTyped
<1>6. Pared(w, v)
  <2>1. \A m \in Model :
          /\ DirTyped(v, m)
          /\ \A f \in Files(m) : /\ d[m].part[f] \in {w.dir[m].part[f], Absent}
                                 /\ d[m].file[f] \in {w.dir[m].file[f], Absent}
    BY <1>2, <1>5
  <2>2. Prunes(w, v, d, t)
    BY <1>1, <1>3, <1>4, <2>1 DEF Prunes
  <2> QED
    BY <2>2, Pruned
<1> QED
  BY <1>2, <1>3, <1>6 DEF Fileless, Pared, v

LEMMA SetCorruptLess ==
    ASSUME NEW w, WorldTyped(w), NEW M, NEW b \in BOOLEAN,
           b => \A m \in M : m \in Model => w.dir[m].here
    PROVE  Pared(w, SetCorrupt(w, M, b))
<1> DEFINE v == SetCorrupt(w, M, b)
           d == [m \in Model |-> IF m \in M THEN [w.dir[m] EXCEPT !.corrupt = b] ELSE w.dir[m]]
<1>0. /\ w \in Worlds
      /\ \A m \in Model : DirTyped(w, m)
      /\ \A s \in Session : TaskTyped(w, s)
  BY DEF WorldTyped
<1>1. v = Rec(d, w.task, w.flight, w.loading)
  <2>1. v = [w EXCEPT !.dir = d]
    BY DEF SetCorrupt
  <2> HIDE DEF v, d
  <2> QED
    BY <1>0, <2>1, Fields
<1> HIDE DEF v
<1>2. ASSUME NEW m \in Model
      PROVE  /\ d[m] \in DirOf(m) /\ (~d[m].here => Empty(d[m], m))
             /\ d[m].here = w.dir[m].here /\ d[m].part = w.dir[m].part /\ d[m].file = w.dir[m].file
  <2>1. w.dir[m] \in DirOf(m)
    BY <1>0 DEF DirTyped
  <2>2. d[m] = w.dir[m] \/ (m \in M /\ d[m] = [w.dir[m] EXCEPT !.corrupt = b])
    BY <1>2
  <2> HIDE DEF d
  <2>3. /\ d[m] \in DirOf(m) /\ d[m].manifest = w.dir[m].manifest
        /\ d[m].here = w.dir[m].here /\ d[m].part = w.dir[m].part /\ d[m].file = w.dir[m].file
        /\ d[m].corrupt = w.dir[m].corrupt \/ (m \in M /\ d[m].corrupt = b)
    BY <2>1, <2>2 DEF DirOf
  <2> QED
    BY <1>0, <1>2, <2>3 DEF DirTyped, Empty
<1>3. /\ v.dir = d /\ v.task = w.task /\ v.flight = w.flight /\ v.loading = w.loading
      /\ d = [m \in Model |-> d[m]]
  BY <1>1 DEF Rec
<1>4. w.task = [s \in Session |-> w.task[s]]
  <2> HIDE DEF d
  <2> QED
    BY <1>0 DEF Worlds
<1>5. ASSUME NEW s \in Session
      PROVE  /\ w.task[s] = w.task[s] \/ (w.task[s] = Lost(w.task[s]) /\ w.task[s].at # "none")
             /\ w.task[s].at \in {"part", "file"} => d[w.task[s].m].here
  <2>1. TaskTyped(w, s)
    BY <1>0
  <2>2. w.task[s].at \in {"part", "file"} => w.task[s].m \in Model /\ w.dir[w.task[s].m].here
    BY <2>1 DEF TaskTyped, Working
  <2> QED
    BY <1>2, <2>2
<1> HIDE DEF d
<1>6. \A m \in Model : DirTyped(v, m)
  BY <1>2, <1>3 DEF DirTyped
<1>7. \A m \in Model :
        /\ DirTyped(v, m)
        /\ \A f \in Files(m) : /\ d[m].part[f] \in {w.dir[m].part[f], Absent}
                               /\ d[m].file[f] \in {w.dir[m].file[f], Absent}
  BY <1>2, <1>6
<1>8. Prunes(w, v, d, w.task)
  BY <1>1, <1>3, <1>4, <1>5, <1>7 DEF Prunes
<1> QED
  BY <1>8, Pruned DEF v

LEMMA DropDirsLess ==
    ASSUME NEW w, WorldTyped(w), NEW M
    PROVE  Pared(w, DropDirs(w, M))
<1> DEFINE v == DropDirs(w, M)
           d == [m \in Model |-> IF m \in M THEN EmptyDir(m) ELSE w.dir[m]]
           t == [s \in Session |-> IF w.task[s].m \in M /\ w.task[s].at # "none"
                                   THEN Lost(w.task[s]) ELSE w.task[s]]
<1>0. /\ w \in Worlds
      /\ \A m \in Model : DirTyped(w, m)
      /\ \A s \in Session : TaskTyped(w, s)
  BY DEF WorldTyped
<1>1. v = Rec(d, t, w.flight, w.loading)
  <2>1. v = [[w EXCEPT !.task = t] EXCEPT !.dir = d]
    <3>1. v = [w EXCEPT !.dir = d, !.task = t]
      BY DEF DropDirs, Lost
    <3> DEFINE D == [Model -> Dirs]
               T == [Session -> SyncState]
               F == [Session -> BOOLEAN]
               L == Model \cup {NoModel}
    <3>2. w \in [dir : D, task : T, flight : F, loading : L]
      BY <1>0 DEF Worlds
    <3> HIDE DEF v, d, t, D, T, F, L
    <3> QED
      BY <3>1, <3>2
  <2> HIDE DEF v, d, t
  <2> QED
    BY <1>0, <2>1, Fields
<1> HIDE DEF v
<1>2. ASSUME NEW m \in Model
      PROVE  /\ d[m] \in DirOf(m) /\ (~d[m].here => Empty(d[m], m))
             /\ m \notin M => d[m] = w.dir[m]
             /\ \A f \in Files(m) : /\ d[m].part[f] \in {w.dir[m].part[f], Absent}
                                    /\ d[m].file[f] \in {w.dir[m].file[f], Absent}
  <2>1. EmptyDir(m) \in DirOf(m) /\ Empty(EmptyDir(m), m)
    BY DEF EmptyDir, DirOf, Empty, Absent, Files
  <2>2. d[m] = EmptyDir(m) \/ d[m] = w.dir[m]
    BY <1>2
  <2>3. m \notin M => d[m] = w.dir[m]
    BY <1>2
  <2> HIDE DEF d
  <2> QED
    BY <1>0, <1>2, <2>1, <2>2, <2>3 DEF DirTyped, Empty
<1>3. /\ v.dir = d /\ v.task = t /\ v.flight = w.flight /\ v.loading = w.loading
      /\ d = [m \in Model |-> d[m]] /\ t = [s \in Session |-> t[s]]
  BY <1>1 DEF Rec
<1>4. ASSUME NEW s \in Session
      PROVE  /\ t[s] = w.task[s] \/ (t[s] = Lost(w.task[s]) /\ w.task[s].at # "none")
             /\ t[s].at \in {"part", "file"} => d[w.task[s].m].here
  <2>1. \/ t[s] = w.task[s] /\ (w.task[s].m \notin M \/ w.task[s].at = "none")
        \/ t[s] = Lost(w.task[s]) /\ w.task[s].at # "none"
    BY <1>4
  <2>2. w.task[s] \in SyncState /\ TaskTyped(w, s)
    BY <1>0 DEF TaskTyped
  <2>3. t[s].at \in {"part", "file"} => t[s] = w.task[s] /\ w.task[s].m \notin M
    BY <2>1, <2>2 DEF SyncState, Lost
  <2>4. w.task[s].at \in {"part", "file"} => w.task[s].m \in Model /\ w.dir[w.task[s].m].here
    BY <2>2 DEF TaskTyped, Working
  <2> QED
    BY <1>2, <2>1, <2>3, <2>4
<1> HIDE DEF d, t
<1>5. \A m \in Model : DirTyped(v, m)
  BY <1>2, <1>3 DEF DirTyped
<1>6. \A m \in Model :
        /\ DirTyped(v, m)
        /\ \A f \in Files(m) : /\ d[m].part[f] \in {w.dir[m].part[f], Absent}
                               /\ d[m].file[f] \in {w.dir[m].file[f], Absent}
  BY <1>2, <1>5
<1>7. Prunes(w, v, d, t)
  BY <1>1, <1>3, <1>4, <1>6 DEF Prunes
<1> QED
  BY <1>7, Pruned DEF v

LEMMA PurgeLess ==
    ASSUME NEW w, WorldTyped(w), NEW M
    PROVE  Pared(w, PurgeIncomplete(w, M)) /\ Pared(w, PurgeFailed(w, M))
<1> DEFINE scraps == {p \in Paths(M) : ~ManifestFile(w, p[1], p[2])}
           x == RemoveParts(w, Paths(M))
           y == RemoveFiles(x, scraps)
           z == PurgeIncomplete(w, M)
           gone == {m \in M : ~WeightsReady(z, m)}
<1> HIDE DEF scraps, gone
<1>1. Pared(w, x)
  BY RemovePartsLess
<1>2. Pared(x, y)
  BY <1>1, RemoveFilesLess DEF Pared, Smaller
<1>3. Pared(y, SetCorrupt(y, M, FALSE))
  BY <1>2, SetCorruptLess DEF Pared, Smaller
<1>4. z = SetCorrupt(y, M, FALSE)
  BY DEF PurgeIncomplete, scraps
<1> HIDE DEF x, y, z
<1>5. Pared(w, z)
  BY <1>1, <1>2, <1>3, <1>4, ParedTrans
<1>6. Pared(z, DropDirs(z, gone))
  BY <1>5, DropDirsLess DEF Pared, Smaller
<1>7. PurgeFailed(w, M) = DropDirs(z, gone)
  BY DEF PurgeFailed, z, gone
<1> QED
  BY <1>5, <1>6, <1>7, ParedTrans DEF z

-----------------------------------------------------------------------------
(* One sync, one directory *)

\* v is w with the sync s in the state u, the flags fl and the note l.
Retasks(w, v, s, u, fl, l) ==
    /\ WorldTyped(w) /\ u \in SyncState
    /\ fl \in [Session -> BOOLEAN] /\ l \in Model \cup {NoModel}
    /\ v = Rec(w.dir, [w.task EXCEPT ![s] = u], fl, l)
    /\ \A z \in Session : z # s => fl[z] = w.flight[z]
    /\ Working(u) => u.m \in Model /\ u.k \in 1..Len(FilesOf(u.m))
    /\ u.at # "none" => u.pc = "stream"
    /\ u.at \in {"part", "file"} => w.dir[u.m].here
    /\ u.pc # "off" => fl[s]

Retasked(w, v, s, u, fl, l) ==
    /\ WorldTyped(v)
    /\ v.dir = w.dir /\ v.task[s] = u /\ v.flight = fl /\ v.loading = l
    /\ \A z \in Session : z # s => v.task[z] = w.task[z]

LEMMA Retask ==
    ASSUME NEW w, NEW s \in Session, NEW u, NEW fl, NEW l, NEW v, Retasks(w, v, s, u, fl, l)
    PROVE  Retasked(w, v, s, u, fl, l)
<1> DEFINE t == [w.task EXCEPT ![s] = u]
<1> USE DEF Retasks
<1>0. /\ w.dir \in [Model -> Dirs] /\ w.task \in [Session -> SyncState]
      /\ \A m \in Model : DirTyped(w, m)
      /\ \A z \in Session : TaskTyped(w, z)
  BY DEF WorldTyped, Worlds
<1>1. /\ t \in [Session -> SyncState] /\ t[s] = u
      /\ \A z \in Session : z # s => t[z] = w.task[z]
  <2> HIDE DEF SyncState
  <2> QED
    BY <1>0
<1> HIDE DEF t
<1>2. v = Rec(w.dir, t, fl, l)
  BY DEF t
<1>3. v.dir = w.dir /\ v.task = t /\ v.flight = fl /\ v.loading = l
  BY <1>2 DEF Rec
<1>4. v \in Worlds
  <2> HIDE DEF Dirs, SyncState
  <2> QED
    BY <1>0, <1>1, <1>2 DEF Worlds, Rec
<1>5. \A m \in Model : DirTyped(v, m)
  BY <1>0, <1>3 DEF DirTyped
<1>6. ASSUME NEW z \in Session
      PROVE  TaskTyped(v, z)
  <2>1. CASE z = s
    BY <1>1, <1>3, <2>1 DEF TaskTyped
  <2>2. CASE z # s
    <3>1. v.task[z] = w.task[z] /\ v.flight[z] = w.flight[z] /\ v.dir = w.dir
      BY <1>1, <1>3, <1>6, <2>2
    <3> QED
      BY <1>0, <1>6, <3>1 DEF TaskTyped
  <2> QED
    BY <2>1, <2>2
<1> QED
  BY <1>1, <1>3, <1>4, <1>5, <1>6 DEF WorldTyped, Retasked

\* v is w with the directory x of model m.
Refiles(w, v, m, x) ==
    /\ WorldTyped(w) /\ x \in DirOf(m)
    /\ v = Rec([w.dir EXCEPT ![m] = x], w.task, w.flight, w.loading)
    /\ x.here \/ (~w.dir[m].here /\ Empty(x, m))

Refiled(w, v, m, x) ==
    /\ WorldTyped(v)
    /\ v.task = w.task /\ v.flight = w.flight /\ v.loading = w.loading /\ v.dir[m] = x
    /\ \A n \in Model : n # m => v.dir[n] = w.dir[n]

LEMMA Refile ==
    ASSUME NEW w, NEW m \in Model, NEW x, NEW v, Refiles(w, v, m, x)
    PROVE  Refiled(w, v, m, x)
<1> DEFINE d == [w.dir EXCEPT ![m] = x]
<1> USE DEF Refiles
<1>0. /\ w.dir \in [Model -> Dirs] /\ w \in Worlds
      /\ \A n \in Model : DirTyped(w, n)
      /\ \A s \in Session : TaskTyped(w, s)
  BY DEF WorldTyped, Worlds
<1>1. /\ d = [n \in Model |-> d[n]] /\ d[m] = x
      /\ \A n \in Model : n # m => d[n] = w.dir[n]
  <2> HIDE DEF Dirs, DirOf
  <2> QED
    BY <1>0
<1> HIDE DEF d
<1>2. v = Rec(d, w.task, w.flight, w.loading)
  BY DEF d
<1>3. v.dir = d /\ v.task = w.task /\ v.flight = w.flight /\ v.loading = w.loading
  BY <1>2 DEF Rec
<1>4. \A n \in Model : DirTyped(v, n)
  BY <1>0, <1>1, <1>3 DEF DirTyped
<1>5. ASSUME NEW s \in Session
      PROVE  TaskTyped(v, s)
  <2>1. TaskTyped(w, s)
    BY <1>0, <1>5
  <2>2. w.task[s].at \in {"part", "file"} => v.dir[w.task[s].m].here
    BY <1>1, <1>3, <2>1 DEF TaskTyped, Working
  <2> QED
    BY <1>3, <2>1, <2>2 DEF TaskTyped
<1>6. w.task = [s \in Session |-> w.task[s]]
  <2> HIDE DEF SyncState
  <2> QED
    BY <1>0 DEF Worlds
<1>7. WorldTyped(v)
  BY <1>0, <1>1, <1>2, <1>4, <1>5, <1>6, Built
<1> QED
  BY <1>1, <1>3, <1>7 DEF Refiled

\* To see what EXCEPT makes of a world, its fields need no structure.
Box(D, T, F, L) == [dir : D, task : T, flight : F, loading : L]

LEMMA InBox ==
    ASSUME NEW D, NEW T, NEW F, NEW L, NEW w \in Box(D, T, F, L)
    PROVE  w = Rec(w.dir, w.task, w.flight, w.loading)
BY DEF Rec, Box

LEMMA Boxed == ASSUME NEW w \in Worlds PROVE \E D, T, F, L : w \in Box(D, T, F, L)
<1> DEFINE D == [Model -> Dirs]
           T == [Session -> SyncState]
           F == [Session -> BOOLEAN]
           L == Model \cup {NoModel}
<1>1. w \in Box(D, T, F, L)
  BY DEF Worlds, Box
<1> HIDE DEF D, T, F, L
<1> QED
  BY <1>1

LEMMA OffTyped == Off \in SyncState /\ Off.pc = "off" /\ Off.at = "none"
BY DEF Off, SyncState

\* A sync that comes to rest.
LEMMA Rests ==
    ASSUME NEW w, NEW s \in Session, NEW u, NEW fl, NEW l, NEW v, Retasks(w, v, s, u, fl, l),
           u.pc \in {"off", "head"}
    PROVE  WorldTyped(v) /\ Less(w, v) /\ (u.pc = "off" \/ w.task[s].pc # "off" => NoneStarts(w, v))
<1>1. Retasked(w, v, s, u, fl, l)
  BY Retask
<1> QED
  BY <1>1 DEF Retasked, Less, Stays, NoneStarts

LEMMA EndSyncLess ==
    ASSUME NEW w, WorldTyped(w), NEW s \in Session
    PROVE  Smaller(w, EndSync(w, s))
<1> DEFINE v == EndSync(w, s)
           fl == [w.flight EXCEPT ![s] = FALSE]
<1>1. w \in Worlds /\ w.flight \in [Session -> BOOLEAN]
  BY DEF WorldTyped, Worlds
<1>2. fl \in [Session -> BOOLEAN] /\ \A z \in Session : z # s => fl[z] = w.flight[z]
  BY <1>1
<1>3. v = Rec(w.dir, [w.task EXCEPT ![s] = Off], fl, NoModel)
  <2> DEFINE t == [w.task EXCEPT ![s] = Off]
  <2>1. PICK D, T, F, L : w \in Box(D, T, F, L)
    BY <1>1, Boxed
  <2>2. /\ v \in Box(D, {t}, {fl}, {NoModel})
        /\ v.dir = w.dir /\ v.task = t /\ v.flight = fl /\ v.loading = NoModel
    BY <2>1 DEF Box, EndSync
  <2> HIDE DEF v, t, fl
  <2>3. v = Rec(w.dir, t, fl, NoModel)
    BY <2>2, InBox
  <2> QED
    BY <2>3 DEF t
<1> HIDE DEF v, fl
<1>4. Retasks(w, v, s, Off, fl, NoModel)
  BY <1>1, <1>2, <1>3, OffTyped DEF Retasks, Working
<1>5. Smaller(w, v)
  BY <1>4, OffTyped, Rests DEF Smaller
<1> QED
  BY <1>5 DEF v

LEMMA NextModelLess ==
    ASSUME NEW w, WorldTyped(w), NEW s \in Session, w.task[s].pc # "off"
    PROVE  Smaller(w, NextModel(w, s))
<1> DEFINE v == NextModel(w, s)
           t == w.task[s]
           u == [Off EXCEPT !.pc = "head", !.todo = t.todo \ {First(t.todo)}, !.canceled = t.canceled]
<1>1. /\ w \in Worlds /\ w.flight \in [Session -> BOOLEAN] /\ w.loading \in Model \cup {NoModel}
      /\ t \in SyncState /\ w.flight[s]
  BY DEF WorldTyped, Worlds, TaskTyped
<1>2. u \in SyncState /\ u.pc = "head" /\ u.at = "none"
  <2> HIDE DEF t
  <2> QED
    BY <1>1 DEF Off, SyncState
<1>3. v = Rec(w.dir, [w.task EXCEPT ![s] = u], w.flight, NoModel)
  <2> DEFINE new == [w.task EXCEPT ![s] = u]
  <2> HIDE DEF u
  <2>1. PICK D, T, F, L : w \in Box(D, T, F, L)
    BY <1>1, Boxed
  <2>2. v = [w EXCEPT !.loading = NoModel, !.task[s] = u]
    BY DEF NextModel, u
  <2>3. /\ v \in Box(D, {new}, F, {NoModel})
        /\ v.dir = w.dir /\ v.task = new /\ v.flight = w.flight /\ v.loading = NoModel
    BY <2>1, <2>2 DEF Box
  <2> HIDE DEF v, new
  <2>4. v = Rec(w.dir, new, w.flight, NoModel)
    BY <2>3, InBox
  <2> QED
    BY <2>4 DEF new
<1> HIDE DEF v, u
<1>4. Retasks(w, v, s, u, w.flight, NoModel)
  BY <1>1, <1>2, <1>3 DEF Retasks, Working
<1>5. Smaller(w, v)
  BY <1>2, <1>4, Rests DEF Smaller
<1> QED
  BY <1>5 DEF v

LEMMA SkipLess ==
    ASSUME NEW w, WorldTyped(w), NEW s \in Session, w.task[s].pc = "head"
    PROVE  Smaller(w, Skip(w, s))
<1> DEFINE v == Skip(w, s)
           t == w.task[s]
           x == t.todo \ {First(t.todo)}
           u == [t EXCEPT !.todo = x]
<1>1. /\ w \in Worlds /\ w.flight \in [Session -> BOOLEAN] /\ w.loading \in Model \cup {NoModel}
      /\ w.task \in [Session -> SyncState] /\ t \in SyncState /\ w.flight[s] /\ t.pc = "head" /\ t.at = "none"
  BY DEF WorldTyped, Worlds, TaskTyped
<1>2. x \in SUBSET Model
  BY <1>1 DEF SyncState
<1>3. v = Rec(w.dir, [w.task EXCEPT ![s] = u], w.flight, w.loading)
  <2> DEFINE new == [w.task EXCEPT ![s] = u]
  <2>1. v = [w EXCEPT !.task = new]
    BY DEF Skip
  <2> HIDE DEF new, u, v
  <2>2. v = Rec(w.dir, new, w.flight, w.loading)
    BY <1>1, <2>1, Fields
  <2> QED
    BY <2>2 DEF new
<1> HIDE DEF v, x, t
<1>4. u \in SyncState /\ u.pc = "head" /\ u.at = "none"
  BY <1>1, <1>2 DEF SyncState
<1> HIDE DEF u
<1>5. Retasks(w, v, s, u, w.flight, w.loading)
  BY <1>1, <1>3, <1>4 DEF Retasks, Working
<1>6. Smaller(w, v)
  BY <1>4, <1>5, Rests DEF Smaller
<1> QED
  BY <1>6 DEF v

LEMMA EndModelLess ==
    ASSUME NEW w, WorldTyped(w), NEW s \in Session, w.task[s].pc # "off",
           NEW result \in {"ok", "retry", "failed", "nospace"}
    PROVE  Smaller(w, EndModel(w, s, result))
<1> DEFINE p == PurgeIncomplete(w, {w.task[s].m})
           q == PurgeFailed(w, {w.task[s].m})
<1>1. /\ Smaller(w, p) /\ Smaller(w, q) /\ q.task[s].pc # "off"
      /\ WorldTyped(p) /\ WorldTyped(q)
  BY PurgeLess DEF Pared, Smaller, Stays
<1> HIDE DEF p, q
<1>2. Smaller(w, EndSync(p, s)) /\ Smaller(w, EndSync(q, s))
  BY <1>1, EndSyncLess, LessTrans
<1>3. Smaller(w, NextModel(w, s))
  BY NextModelLess
<1>4. Smaller(w, NextModel(q, s))
  BY <1>1, NextModelLess, LessTrans
<1> QED
  BY <1>2, <1>3, <1>4 DEF EndModel, p, q


\* A directory whose files stay.
LEMMA Marks ==
    ASSUME NEW w, NEW m \in Model, NEW x, NEW v, Refiles(w, v, m, x),
           x.part = w.dir[m].part, x.file = w.dir[m].file
    PROVE  Pared(w, v)
<1>0. Refiled(w, v, m, x)
  BY Refile
<1>1. WorldTyped(v) /\ v.task = w.task /\ v.dir[m] = x
  BY <1>0 DEF Refiled
<1>2. \A n \in Model : n # m => v.dir[n] = w.dir[n]
  BY <1>0 DEF Refiled
<1>3. \A s \in Session : Stays(w.task[s], v.task[s])
  BY <1>1 DEF Stays
<1> QED
  BY <1>1, <1>2, <1>3 DEF Pared, Smaller, Less, NoneStarts

LEMMA CheckReadyLess ==
    ASSUME NEW w, WorldTyped(w), NEW m \in Model
    PROVE  Pared(w, CheckReady(w, m))
<1> DEFINE A == Adoptable(w, m)
           v == [w EXCEPT !.dir[m].manifest = A]
           x == [w.dir[m] EXCEPT !.manifest = A]
           d == [w.dir EXCEPT ![m] = x]
<1>1. w \in Worlds /\ DirTyped(w, m) /\ w.dir[m] \in DirOf(m)
  BY DEF WorldTyped, DirTyped
<1>2. Pared(w, w)
  BY DEF Pared, Smaller, Less, Stays, NoneStarts
<1>3. A \subseteq Files(m) /\ \A f \in A : Complete(w, m, f)
  <2>1. FilesOf(m)[1] \in Files(m)
    <3>1. FilesOf(m) \in Seq(Files(m)) /\ FilesOf(m) # <<>>
      BY CatalogAssumption DEF Files
    <3> QED
      BY <3>1
  <2> QED
    BY <2>1 DEF Adoptable, Files
<1>4. A # {} => w.dir[m].here
  BY <1>1, <1>3 DEF DirTyped, Empty, Complete, InBounds
<1>5. /\ x \in DirOf(m) /\ x.here = w.dir[m].here
      /\ x.part = w.dir[m].part /\ x.file = w.dir[m].file
  <2> HIDE DEF A
  <2> QED
    BY <1>1, <1>3 DEF DirOf
<1>6. v = Rec(d, w.task, w.flight, w.loading)
  <2> HIDE DEF A
  <2>1. PICK D, T, F, L : w \in Box(D, T, F, L)
    BY <1>1, Boxed
  <2>2. /\ v \in Box({d}, T, F, L)
        /\ v.dir = d /\ v.task = w.task /\ v.flight = w.flight /\ v.loading = w.loading
    BY <2>1 DEF Box
  <2> HIDE DEF v, d
  <2> QED
    BY <2>2, InBox
<1> HIDE DEF v, x
<1>7. A # {} => Refiles(w, v, m, x)
  BY <1>4, <1>5, <1>6 DEF Refiles
<1>8. A # {} => Pared(w, v)
  BY <1>5, <1>7, Marks
<1> QED
  BY <1>2, <1>8 DEF CheckReady, v

LEMMA InstalledLess ==
    ASSUME NEW w, WorldTyped(w), NEW m \in Model
    PROVE  Pared(w, [w EXCEPT !.dir[m].manifest = ToSet(FilesOf(m)), !.dir[m].corrupt = FALSE, !.dir[m].here = TRUE])
<1> DEFINE v == [w EXCEPT !.dir[m].manifest = ToSet(FilesOf(m)), !.dir[m].corrupt = FALSE, !.dir[m].here = TRUE]
           x == [w.dir[m] EXCEPT !.manifest = ToSet(FilesOf(m)), !.corrupt = FALSE, !.here = TRUE]
           d == [w.dir EXCEPT ![m] = x]
<1>1. w \in Worlds /\ w.dir[m] \in DirOf(m) /\ w.dir \in [Model -> Dirs]
  BY DEF WorldTyped, DirTyped, Worlds
<1>2. /\ x \in DirOf(m) /\ x.here
      /\ x.part = w.dir[m].part /\ x.file = w.dir[m].file
  BY <1>1 DEF DirOf, Files
<1>3. v = Rec(d, w.task, w.flight, w.loading)
  <2>1. PICK D, T, F, L : w \in Box(D, T, F, L)
    BY <1>1, Boxed
  <2>2. v \in Box({v.dir}, T, F, L) /\ v.task = w.task /\ v.flight = w.flight /\ v.loading = w.loading
    BY <2>1 DEF Box
  <2>3. v.dir = d
    <3> HIDE DEF Dirs
    <3> QED
      BY <1>1, <2>1 DEF Box
  <2> HIDE DEF v, d
  <2> QED
    BY <2>2, <2>3, InBox
<1> HIDE DEF v, x
<1>4. Refiles(w, v, m, x)
  BY <1>2, <1>3 DEF Refiles
<1>5. Pared(w, v)
  BY <1>2, <1>4, Marks
<1> QED
  BY <1>5 DEF v


\* A sync that stays where it is.
LEMMA Notes ==
    ASSUME NEW w, NEW s \in Session, NEW u, NEW fl, NEW l, NEW v, Retasks(w, v, s, u, fl, l),
           Stays(w.task[s], u)
    PROVE  Pared(w, v)
<1>1. Retasked(w, v, s, u, fl, l)
  BY Retask
<1>2. \A z \in Session : Stays(w.task[z], v.task[z])
  BY <1>1 DEF Retasked, Stays
<1> QED
  BY <1>1, <1>2 DEF Retasked, Pared, Smaller, Less, NoneStarts, Stays

LEMMA CancelActiveLess ==
    ASSUME NEW w, WorldTyped(w), NEW s \in Session
    PROVE  Pared(w, CancelActive(w, s))
<1> DEFINE v == CancelActive(w, s)
           b == (w.task[s].pc # "off")
           u == [w.task[s] EXCEPT !.canceled = b]
           t == [w.task EXCEPT ![s] = u]
<1>1. /\ w \in Worlds /\ w.flight \in [Session -> BOOLEAN] /\ w.task[s] \in SyncState /\ TaskTyped(w, s)
      /\ w.task \in [Session -> SyncState]
  BY DEF WorldTyped, Worlds, TaskTyped
<1>2. u \in SyncState /\ Stays(w.task[s], u) /\ u.at = w.task[s].at
  <2>1. b \in BOOLEAN
    OBVIOUS
  <2> HIDE DEF b
  <2> QED
    BY <1>1, <2>1 DEF SyncState, Stays
<1>3. v = Rec(w.dir, t, w.flight, NoModel)
  <2>1. PICK D, T, F, L : w \in Box(D, T, F, L)
    BY <1>1, Boxed
  <2>2. v \in Box(D, {v.task}, F, {NoModel}) /\ v.dir = w.dir /\ v.flight = w.flight /\ v.loading = NoModel
    BY <2>1 DEF Box, CancelActive
  <2>3. v.task = t
    <3> HIDE DEF SyncState
    <3> QED
      BY <1>1, <2>1 DEF Box, CancelActive
  <2> HIDE DEF v, t
  <2> QED
    BY <2>2, <2>3, InBox
<1> HIDE DEF v, u
<1>4. Retasks(w, v, s, u, w.flight, NoModel)
  BY <1>1, <1>2, <1>3 DEF Retasks, Working, TaskTyped, Stays
<1>5. Pared(w, v)
  BY <1>2, <1>4, Notes
<1> QED
  BY <1>5 DEF v

LEMMA ApplyPolicyLess ==
    ASSUME NEW w, WorldTyped(w), NEW s \in Session, NEW on
    PROVE  Pared(w, ApplyPolicy(w, s, on))
<1> DEFINE v == PurgeIncomplete(w, Model \ on)
<1>1. Pared(w, v) /\ WorldTyped(v)
  BY PurgeLess DEF Pared, Smaller
<1> HIDE DEF v
<1>2. Pared(w, CancelActive(v, s))
  BY <1>1, CancelActiveLess, ParedTrans
<1> QED
  BY <1>1, <1>2 DEF ApplyPolicy, v

\* No sync but s starts.
StartsOnly(w, v, s) == \A z \in Session : z # s /\ v.task[z].pc # "off" => w.task[z].pc # "off"

LEMMA SyncModelWeightsLess ==
    ASSUME NEW w, WorldTyped(w), NEW s \in Session, NEW inv, NEW on \in SUBSET Model
    PROVE  /\ WorldTyped(SyncModelWeights(w, s, inv, on)) /\ Less(w, SyncModelWeights(w, s, inv, on))
           /\ StartsOnly(w, SyncModelWeights(w, s, inv, on), s)
<1> DEFINE P == Pending(inv, on)
           u == [Off EXCEPT !.pc = "head", !.todo = P]
           v == [w EXCEPT !.flight[s] = TRUE, !.task[s] = u]
           t == [w.task EXCEPT ![s] = u]
           fl == [w.flight EXCEPT ![s] = TRUE]
<1>1. w \in Worlds /\ w.flight \in [Session -> BOOLEAN] /\ w.loading \in Model \cup {NoModel}
  BY DEF WorldTyped, Worlds
<1>2. u \in SyncState /\ u.pc = "head" /\ u.at = "none"
  <2>1. P \in SUBSET Model
    BY DEF Pending
  <2> HIDE DEF P
  <2> QED
    BY <2>1 DEF Off, SyncState
<1> HIDE DEF u
<1>3. v = Rec(w.dir, t, fl, w.loading)
  <2>1. PICK D, T, F, L : w \in Box(D, T, F, L)
    BY <1>1, Boxed
  <2>2. /\ v \in Box(D, {t}, {fl}, L)
        /\ v.dir = w.dir /\ v.task = t /\ v.flight = fl /\ v.loading = w.loading
    BY <2>1 DEF Box
  <2> HIDE DEF v, t, fl
  <2> QED
    BY <2>2, InBox
<1>4. fl \in [Session -> BOOLEAN] /\ fl[s] /\ \A z \in Session : z # s => fl[z] = w.flight[z]
  BY <1>1
<1> HIDE DEF v, fl
<1>5. Retasks(w, v, s, u, fl, w.loading)
  BY <1>1, <1>2, <1>3, <1>4 DEF Retasks, Working
<1>6. WorldTyped(v) /\ Less(w, v)
  BY <1>2, <1>5, Rests
<1>7. StartsOnly(w, v, s)
  <2>1. Retasked(w, v, s, u, fl, w.loading)
    BY <1>5, Retask
  <2> QED
    BY <2>1 DEF Retasked, StartsOnly
<1>8. Less(w, w) /\ StartsOnly(w, w, s)
  BY DEF Less, Stays, StartsOnly
<1>9. SyncModelWeights(w, s, inv, on) = w \/ SyncModelWeights(w, s, inv, on) = v
  BY DEF SyncModelWeights, v, u
<1> HIDE DEF P
<1> QED
  BY <1>6, <1>7, <1>8, <1>9


-----------------------------------------------------------------------------
(* What a sync does between two files. *)

\* Whatever model was clean still is.
Holds(w, v) ==
    /\ WorldTyped(v) /\ NoneStarts(w, v)
    /\ \A m \in Model : Clean(w, m) => Clean(v, m)

LEMMA HoldsTrans ==
    ASSUME NEW u, NEW v, NEW w, Holds(u, v), Holds(v, w)
    PROVE  Holds(u, w)
BY DEF Holds, NoneStarts

LEMMA SmallerHolds ==
    ASSUME NEW w, NEW v, WorldTyped(w), Smaller(w, v)
    PROVE  Holds(w, v)
BY LessClean DEF Holds, Smaller

LEMMA RetaskHolds ==
    ASSUME NEW w, NEW s \in Session, NEW u, NEW fl, NEW l, NEW v, Retasks(w, v, s, u, fl, l),
           w.task[s].pc # "off", u.m \in Model => TaskFits(v, s)
    PROVE  Holds(w, v)
<1>1. Retasked(w, v, s, u, fl, l)
  BY Retask
<1>2. WorldTyped(v) /\ v.dir = w.dir /\ v.task[s] = u /\ \A z \in Session : z # s => v.task[z] = w.task[z]
  BY <1>1 DEF Retasked
<1>3. ASSUME NEW m \in Model, Clean(w, m)
      PROVE  Clean(v, m)
  <2>1. ASSUME NEW z \in Session, z # s, v.task[z].m = m
        PROVE  TaskFits(v, z)
    BY <1>2, <1>3, <2>1 DEF Clean, TaskFits
  <2> QED
    BY <1>2, <1>3, <2>1 DEF Clean
<1> QED
  BY <1>2, <1>3 DEF Holds, NoneStarts

LEMMA FileAt ==
    ASSUME NEW m \in Model, NEW k \in 1..Len(FilesOf(m))
    PROVE  FilesOf(m)[k] \in Files(m)
<1>1. FilesOf(m) \in Seq(Files(m))
  BY CatalogAssumption DEF Files
<1> QED
  BY <1>1

LEMMA MinIn == ASSUME NEW S \in SUBSET Nat, S # {} PROVE Min(S) \in S
<1>1. PICK x \in S : \A y \in S : ~(y < x)
  <2>1. IsWellFoundedOn(OpToRel(<, Nat), Nat)
    BY NatLessThanWellFounded
  <2>2. PICK x \in S : \A y \in S : <<y, x>> \notin OpToRel(<, Nat)
    BY <2>1, WFMin
  <2> QED
    BY <2>2 DEF OpToRel
<1>2. \A y \in S : x <= y
  BY <1>1
<1> QED
  BY <1>2 DEF Min

LEMMA FirstIn == ASSUME NEW todo \in SUBSET Model, todo # {} PROVE First(todo) \in todo
<1> DEFINE I == {i \in DOMAIN Catalog : Catalog[i] \in todo}
<1>1. I # {} /\ I \subseteq Nat
  <2>1. \A m \in Model : \E i \in DOMAIN Catalog : Catalog[i] = m
    BY DEF Model, ToSet
  <2>2. DOMAIN Catalog \subseteq Nat
    <3> HIDE DEF Model
    <3> QED
      BY CatalogAssumption
  <2> QED
    BY <2>1, <2>2
<1>2. Min(I) \in I
  BY <1>1, MinIn
<1> QED
  BY <1>2 DEF First


LEMMA PartLenNat ==
    ASSUME NEW w, WorldTyped(w), NEW m \in Model, NEW f \in Files(m)
    PROVE  /\ PartLen(w, m, f) \in Nat
           /\ Headed(w.dir[m].part[f]) => Len(w.dir[m].part[f]) = PartLen(w, m, f)
<1>1. w.dir[m].part \in [Files(m) -> Seq(Int)]
  BY DEF WorldTyped, DirTyped, DirOf
<1>2. w.dir[m].part[f] \in Seq(Int)
  BY <1>1
<1>3. Len(w.dir[m].part[f]) \in Nat
  BY <1>2
<1>4. Headed(w.dir[m].part[f]) => w.dir[m].part[f] # Absent
  BY DEF Headed, Absent
<1> QED
  BY <1>3, <1>4 DEF PartLen

\* The next request goes out.
LEMMA AdvanceHolds ==
    ASSUME NEW w, WorldTyped(w), NEW s \in Session, w.task[s].pc # "off",
           w.task[s].m \in Model, NEW k \in Nat \ {0}
    PROVE  Holds(w, Advance(w, s, k))
<1> DEFINE m == w.task[s].m
           v == Advance(w, s, k)
<1>1. CASE Missing(w, m, k) = {}
  <2> DEFINE x == [w EXCEPT !.dir[m].manifest = ToSet(FilesOf(m)), !.dir[m].corrupt = FALSE, !.dir[m].here = TRUE]
  <2>1. Pared(w, x)
    BY InstalledLess
  <2>2. v = EndModel(x, s, "ok")
    BY <1>1 DEF Advance
  <2> HIDE DEF x, v
  <2>3. WorldTyped(x) /\ x.task[s].pc # "off" /\ Smaller(w, x)
    BY <2>1 DEF Pared, Smaller, Stays
  <2>4. Smaller(x, v)
    BY <2>2, <2>3, EndModelLess
  <2> QED
    BY <2>3, <2>4, LessTrans, SmallerHolds DEF v
<1>2. CASE Missing(w, m, k) # {}
  <2> DEFINE i == Min(Missing(w, m, k))
             f == FilesOf(m)[i]
             x == RemoveFiles(w, {<<m, f>>})
             n == PartLen(w, m, f)
             c == [x.dir[m] EXCEPT !.here = TRUE]
             d == [x.dir EXCEPT ![m] = c]
             y == Rec(d, x.task, x.flight, x.loading)
             u == [x.task[s] EXCEPT !.k = i, !.attempt = 1, !.pc = "answer", !.asked = n, !.at = "none"]
             t == [x.task EXCEPT ![s] = u]
  <2>1. i \in Nat /\ i \in 1..Len(FilesOf(m))
    <3>1. FilesOf(m) \in Seq(Files(m))
      BY CatalogAssumption DEF Files
    <3>2. Missing(w, m, k) \subseteq k..Len(FilesOf(m)) /\ Len(FilesOf(m)) \in Nat
      BY <3>1 DEF Missing
    <3>3. Missing(w, m, k) \subseteq Nat
      BY <3>2
    <3>4. i \in Missing(w, m, k)
      BY <1>2, <3>3, MinIn
    <3> QED
      BY <3>2, <3>4
  <2> HIDE DEF i
  <2>2. f \in Files(m)
    BY <2>1, FileAt
  <2>3. n \in Nat /\ (Headed(w.dir[m].part[f]) => Len(w.dir[m].part[f]) = n)
    BY <2>2, PartLenNat
  <2> HIDE DEF f, n
  <2>4. Pared(w, x) /\ Fileless(w, x, {<<m, f>>})
    BY RemoveFilesLess
  <2>5. v = [x EXCEPT !.dir[m].here = TRUE, !.task[s].k = i, !.task[s].attempt = 1,
                      !.task[s].pc = "answer", !.task[s].asked = n, !.task[s].at = "none"]
    BY <1>2 DEF Advance, i, f, n
  <2> HIDE DEF x, v
  <2>6. /\ WorldTyped(x) /\ x.task[s].m = m /\ x.dir[m].part = w.dir[m].part /\ x.dir[m] \in DirOf(m)
        /\ x.task[s] \in SyncState /\ x \in Worlds /\ x.dir \in [Model -> Dirs]
        /\ x.task \in [Session -> SyncState] /\ x.task[s].pc # "off" /\ x.flight[s]
    BY <2>4 DEF Pared, Smaller, Fileless, Stays, WorldTyped, DirTyped, TaskTyped, Worlds
  <2>7. c \in DirOf(m) /\ c.here /\ c.part = x.dir[m].part /\ c.file = x.dir[m].file
    BY <2>6 DEF DirOf
  <2>8. /\ u \in SyncState /\ u.pc = "answer" /\ u.at = "none" /\ u.m = m /\ u.k = i /\ u.asked = n
    BY <2>1, <2>3, <2>6 DEF SyncState
  <2>9. v = Rec(d, t, x.flight, x.loading)
    <3>1. PICK D, T, F, L : x \in Box(D, T, F, L)
      BY <2>6, Boxed
    <3>2. v \in Box({v.dir}, {v.task}, F, L) /\ v.flight = x.flight /\ v.loading = x.loading
      BY <2>5, <3>1 DEF Box
    <3>3. v.dir = d
      <4> HIDE DEF Dirs
      <4> QED
        BY <2>5, <2>6, <3>1 DEF Box
    <3>4. v.task = t
      <4> HIDE DEF SyncState
      <4> QED
        BY <2>5, <2>6, <3>1 DEF Box
    <3> HIDE DEF d, t
    <3> QED
      BY <3>2, <3>3, <3>4, InBox
  <2> HIDE DEF c, u
  <2>10. Refiles(x, y, m, c)
    BY <2>6, <2>7 DEF Refiles
  <2>11. Pared(x, y)
    BY <2>7, <2>10, Marks
  <2>12. y.dir = d /\ y.task = x.task /\ y.flight = x.flight /\ y.loading = x.loading /\ y.dir[m] = c
    <3> HIDE DEF Dirs, DirOf
    <3> QED
      BY <2>6 DEF Rec
  <2> HIDE DEF y, d
  <2>13. Retasks(y, v, s, u, y.flight, y.loading)
    <3>1. WorldTyped(y) /\ y.flight \in [Session -> BOOLEAN] /\ y.loading \in Model \cup {NoModel}
      BY <2>11 DEF Pared, Smaller, WorldTyped, Worlds
    <3> QED
      BY <2>1, <2>6, <2>8, <2>9, <2>12, <3>1 DEF Retasks, Working
  <2>14. v.task[s] = u /\ v.dir = y.dir
    <3>1. Retasked(y, v, s, u, y.flight, y.loading)
      BY <2>13, Retask
    <3> QED
      BY <3>1 DEF Retasked
  <2>15. TaskFits(v, s)
    <3>1. FileNow(u) = f
      BY <2>8 DEF FileNow, f
    <3>2. v.dir[m].part[f] = w.dir[m].part[f]
      BY <2>6, <2>7, <2>12, <2>14
    <3> QED
      BY <2>3, <2>8, <2>14, <3>1, <3>2 DEF TaskFits, Asks
  <2>16. Holds(y, v)
    BY <2>6, <2>12, <2>13, <2>15, RetaskHolds
  <2>17. Holds(w, x) /\ Holds(x, y)
    BY <2>4, <2>6, <2>11, SmallerHolds DEF Pared
  <2> QED
    BY <2>16, <2>17, HoldsTrans DEF v
<1> QED
  BY <1>1, <1>2

LEMMA SourceHolds ==
    ASSUME NEW w, WorldTyped(w), NEW s \in Session, w.task[s].pc # "off", w.task[s].m \in Model
    PROVE  Holds(w, Source(w, s))
<1>1. Holds(w, EndModel(w, s, "ok"))
  BY EndModelLess, SmallerHolds
<1>2. Holds(w, Advance(w, s, 1))
  BY AdvanceHolds
<1> QED
  BY <1>1, <1>2 DEF Source


\* The handle is closed.
Idle(w, s) == [w EXCEPT !.task[s].at = "none"]
Closed(w, v, s) ==
    /\ Pared(w, v) /\ v.dir = w.dir /\ v.flight = w.flight /\ v.task[s].at = "none"
    /\ v.task[s].src = w.task[s].src /\ v.task[s].attempt = w.task[s].attempt

LEMMA IdleLess ==
    ASSUME NEW w, WorldTyped(w), NEW s \in Session
    PROVE  Closed(w, Idle(w, s), s)
<1> DEFINE v == Idle(w, s)
           u == [w.task[s] EXCEPT !.at = "none"]
           t == [w.task EXCEPT ![s] = u]
<1>1. /\ w \in Worlds /\ w.flight \in [Session -> BOOLEAN] /\ w.task[s] \in SyncState /\ TaskTyped(w, s)
      /\ w.task \in [Session -> SyncState] /\ w.loading \in Model \cup {NoModel}
  BY DEF WorldTyped, Worlds, TaskTyped
<1>2. /\ u \in SyncState /\ Stays(w.task[s], u) /\ u.at = "none"
      /\ u.src = w.task[s].src /\ u.attempt = w.task[s].attempt
  BY <1>1 DEF SyncState, Stays
<1>3. v = Rec(w.dir, t, w.flight, w.loading)
  <2>1. PICK D, T, F, L : w \in Box(D, T, F, L)
    BY <1>1, Boxed
  <2>2. v \in Box(D, {v.task}, F, L) /\ v.dir = w.dir /\ v.flight = w.flight /\ v.loading = w.loading
    BY <2>1 DEF Box, Idle
  <2>3. v.task = t
    <3> HIDE DEF SyncState
    <3> QED
      BY <1>1, <2>1 DEF Box, Idle
  <2> HIDE DEF v, t
  <2> QED
    BY <2>2, <2>3, InBox
<1> HIDE DEF v, u
<1>4. Retasks(w, v, s, u, w.flight, w.loading)
  BY <1>1, <1>2, <1>3 DEF Retasks, Working, TaskTyped, Stays
<1>5. Pared(w, v)
  BY <1>2, <1>4, Notes
<1>6. v.task[s] = u /\ v.dir = w.dir /\ v.flight = w.flight
  <2>1. Retasked(w, v, s, u, w.flight, w.loading)
    BY <1>4, Retask
  <2> QED
    BY <2>1 DEF Retasked
<1>7. Closed(w, v, s)
  BY <1>2, <1>5, <1>6 DEF Closed
<1> QED
  BY <1>7 DEF v

LEMMA FailsHolds ==
    ASSUME NEW w, WorldTyped(w), NEW s \in Session, Working(w.task[s]), NEW retryable \in BOOLEAN
    PROVE  Holds(Idle(w, s), Fails(w, s, retryable))
<1> DEFINE v == Idle(w, s)
           r == Fails(w, s, retryable)
           m == w.task[s].m
<1>1. Closed(w, v, s)
  BY IdleLess
<1>2. /\ Pared(w, v) /\ WorldTyped(v) /\ v.task[s].at = "none" /\ v.task[s].m = m
      /\ Working(v.task[s]) /\ v.task[s].pc # "off"
  BY <1>1 DEF Closed, Pared, Smaller, Stays, Working
<1>3. /\ v \in Worlds /\ TaskTyped(v, s) /\ v.task[s] \in SyncState /\ m \in Model
      /\ v.task \in [Session -> SyncState]
      /\ v.flight \in [Session -> BOOLEAN] /\ v.loading \in Model \cup {NoModel}
  BY <1>2 DEF WorldTyped, TaskTyped, Worlds
<1> HIDE DEF v
<1>4. CASE retryable /\ w.task[s].attempt < MaxAttempts
  <2> DEFINE n == v.task[s].attempt + 1
             u == [v.task[s] EXCEPT !.pc = "ask", !.attempt = n]
             t == [v.task EXCEPT ![s] = u]
  <2>1. /\ u \in SyncState /\ u.pc = "ask" /\ u.at = "none" /\ u.m = m /\ u.k = v.task[s].k
    <3>1. n \in Nat
      BY <1>3 DEF SyncState
    <3> HIDE DEF n
    <3> QED
      BY <1>2, <1>3, <3>1 DEF SyncState
  <2>2. r = [v EXCEPT !.task[s].pc = "ask", !.task[s].attempt = @ + 1]
    BY <1>4 DEF Fails, v, Idle
  <2> HIDE DEF r
  <2>3. r = Rec(v.dir, t, v.flight, v.loading)
    <3>1. PICK D, T, F, L : v \in Box(D, T, F, L)
      BY <1>3, Boxed
    <3>2. r \in Box(D, {r.task}, F, L) /\ r.dir = v.dir /\ r.flight = v.flight /\ r.loading = v.loading
      BY <2>2, <3>1 DEF Box
    <3>3. r.task = t
      <4> HIDE DEF SyncState
      <4> QED
        BY <1>3, <2>2, <3>1 DEF Box
    <3> HIDE DEF t
    <3> QED
      BY <3>2, <3>3, InBox
  <2> HIDE DEF u
  <2>4. Retasks(v, r, s, u, v.flight, v.loading)
    BY <1>2, <1>3, <2>1, <2>3 DEF Retasks, Working, TaskTyped
  <2>5. TaskFits(r, s)
    <3>1. Retasked(v, r, s, u, v.flight, v.loading)
      BY <2>4, Retask
    <3> QED
      BY <2>1, <3>1 DEF Retasked, TaskFits
  <2> QED
    BY <1>2, <2>4, <2>5, RetaskHolds DEF v, r
<1>5. CASE ~(retryable /\ w.task[s].attempt < MaxAttempts) /\ w.task[s].src = "mirror"
  <2> DEFINE q == RemoveParts(v, Paths({m}))
             u == [q.task[s] EXCEPT !.src = "hf"]
             t == [q.task EXCEPT ![s] = u]
             y == [q EXCEPT !.task[s].src = "hf"]
  <2>1. Pared(v, q)
    BY <1>2, RemovePartsLess
  <2> HIDE DEF q
  <2>2. r = Source(y, s)
    BY <1>5 DEF Fails, q, v, Idle
  <2> HIDE DEF r
  <2>3. /\ q \in Worlds /\ WorldTyped(q) /\ TaskTyped(q, s) /\ q.task[s] \in SyncState
        /\ q.task \in [Session -> SyncState]
        /\ q.flight \in [Session -> BOOLEAN] /\ q.loading \in Model \cup {NoModel}
        /\ Working(q.task[s]) /\ q.task[s].m = m /\ q.task[s].pc # "off"
    BY <1>2, <2>1 DEF Pared, Smaller, Stays, WorldTyped, TaskTyped, Worlds, Working
  <2>4. u \in SyncState /\ Stays(q.task[s], u) /\ u.at = q.task[s].at
    BY <2>3 DEF SyncState, Stays
  <2>5. y = Rec(q.dir, t, q.flight, q.loading)
    <3>1. PICK D, T, F, L : q \in Box(D, T, F, L)
      BY <2>3, Boxed
    <3>2. y \in Box(D, {y.task}, F, L) /\ y.dir = q.dir /\ y.flight = q.flight /\ y.loading = q.loading
      BY <3>1 DEF Box
    <3>3. y.task = t
      <4> HIDE DEF SyncState
      <4> QED
        BY <2>3, <3>1 DEF Box
    <3> HIDE DEF t, y
    <3> QED
      BY <3>2, <3>3, InBox
  <2> HIDE DEF y, u
  <2>6. Retasks(q, y, s, u, q.flight, q.loading)
    BY <2>3, <2>4, <2>5 DEF Retasks, Working, TaskTyped, Stays
  <2>7. Pared(q, y)
    BY <2>4, <2>6, Notes
  <2>8. WorldTyped(y) /\ y.task[s].pc # "off" /\ y.task[s].m \in Model
    BY <1>3, <2>3, <2>7 DEF Pared, Smaller, Stays
  <2>9. Holds(y, r)
    BY <2>2, <2>8, SourceHolds
  <2>10. Holds(v, q) /\ Holds(q, y)
    BY <1>2, <2>1, <2>3, <2>7, SmallerHolds DEF Pared
  <2> QED
    BY <2>9, <2>10, HoldsTrans DEF v, r
<1>6. CASE ~(retryable /\ w.task[s].attempt < MaxAttempts) /\ w.task[s].src # "mirror"
  <2>1. r = EndModel(v, s, "retry") \/ r = EndModel(v, s, "failed")
    BY <1>6 DEF Fails, v, Idle
  <2>2. Smaller(v, r)
    BY <1>2, <2>1, EndModelLess
  <2> QED
    BY <1>2, <2>2, SmallerHolds DEF v
<1> QED
  BY <1>4, <1>5, <1>6


-----------------------------------------------------------------------------
(* What a sync does to its file, while no other works on the model. *)

Alone(w, s) == \A z \in Session : z # s /\ Working(w.task[z]) => w.task[z].m # w.task[s].m

\* The same as Holds, if the sync s is alone with its model.
Keeps(w, v, s) ==
    /\ WorldTyped(v) /\ NoneStarts(w, v)
    /\ \A m \in Model : Clean(w, m) /\ (w.task[s].m = m => Alone(w, s)) => Clean(v, m)

LEMMA HoldsKeeps ==
    ASSUME NEW w, NEW v, NEW s \in Session, Holds(w, v)
    PROVE  Keeps(w, v, s)
BY DEF Holds, Keeps

LEMMA KeepsHolds ==
    ASSUME NEW u, NEW v, NEW w, NEW s \in Session, Keeps(u, v, s), Holds(v, w)
    PROVE  Keeps(u, w, s)
BY DEF Holds, Keeps, NoneStarts

\* Syncs work on what they worked on.
SameWork(w, v) ==
    \A z \in Session :
        /\ v.task[z].m = w.task[z].m /\ (Working(v.task[z]) <=> Working(w.task[z]))
        /\ v.task[z].pc = "off" <=> w.task[z].pc = "off"

LEMMA KeepsKeeps ==
    ASSUME NEW u, NEW v, NEW w, NEW s \in Session, Keeps(u, v, s), SameWork(u, v), Keeps(v, w, s)
    PROVE  Keeps(u, w, s)
<1>1. v.task[s].m = u.task[s].m /\ (Alone(u, s) => Alone(v, s))
  BY DEF SameWork, Alone
<1>2. ASSUME NEW m \in Model, Clean(u, m), u.task[s].m = m => Alone(u, s)
      PROVE  Clean(w, m)
  <2>1. Clean(v, m)
    BY <1>2 DEF Keeps
  <2> QED
    BY <1>1, <1>2, <2>1 DEF Keeps
<1>3. WorldTyped(w) /\ NoneStarts(u, w)
  BY DEF Keeps, NoneStarts, SameWork
<1> QED
  BY <1>2, <1>3 DEF Keeps

LEMMA ParedKeeps ==
    ASSUME NEW w, NEW v, NEW s \in Session, WorldTyped(w), Pared(w, v)
    PROVE  Keeps(w, v, s) /\ SameWork(w, v)
<1>1. Holds(w, v)
  BY SmallerHolds DEF Pared
<1> QED
  BY <1>1, HoldsKeeps DEF Pared, Stays, SameWork, Working

\* All that changes is the directory of the model of s and who works on it.
Apart(w, v, s) ==
    /\ WorldTyped(w) /\ WorldTyped(v) /\ SameWork(w, v) /\ w.task[s].m \in Model
    /\ \A n \in Model : n # w.task[s].m => v.dir[n] = w.dir[n]
    /\ \A z \in Session : z # s /\ (w.task[z].m # w.task[s].m \/ ~Working(w.task[z])) =>
                            v.task[z] = w.task[z]
    /\ Clean(w, w.task[s].m) =>
          /\ TaskFits(v, s)
          /\ \A f \in Files(w.task[s].m) :
                Sound(v.dir[w.task[s].m].part[f]) /\ Sound(v.dir[w.task[s].m].file[f])

LEMMA ApartKeeps ==
    ASSUME NEW w, NEW v, NEW s \in Session, Apart(w, v, s)
    PROVE  Keeps(w, v, s)
<1> DEFINE m == w.task[s].m
<1>1. \A z \in Session :
        /\ v.task[z].m = w.task[z].m /\ (Working(v.task[z]) <=> Working(w.task[z]))
        /\ v.task[z].pc = "off" <=> w.task[z].pc = "off"
  BY DEF Apart, SameWork
<1>2. ASSUME NEW n \in Model, n # m, Clean(w, n)
      PROVE  Clean(v, n)
  <2>1. v.dir[n] = w.dir[n]
    BY <1>2 DEF Apart
  <2>2. ASSUME NEW z \in Session, v.task[z].m = n
        PROVE  TaskFits(v, z)
    <3>1. v.task[z] = w.task[z] /\ w.task[z].m = n
      BY <1>1, <1>2, <2>2 DEF Apart
    <3>2. TaskFits(w, z)
      BY <1>2, <3>1 DEF Clean
    <3> QED
      BY <2>1, <3>1, <3>2 DEF TaskFits
  <2> QED
    BY <1>2, <2>1, <2>2 DEF Clean
<1>3. ASSUME Clean(w, m), Alone(w, s)
      PROVE  Clean(v, m)
  <2>1. ASSUME NEW z \in Session, v.task[z].m = m
        PROVE  TaskFits(v, z)
    <3>1. CASE z = s
      BY <1>3, <3>1 DEF Apart
    <3>2. CASE z # s
      <4>1. ~Working(v.task[z]) /\ TaskTyped(v, z)
        BY <1>1, <1>3, <2>1, <3>2 DEF Alone, Apart, WorldTyped
      <4> QED
        BY <4>1 DEF TaskFits, TaskTyped, Working
    <3> QED
      BY <3>1, <3>2
  <2> QED
    BY <1>3, <2>1 DEF Clean, Apart
<1>4. WorldTyped(v) /\ NoneStarts(w, v)
  BY <1>1 DEF Apart, NoneStarts
<1> QED
  BY <1>2, <1>3, <1>4 DEF Keeps

Moved(t) == [t EXCEPT !.at = "file"]

Renames(w, v, m, f) ==
    /\ \A z \in Session : v.task[z].pc = w.task[z].pc /\ v.task[z].m = w.task[z].m /\ v.task[z].k = w.task[z].k
    /\ \A n \in Model : n # m => v.dir[n] = w.dir[n]
    /\ v.dir[m].manifest = w.dir[m].manifest /\ v.dir[m].corrupt = w.dir[m].corrupt
    /\ \A g \in Files(m) : v.dir[m].file[g] = IF g = f THEN w.dir[m].part[f] ELSE w.dir[m].file[g]

\* The part becomes the file.
LEMMA RenameKeeps ==
    ASSUME NEW w, WorldTyped(w), NEW s \in Session, Working(w.task[s]), w.task[s].at = "none",
           NEW m, m = w.task[s].m, NEW f, f = FileNow(w.task[s])
    PROVE  /\ Keeps(w, RenamePart(w, m, f), s) /\ RenamePart(w, m, f).task[s] = w.task[s]
           /\ Renames(w, RenamePart(w, m, f), m, f)
<1> DEFINE r == RenamePart(w, m, f)
           G == {<<m, f>>}
           On(t) == <<t.m, FileNow(t)>> \in G
           t1 == [z \in Session |-> IF w.task[z].at = "file" /\ On(w.task[z]) THEN Lost(w.task[z]) ELSE w.task[z]]
           t2 == [z \in Session |-> IF t1[z].at = "part" /\ On(t1[z]) THEN Moved(t1[z]) ELSE t1[z]]
           p == [w.dir[m].part EXCEPT ![f] = Absent]
           q == [w.dir[m].file EXCEPT ![f] = w.dir[m].part[f]]
           c == [w.dir[m] EXCEPT !.file = q, !.part = p]
           d == [w.dir EXCEPT ![m] = c]
<1>0. /\ w \in Worlds /\ w.dir \in [Model -> Dirs] /\ w.task \in [Session -> SyncState]
      /\ \A n \in Model : DirTyped(w, n)
      /\ \A z \in Session : TaskTyped(w, z)
  BY DEF WorldTyped, Worlds
<1>1. m \in Model /\ f \in Files(m)
  BY <1>0, FileAt DEF TaskTyped, FileNow
<1>2. /\ w.dir[m] \in DirOf(m) /\ w.dir[m].part \in [Files(m) -> Seq(Int)]
      /\ w.dir[m].file \in [Files(m) -> Seq(Int)] /\ w.dir[m].part[f] \in Seq(Int)
  BY <1>0, <1>1 DEF DirTyped, DirOf
<1>3. /\ p \in [Files(m) -> Seq(Int)] /\ q \in [Files(m) -> Seq(Int)]
      /\ \A g \in Files(m) : p[g] = IF g = f THEN Absent ELSE w.dir[m].part[g]
      /\ \A g \in Files(m) : q[g] = IF g = f THEN w.dir[m].part[f] ELSE w.dir[m].file[g]
  <2>1. Absent \in Seq(Int)
    BY DEF Absent
  <2> QED
    BY <1>1, <1>2, <2>1
<1> HIDE DEF p, q
<1>4. /\ c \in DirOf(m) /\ c.part = p /\ c.file = q /\ c.here = w.dir[m].here
      /\ c.manifest = w.dir[m].manifest /\ c.corrupt = w.dir[m].corrupt
  BY <1>2, <1>3 DEF DirOf
<1>5. ASSUME NEW z \in Session
      PROVE  \/ t2[z] = w.task[z]
             \/ /\ w.task[z].m = m /\ Working(w.task[z]) /\ w.task[z].at \in {"part", "file"}
                /\ t2[z] \in {Lost(w.task[z]), Moved(w.task[z])}
  <2>1. w.task[z] \in SyncState /\ (w.task[z].at # "none" => w.task[z].pc = "stream")
    BY <1>0 DEF TaskTyped
  <2>2. \/ t1[z] = w.task[z]
        \/ /\ w.task[z].m = m /\ w.task[z].at = "file" /\ t1[z] = Lost(w.task[z])
    BY <1>5
  <2>3. Lost(w.task[z]).at = "lost"
    BY <2>1 DEF SyncState, Lost
  <2>4. \/ t2[z] = t1[z]
        \/ t1[z].at = "part" /\ t1[z].m = m /\ t2[z] = Moved(t1[z])
    BY <1>5
  <2> HIDE DEF t1, t2
  <2> QED
    BY <2>1, <2>2, <2>3, <2>4 DEF Working
<1>6. r = Rec(d, t2, w.flight, w.loading)
  <2> DEFINE x1 == Follow(w, G, "file", "lost")
             x2 == Follow(x1, G, "part", "file")
  <2>1. PICK D, T, F, L : w \in Box(D, T, F, L)
    BY <1>0, Boxed
  <2>2. x1 = [w EXCEPT !.task = t1]
    BY DEF Follow, Lost
  <2> HIDE DEF t1, x1
  <2>3. /\ x1 \in Box(D, {t1}, F, L)
        /\ x1.dir = w.dir /\ x1.task = t1 /\ x1.flight = w.flight /\ x1.loading = w.loading
    BY <2>1, <2>2 DEF Box
  <2>4. x2 = [x1 EXCEPT !.task = t2]
    BY <2>3 DEF Follow, Moved
  <2> HIDE DEF t2, x2
  <2>5. /\ x2 \in Box(D, {t2}, F, L)
        /\ x2.dir = w.dir /\ x2.task = t2 /\ x2.flight = w.flight /\ x2.loading = w.loading
    BY <2>3, <2>4 DEF Box
  <2>6. r = [x2 EXCEPT !.dir[m].file[f] = w.dir[m].part[f], !.dir[m].part[f] = Absent]
    BY DEF RenamePart, x1, x2
  <2> HIDE DEF r
  <2>7. r \in Box({r.dir}, {t2}, F, L) /\ r.task = t2 /\ r.flight = w.flight /\ r.loading = w.loading
    BY <2>5, <2>6 DEF Box
  <2>8. r.dir = d
    <3>1. r.dir = [w.dir EXCEPT ![m] = [[w.dir[m] EXCEPT !.file[f] = w.dir[m].part[f]] EXCEPT !.part[f] = Absent]]
      <4> DEFINE e == w.dir
                 a == w.dir[m].part[f]
                 b == Absent
      <4> HIDE DEF e, a, b
      <4>1. r = [x2 EXCEPT !.dir[m].file[f] = a, !.dir[m].part[f] = b] /\ x2.dir = e
        BY <2>5, <2>6 DEF a, b, e
      <4>2. r.dir = [e EXCEPT ![m].file[f] = a, ![m].part[f] = b]
        BY <2>5, <4>1 DEF Box
      <4>3. e \in [Model -> Dirs]
        BY <1>0 DEF e
      <4> HIDE DEF Dirs
      <4>4. [e EXCEPT ![m].file[f] = a, ![m].part[f] = b] =
              [e EXCEPT ![m] = [[e[m] EXCEPT !.file[f] = a] EXCEPT !.part[f] = b]]
        BY <1>1, <4>3
      <4> QED
        BY <4>2, <4>4 DEF a, b, e
    <3>2. [[w.dir[m] EXCEPT !.file[f] = w.dir[m].part[f]] EXCEPT !.part[f] = Absent] = c
      BY <1>2 DEF p, q, DirOf
    <3> HIDE DEF c
    <3> QED
      BY <3>1, <3>2
  <2> HIDE DEF d
  <2> QED
    BY <2>7, <2>8, InBox
<1> HIDE DEF r, c
<1>7. /\ r.dir = d /\ r.task = t2 /\ r.flight = w.flight /\ r.loading = w.loading
      /\ t2 = [z \in Session |-> t2[z]]
  BY <1>6 DEF Rec
<1>8. /\ d = [n \in Model |-> d[n]] /\ d[m] = c
      /\ \A n \in Model : n # m => d[n] = w.dir[n]
  <2> HIDE DEF Dirs
  <2> QED
    BY <1>0, <1>1
<1> HIDE DEF d, t2
<1>9. ASSUME NEW n \in Model
      PROVE  DirTyped(r, n)
  <2>1. CASE n # m
    BY <1>0, <1>7, <1>8, <1>9, <2>1 DEF DirTyped
  <2>2. CASE n = m
    <3>1. Empty(w.dir[m], m) => Empty(c, m)
      BY <1>1, <1>3, <1>4 DEF Empty
    <3> QED
      BY <1>0, <1>1, <1>4, <1>7, <1>8, <2>2, <3>1 DEF DirTyped
  <2> QED
    BY <2>1, <2>2
<1>10. ASSUME NEW z \in Session
       PROVE  /\ TaskTyped(r, z) /\ r.task[z].pc = w.task[z].pc /\ r.task[z].m = w.task[z].m
              /\ r.task[z].k = w.task[z].k
              /\ w.task[z].m # m \/ ~Working(w.task[z]) => r.task[z] = w.task[z]
  <2>1. TaskTyped(w, z) /\ w.task[z] \in SyncState
    BY <1>0 DEF TaskTyped
  <2>2. w.task[z].at \in {"part", "file"} => r.dir[w.task[z].m].here
    BY <1>4, <1>7, <1>8, <2>1 DEF TaskTyped, Working
  <2>3. CASE r.task[z] = w.task[z]
    BY <1>7, <2>1, <2>2, <2>3 DEF TaskTyped
  <2>4. CASE /\ w.task[z].m = m /\ Working(w.task[z]) /\ w.task[z].at \in {"part", "file"}
             /\ r.task[z] \in {Lost(w.task[z]), Moved(w.task[z])}
    <3>1. /\ r.task[z] \in SyncState /\ r.task[z].pc = w.task[z].pc /\ r.task[z].m = w.task[z].m
          /\ r.task[z].k = w.task[z].k
      BY <2>1, <2>4 DEF SyncState, Lost, Moved
    <3> QED
      BY <1>7, <2>1, <2>2, <2>4, <3>1 DEF TaskTyped, Working
  <2> QED
    BY <1>5, <1>7, <2>3, <2>4
<1>11. WorldTyped(r)
  BY <1>0, <1>6, <1>7, <1>8, <1>9, <1>10, Built
<1>12. r.task[s] = w.task[s]
  BY <1>5, <1>7
<1>13. ASSUME Clean(w, m)
       PROVE  TaskFits(r, s) /\ \A g \in Files(m) : Sound(r.dir[m].part[g]) /\ Sound(r.dir[m].file[g])
  <2>1. Sound(Absent) /\ ~Headed(Absent)
    BY DEF Sound, Headed, Absent
  <2>2. \A g \in Files(m) : Sound(w.dir[m].part[g]) /\ Sound(w.dir[m].file[g])
    BY <1>13 DEF Clean
  <2>3. r.dir[m].part = p /\ r.dir[m].file = q
    BY <1>4, <1>7, <1>8
  <2>4. \A g \in Files(m) : Sound(p[g]) /\ Sound(q[g])
    BY <1>1, <1>3, <2>1, <2>2
  <2>5. r.dir[m].part[f] = Absent
    BY <1>1, <1>3, <2>3
  <2> QED
    BY <1>12, <2>1, <2>3, <2>4, <2>5 DEF TaskFits, Asks
<1>14. Apart(w, r, s)
  BY <1>1, <1>7, <1>8, <1>10, <1>11, <1>13 DEF Apart, SameWork, Working
<1>15. Keeps(w, r, s)
  BY <1>14, ApartKeeps
<1>16. Renames(w, r, m, f)
  BY <1>3, <1>4, <1>7, <1>8, <1>10 DEF Renames
<1> QED
  BY <1>12, <1>15, <1>16 DEF r


LEMMA FailsKeeps ==
    ASSUME NEW w, WorldTyped(w), NEW s \in Session, Working(w.task[s]), NEW retryable \in BOOLEAN
    PROVE  Holds(w, Fails(w, s, retryable))
<1>1. Pared(w, Idle(w, s))
  BY IdleLess DEF Closed
<1>2. Holds(w, Idle(w, s))
  BY <1>1, SmallerHolds DEF Pared
<1>3. Holds(Idle(w, s), Fails(w, s, retryable))
  BY FailsHolds
<1> QED
  BY <1>2, <1>3, HoldsTrans

LEMMA FinalizeKeeps ==
    ASSUME NEW w, WorldTyped(w), NEW s \in Session, Working(w.task[s])
    PROVE  Keeps(Idle(w, s), FinalizeDownload(w, s), s)
<1> DEFINE v == Idle(w, s)
           m == w.task[s].m
           f == FileNow(w.task[s])
           G == {<<m, f>>}
           r == RenamePart(v, m, f)
           e == FinalizeDownload(w, s)
<1>1. Closed(w, v, s)
  BY IdleLess
<1>2. /\ WorldTyped(v) /\ v.task[s].at = "none" /\ v.task[s].m = m /\ v.task[s].k = w.task[s].k
      /\ Working(v.task[s]) /\ f = FileNow(v.task[s])
  BY <1>1 DEF Closed, Pared, Smaller, Stays, Working, FileNow
<1>3. v.task[s].k + 1 \in Nat \ {0} /\ m \in Model /\ v.task[s].pc # "off"
  <2>1. TaskTyped(v, s)
    BY <1>2 DEF WorldTyped
  <2> HIDE DEF v
  <2> QED
    BY <1>2, <2>1 DEF TaskTyped, SyncState, Working
<1>4. Keeps(v, r, s) /\ r.task[s] = v.task[s]
  BY <1>2, RenameKeeps
<1> HIDE DEF v, f
<1>5. ASSUME NEW x, WorldTyped(x), x.task[s] = v.task[s], NEW q, Pared(x, q), NEW retryable \in BOOLEAN
      PROVE  Holds(x, Fails(q, s, retryable))
  <2>1. WorldTyped(q) /\ Working(q.task[s]) /\ Holds(x, q)
    BY <1>2, <1>5, SmallerHolds DEF Pared, Smaller, Stays, Working
  <2>2. Holds(q, Fails(q, s, retryable))
    BY <2>1, FailsKeeps
  <2> QED
    BY <2>1, <2>2, HoldsTrans
<1>6. Holds(v, Fails(RemoveParts(v, G), s, FALSE))
  <2>1. Pared(v, RemoveParts(v, G))
    BY <1>2, RemovePartsLess
  <2> QED
    BY <1>2, <1>5, <2>1
<1> HIDE DEF r
<1>7. WorldTyped(r)
  BY <1>4 DEF Keeps
<1>8. Holds(r, Fails(RemoveFiles(r, G), s, TRUE))
  <2>1. Pared(r, RemoveFiles(r, G))
    BY <1>7, RemoveFilesLess
  <2> QED
    BY <1>4, <1>5, <1>7, <2>1
<1>9. Holds(r, Advance(r, s, w.task[s].k + 1))
  BY <1>2, <1>3, <1>4, <1>7, AdvanceHolds
<1>10. e \in {Fails(RemoveParts(v, G), s, FALSE), Fails(RemoveFiles(r, G), s, TRUE), Advance(r, s, w.task[s].k + 1)}
  BY DEF FinalizeDownload, r, v, f, Idle
<1> HIDE DEF e, G, m
<1>11. Holds(v, e) \/ Holds(r, e)
  BY <1>6, <1>8, <1>9, <1>10
<1>12. Holds(v, e) => Keeps(v, e, s)
  BY HoldsKeeps
<1>13. Keeps(v, e, s)
  BY <1>4, <1>11, <1>12, KeepsHolds
<1> QED
  BY <1>13 DEF e, v

LEMMA WrittenIn ==
    ASSUME NEW c \in Seq(Int), NEW t \in SyncState
    PROVE  Written(c, t) \in Seq(Int)
<1>1. t.next \in Nat /\ Len(c) \in Nat
  BY DEF SyncState
<1> DEFINE n == IF Len(c) < t.next THEN t.next ELSE Len(c)
           g == [i \in 1..n |-> IF i = t.next THEN i ELSE IF i <= Len(c) THEN c[i] ELSE 0]
<1>2. n \in Nat
  BY <1>1
<1> HIDE DEF n
<1>3. \A i \in 1..n : g[i] \in Int
  BY <1>1, <1>2
<1>4. g \in [1..n -> Int]
  BY <1>3
<1>5. g \in Seq(Int)
  BY <1>2, <1>4
<1>6. Append(c, t.next) \in Seq(Int)
  BY <1>1
<1> QED
  BY <1>5, <1>6 DEF Written, n

\* A block written where the handle is continues what begins with the header.
LEMMA WrittenSound ==
    ASSUME NEW c \in Seq(Int), NEW t \in SyncState, Sound(c), Continues(t, c)
    PROVE  /\ Sound(Written(c, t)) /\ Written(c, t) # <<>>
           /\ Headed(Written(c, t)) => Len(Written(c, t)) = t.next
<1>1. t.next \in 1..Blocks /\ Len(c) \in Nat /\ t.append \in BOOLEAN /\ Blocks \in Nat
  BY BlocksAssumption DEF SyncState, Continues
<1> DEFINE x == Written(c, t)
           n == IF Len(c) < t.next THEN t.next ELSE Len(c)
<1>2. CASE t.append
  <2>1. /\ x = Append(c, t.next) /\ Len(x) = Len(c) + 1 /\ x[Len(c) + 1] = t.next
        /\ \A i \in 1..Len(c) : x[i] = c[i]
    BY <1>1, <1>2 DEF Written
  <2> HIDE DEF x
  <2>2. CASE c = <<>>
    <3>1. Len(x) = 1 /\ x[1] = t.next /\ x # <<>>
      BY <2>1, <2>2
    <3> QED
      BY <1>1, <3>1 DEF Sound, Headed, x
  <2>3. CASE c # <<>>
    <3>1. x[1] = c[1] /\ x # <<>>
      BY <2>1, <2>3
    <3> QED
      BY <1>1, <2>1, <2>3, <3>1 DEF Sound, Headed, Continues, x
  <2> QED
    BY <2>2, <2>3
<1>3. CASE ~t.append
  <2>1. n \in Nat /\ n >= 1 /\ n >= t.next
    BY <1>1
  <2>2. x = [i \in 1..n |-> IF i = t.next THEN i ELSE IF i <= Len(c) THEN c[i] ELSE 0]
    BY <1>3 DEF Written
  <2> HIDE DEF x
  <2>3. x \in Seq(Int) /\ x = Written(c, t)
    BY WrittenIn DEF x
  <2>4. Len(x) = n /\ \A i \in 1..n : x[i] = IF i = t.next THEN i ELSE IF i <= Len(c) THEN c[i] ELSE 0
    <3>1. DOMAIN x = 1..n
      BY <2>2
    <3> HIDE DEF n
    <3>2. \A i \in 1..n : x[i] = IF i = t.next THEN i ELSE IF i <= Len(c) THEN c[i] ELSE 0
      BY <2>2
    <3>3. Len(x) = n
      BY <2>1, <2>3, <3>1
    <3> QED
      BY <3>2, <3>3
  <2>5. x # <<>>
    BY <2>1, <2>4
  <2>6. CASE t.next = 1
    <3>1. Len(c) = 0 \/ Len(c) = 1
      <4>1. c \in {<<>>, Absent}
        BY <1>3, <2>6, Zenon DEF Continues
      <4>2. Len(<<>>) = 0 /\ Len(Absent) = 1
        BY DEF Absent
      <4> QED
        BY <4>1, <4>2, Zenon
    <3>2. Len(x) = 1 /\ x[1] = 1
      <4>1. n = 1
        <5>1. Len(c) \in Nat /\ t.next = 1
          BY <1>1, <2>6
        <5>2. n = IF Len(c) < 1 THEN 1 ELSE Len(c)
          BY <5>1
        <5>4. CASE Len(c) = 0
          BY <5>2, <5>4
        <5>5. CASE Len(c) = 1
          BY <5>2, <5>5
        <5> QED
          BY <3>1, <5>4, <5>5
      <4> HIDE DEF n
      <4>2. 1 \in 1..n
        BY <4>1
      <4> QED
        BY <2>4, <2>6, <4>1, <4>2
    <3> QED
      BY <1>1, <2>3, <2>5, <2>6, <3>2 DEF Sound, Headed
  <2>7. CASE t.next # 1
    <3>1. c # <<>> /\ Len(c) >= 1
      BY <1>1, <1>3, <2>7 DEF Continues
    <3>2. x[1] = c[1]
      BY <1>1, <2>1, <2>4, <2>7, <3>1
    <3>3. ASSUME Headed(c)
          PROVE  Len(x) = t.next /\ \A i \in 1..Len(x) : x[i] = i
      <4>1. Len(c) = t.next - 1 /\ \A i \in 1..Len(c) : c[i] = i
        BY <3>3 DEF Continues, Sound
      <4>2. n = t.next
        BY <1>1, <4>1
      <4> HIDE DEF n
      <4> QED
        BY <1>1, <2>4, <4>1, <4>2
    <3>4. Headed(x) => Headed(c)
      BY <3>1, <3>2 DEF Headed
    <3> QED
      BY <1>1, <2>3, <2>5, <3>3, <3>4 DEF Sound
  <2> QED
    BY <2>6, <2>7
<1> QED
  BY <1>1, <1>2, <1>3


\* y is w with the block of sync s written.
Wrote(w, y, s) ==
    /\ WorldTyped(y) /\ y.task = w.task /\ y.flight = w.flight /\ y.loading = w.loading
    /\ \A n \in Model : n # w.task[s].m => y.dir[n] = w.dir[n]
    /\ Clean(w, w.task[s].m) =>
          /\ \A f \in Files(w.task[s].m) :
                Sound(y.dir[w.task[s].m].part[f]) /\ Sound(y.dir[w.task[s].m].file[f])
          /\ w.task[s].at = "part" =>
                LET c == y.dir[w.task[s].m].part[FileNow(w.task[s])]
                IN  c # <<>> /\ (Headed(c) => Len(c) = w.task[s].next) /\ w.task[s].next \in 1..Blocks

LEMMA WriteBlockTyped ==
    ASSUME NEW w, WorldTyped(w), NEW s \in Session, Working(w.task[s])
    PROVE  Wrote(w, WriteBlock(w, s), s)
<1> DEFINE y == WriteBlock(w, s)
           t == w.task[s]
           m == t.m
           f == FileNow(t)
           b == w.dir[m]
<1>0. /\ w \in Worlds /\ w.dir \in [Model -> Dirs] /\ DirTyped(w, m) /\ t \in SyncState /\ m \in Model
      /\ TaskTyped(w, s) /\ f \in Files(m)
  <2>1. TaskTyped(w, s) /\ m \in Model
    BY DEF WorldTyped, TaskTyped
  <2>2. f \in Files(m)
    BY <2>1, FileAt DEF TaskTyped, FileNow
  <2> QED
    BY <2>1, <2>2 DEF WorldTyped, Worlds, TaskTyped
<1>1. b \in DirOf(m) /\ b.part \in [Files(m) -> Seq(Int)] /\ b.file \in [Files(m) -> Seq(Int)]
  BY <1>0 DEF DirTyped, DirOf
<1>2. Clean(w, m) => /\ \A g \in Files(m) : Sound(b.part[g]) /\ Sound(b.file[g])
                     /\ t.at # "file" /\ (t.at = "part" => Continues(t, b.part[f]))
  BY DEF Clean, TaskFits
<1>3. CASE t.at = "part"
  <2> DEFINE c == Written(b.part[f], t)
             p == [b.part EXCEPT ![f] = c]
             x == [b EXCEPT !.part = p]
             d == [w.dir EXCEPT ![m] = x]
  <2>1. b.part[f] \in Seq(Int) /\ c \in Seq(Int)
    BY <1>0, <1>1, WrittenIn
  <2>2. Clean(w, m) => Sound(c) /\ c # <<>> /\ (Headed(c) => Len(c) = t.next) /\ t.next \in 1..Blocks
    <3>1. ASSUME Clean(w, m)
          PROVE  Sound(b.part[f]) /\ Continues(t, b.part[f])
      BY <1>0, <1>2, <1>3, <3>1
    <3>2. Continues(t, b.part[f]) => t.next \in 1..Blocks
      BY DEF Continues
    <3> HIDE DEF t, b, f
    <3> QED
      BY <1>0, <2>1, <3>1, <3>2, WrittenSound
  <2>3. y = [w EXCEPT !.dir[m].part[f] = c]
    BY <1>3 DEF WriteBlock
  <2> HIDE DEF c, y
  <2>4. /\ p \in [Files(m) -> Seq(Int)] /\ p[f] = c
        /\ \A g \in Files(m) : g # f => p[g] = b.part[g]
    BY <1>0, <1>1, <2>1
  <2>5. y = Rec(d, w.task, w.flight, w.loading)
    <3>1. PICK D, T, F, L : w \in Box(D, T, F, L)
      BY <1>0, Boxed
    <3>2. y \in Box({y.dir}, T, F, L) /\ y.task = w.task /\ y.flight = w.flight /\ y.loading = w.loading
      BY <2>3, <3>1 DEF Box
    <3>3. y.dir = d
      <4>1. y.dir = [w.dir EXCEPT ![m].part[f] = c]
        BY <2>3, <3>1 DEF Box
      <4> DEFINE e == w.dir
      <4> HIDE DEF e, Dirs
      <4>2. [e EXCEPT ![m].part[f] = c] = [e EXCEPT ![m] = [e[m] EXCEPT !.part = [e[m].part EXCEPT ![f] = c]]]
        <5>1. e \in [Model -> Dirs]
          BY <1>0 DEF e
        <5> QED
          BY <1>0, <5>1
      <4> QED
        BY <4>1, <4>2 DEF e
    <3> HIDE DEF d
    <3> QED
      BY <3>2, <3>3, InBox
  <2> HIDE DEF p
  <2>6. x \in DirOf(m) /\ x.here = b.here /\ x.part = p /\ x.file = b.file
    BY <1>1, <2>4 DEF DirOf
  <2>7. b.here
    BY <1>0, <1>3 DEF TaskTyped
  <2> HIDE DEF x
  <2>8. Refiles(w, y, m, x)
    BY <2>5, <2>6, <2>7 DEF Refiles
  <2>9. Refiled(w, y, m, x)
    BY <1>0, <2>8, Refile
  <2>10. /\ WorldTyped(y) /\ y.task = w.task /\ y.flight = w.flight /\ y.loading = w.loading
         /\ y.dir[m] = x /\ \A n \in Model : n # m => y.dir[n] = w.dir[n]
    BY <2>9 DEF Refiled
  <2>11. Clean(w, m) => \A g \in Files(m) : Sound(p[g]) /\ Sound(b.file[g])
    BY <1>2, <2>2, <2>4
  <2> QED
    BY <2>2, <2>4, <2>6, <2>10, <2>11 DEF Wrote, y
<1>4. CASE t.at = "file"
  <2> DEFINE c == Written(b.file[f], t)
             p == [b.file EXCEPT ![f] = c]
             x == [b EXCEPT !.file = p]
             d == [w.dir EXCEPT ![m] = x]
  <2>1. b.file[f] \in Seq(Int) /\ c \in Seq(Int)
    BY <1>0, <1>1, WrittenIn
  <2>3. y = [w EXCEPT !.dir[m].file[f] = c]
    BY <1>4 DEF WriteBlock
  <2> HIDE DEF c, y
  <2>4. p \in [Files(m) -> Seq(Int)]
    BY <1>0, <1>1, <2>1
  <2>5. y = Rec(d, w.task, w.flight, w.loading)
    <3>1. PICK D, T, F, L : w \in Box(D, T, F, L)
      BY <1>0, Boxed
    <3>2. y \in Box({y.dir}, T, F, L) /\ y.task = w.task /\ y.flight = w.flight /\ y.loading = w.loading
      BY <2>3, <3>1 DEF Box
    <3>3. y.dir = d
      <4>1. y.dir = [w.dir EXCEPT ![m].file[f] = c]
        BY <2>3, <3>1 DEF Box
      <4> DEFINE e == w.dir
      <4> HIDE DEF e, Dirs
      <4>2. [e EXCEPT ![m].file[f] = c] = [e EXCEPT ![m] = [e[m] EXCEPT !.file = [e[m].file EXCEPT ![f] = c]]]
        <5>1. e \in [Model -> Dirs]
          BY <1>0 DEF e
        <5> QED
          BY <1>0, <5>1
      <4> QED
        BY <4>1, <4>2 DEF e
    <3> HIDE DEF d
    <3> QED
      BY <3>2, <3>3, InBox
  <2> HIDE DEF p
  <2>6. x \in DirOf(m) /\ x.here = b.here
    BY <1>1, <2>4 DEF DirOf
  <2>7. b.here
    BY <1>0, <1>4 DEF TaskTyped
  <2> HIDE DEF x
  <2>8. Refiles(w, y, m, x)
    BY <2>5, <2>6, <2>7 DEF Refiles
  <2>9. Refiled(w, y, m, x)
    BY <1>0, <2>8, Refile
  <2> QED
    BY <1>2, <1>4, <2>9 DEF Refiled, Wrote, y
<1>5. CASE t.at \notin {"part", "file"}
  <2>1. y = w
    BY <1>5 DEF WriteBlock
  <2> QED
    BY <1>2, <1>5, <2>1 DEF Wrote
<1> QED
  BY <1>3, <1>4, <1>5


LEMMA ChunkKeeps ==
    ASSUME NEW w, WorldTyped(w), NEW s \in Session, w.task[s].pc = "stream"
    PROVE  LET y == WriteBlock(w, s)
           IN  Keeps(w, IF w.task[s].next < Blocks THEN [y EXCEPT !.task[s].next = @ + 1]
                        ELSE FinalizeDownload(y, s), s)
<1> DEFINE y == WriteBlock(w, s)
           t == w.task[s]
           m == t.m
           v == [y EXCEPT !.task[s].next = @ + 1]
<1>1. Working(t) /\ TaskTyped(w, s) /\ t \in SyncState /\ m \in Model /\ t.next \in Nat
  BY DEF Working, WorldTyped, TaskTyped, SyncState
<1>2. Wrote(w, y, s)
  BY <1>1, WriteBlockTyped
<1> HIDE DEF y
<1>3. /\ WorldTyped(y) /\ y.task = w.task /\ y.flight = w.flight /\ y.loading = w.loading
      /\ \A n \in Model : n # m => y.dir[n] = w.dir[n]
  BY <1>2 DEF Wrote
<1>4. Clean(w, m) => t.at # "file"
  BY DEF Clean, TaskFits
<1>5. CASE t.next < Blocks
  <2> DEFINE n == t.next + 1
             u == [t EXCEPT !.next = n]
             new == [y.task EXCEPT ![s] = u]
  <2>1. n \in Nat /\ n - 1 = t.next /\ (t.next \in 1..Blocks => n \in 1..Blocks /\ n # 1)
    BY <1>1, <1>5, BlocksAssumption
  <2>2. v = Rec(y.dir, new, y.flight, y.loading)
    <3>1. PICK D, T, F, L : y \in Box(D, T, F, L)
      BY <1>3, Boxed DEF WorldTyped
    <3>2. v \in Box(D, {v.task}, F, L) /\ v.dir = y.dir /\ v.flight = y.flight /\ v.loading = y.loading
      BY <3>1 DEF Box
    <3>3. v.task = new
      <4>1. y.task \in [Session -> SyncState] /\ y.task[s] = t
        BY <1>3 DEF WorldTyped, Worlds
      <4> HIDE DEF SyncState, t
      <4> QED
        BY <3>1, <4>1 DEF Box
    <3> HIDE DEF v, new
    <3> QED
      BY <3>2, <3>3, InBox
  <2> HIDE DEF v, n
  <2>3. /\ u \in SyncState /\ u.pc = t.pc /\ u.m = m /\ u.k = t.k /\ u.at = t.at
        /\ u.append = t.append /\ u.next = n
    BY <1>1, <2>1 DEF SyncState
  <2> HIDE DEF u
  <2>4. Retasks(y, v, s, u, y.flight, y.loading)
    <3>1. TaskTyped(y, s) /\ y.task[s] = t /\ y.flight \in [Session -> BOOLEAN] /\ y.loading \in Model \cup {NoModel}
      BY <1>3 DEF WorldTyped, Worlds
    <3> QED
      BY <1>3, <2>2, <2>3, <3>1 DEF Retasks, TaskTyped, Working
  <2>5. Retasked(y, v, s, u, y.flight, y.loading)
    BY <2>4, Retask
  <2>6. WorldTyped(v) /\ v.dir = y.dir /\ v.task[s] = u /\ \A z \in Session : z # s => v.task[z] = w.task[z]
    BY <1>3, <2>5 DEF Retasked
  <2>7. Clean(w, m) => TaskFits(v, s)
    <3> DEFINE c == y.dir[m].part[FileNow(t)]
    <3>1. ASSUME Clean(w, m), t.at = "part"
          PROVE  c # <<>> /\ (Headed(c) => Len(c) = t.next) /\ t.next \in 1..Blocks
      BY <1>2, <3>1 DEF Wrote
    <3>2. FileNow(u) = FileNow(t)
      BY <2>3 DEF FileNow
    <3>3. v.dir[u.m].part[FileNow(u)] = c
      BY <2>3, <2>6, <3>2
    <3> HIDE DEF c, t, m
    <3>4. ASSUME Clean(w, m), t.at = "part"
          PROVE  Continues(u, c)
      BY <2>1, <2>3, <3>1, <3>4 DEF Continues
    <3>5. t.pc # "answer"
      BY DEF t
    <3> QED
      BY <1>4, <2>3, <2>6, <3>3, <3>4, <3>5 DEF TaskFits
  <2>8. Apart(w, v, s)
    <3>1. SameWork(w, v)
      BY <2>3, <2>6 DEF SameWork, Working
    <3>2. Clean(w, m) => \A f \in Files(m) : Sound(y.dir[m].part[f]) /\ Sound(y.dir[m].file[f])
      BY <1>2 DEF Wrote
    <3> QED
      BY <1>1, <1>3, <2>6, <2>7, <3>1, <3>2 DEF Apart
  <2>9. Keeps(w, v, s)
    BY <2>8, ApartKeeps
  <2> QED
    BY <1>5, <2>9 DEF y, v
<1>6. CASE ~(t.next < Blocks)
  <2> DEFINE x == Idle(y, s)
             e == FinalizeDownload(y, s)
  <2>1. Closed(y, x, s)
    BY <1>3, IdleLess
  <2>2. Keeps(x, e, s)
    BY <1>1, <1>3, FinalizeKeeps
  <2> HIDE DEF x, e
  <2>3. /\ WorldTyped(x) /\ x.dir = y.dir /\ x.task[s].at = "none"
        /\ \A z \in Session : Stays(w.task[z], x.task[z])
    BY <1>3, <2>1 DEF Closed, Pared, Smaller
  <2>4. SameWork(w, x)
    BY <2>3 DEF SameWork, Working, Stays
  <2>5. \A z \in Session : z # s => x.task[z] = w.task[z]
    <3>1. PICK D, T, F, L : y \in Box(D, T, F, L)
      BY <1>3, Boxed DEF WorldTyped
    <3>2. y.task \in [Session -> SyncState]
      BY <1>3 DEF WorldTyped, Worlds
    <3> HIDE DEF SyncState
    <3> QED
      BY <1>3, <3>1, <3>2 DEF x, Idle, Box
  <2>6. Apart(w, x, s)
    <3>1. Clean(w, m) => \A f \in Files(m) : Sound(y.dir[m].part[f]) /\ Sound(y.dir[m].file[f])
      BY <1>2 DEF Wrote
    <3>2. TaskFits(x, s)
      <4>1. x.task[s].pc = "stream"
        BY <2>3 DEF Stays
      <4> QED
        BY <2>3, <4>1 DEF TaskFits
    <3> QED
      BY <1>1, <1>3, <2>3, <2>4, <2>5, <3>1, <3>2 DEF Apart
  <2>7. Keeps(w, x, s)
    BY <2>6, ApartKeeps
  <2>8. Keeps(w, e, s)
    BY <2>2, <2>4, <2>7, KeepsKeeps
  <2> QED
    BY <1>6, <2>8 DEF y, e
<1> QED
  BY <1>5, <1>6


LEMMA OpenedKeeps ==
    ASSUME NEW w, WorldTyped(w), NEW s \in Session, w.task[s].pc = "answer",
           NEW resume \in BOOLEAN, resume => w.task[s].asked < Blocks
    PROVE  Keeps(w, Opened(w, s, resume), s)
<1> DEFINE t == w.task[s]
           m == t.m
           f == FileNow(t)
           b == w.dir[m]
           v == Opened(w, s, resume)
<1>1. /\ Working(t) /\ TaskTyped(w, s) /\ DirTyped(w, m) /\ t \in SyncState /\ m \in Model /\ t.asked \in Nat
      /\ w \in Worlds /\ w.dir \in [Model -> Dirs] /\ w.task \in [Session -> SyncState]
      /\ w.flight \in [Session -> BOOLEAN] /\ w.loading \in Model \cup {NoModel}
  BY DEF Working, WorldTyped, Worlds, TaskTyped, SyncState
<1>2. f \in Files(m)
  BY <1>1, FileAt DEF TaskTyped, FileNow
<1>3. CASE ~b.here
  <2>1. v = Fails(w, s, FALSE)
    BY <1>3 DEF Opened
  <2> HIDE DEF v
  <2>2. Holds(w, v)
    BY <1>1, <2>1, FailsKeeps
  <2> QED
    BY <2>2, HoldsKeeps DEF v
<1>4. CASE b.here
  <2> DEFINE old == b.part[f]
             c == IF resume /\ old # Absent THEN old ELSE <<>>
             p == [b.part EXCEPT ![f] = c]
             x == [b EXCEPT !.part = p]
             d == [w.dir EXCEPT ![m] = x]
             y == Rec(d, w.task, w.flight, w.loading)
             n == IF resume THEN t.asked + 1 ELSE 1
             u == [t EXCEPT !.pc = "stream", !.at = "part", !.append = resume, !.next = n]
             new == [w.task EXCEPT ![s] = u]
  <2>1. v = [w EXCEPT !.dir[m].part[f] = c, !.task[s].pc = "stream", !.task[s].at = "part",
                      !.task[s].append = resume, !.task[s].next = n]
    BY <1>4 DEF Opened
  <2>2. b \in DirOf(m) /\ b.part \in [Files(m) -> Seq(Int)] /\ old \in Seq(Int)
    BY <1>1, <1>2 DEF DirTyped, DirOf
  <2>3. c \in Seq(Int) /\ (c = old \/ c = <<>>) /\ (~resume => c = <<>>)
    BY <2>2
  <2>4. n \in Nat /\ n \in 1..Blocks /\ (resume => n = t.asked + 1) /\ (~resume => n = 1)
    BY <1>1, BlocksAssumption
  <2> HIDE DEF c, n, v
  <2>5. /\ p \in [Files(m) -> Seq(Int)] /\ p[f] = c
        /\ \A g \in Files(m) : g # f => p[g] = b.part[g]
    BY <1>2, <2>2, <2>3
  <2>6. x \in DirOf(m) /\ x.here /\ x.part = p /\ x.file = b.file
    <3> HIDE DEF p
    <3> QED
      BY <1>4, <2>2, <2>5 DEF DirOf
  <2>7. /\ u \in SyncState /\ u.pc = "stream" /\ u.m = m /\ u.k = t.k /\ u.at = "part"
        /\ u.append = resume /\ u.next = n
    BY <1>1, <2>4 DEF SyncState
  <2>8. v = Rec(d, new, w.flight, w.loading)
    <3>1. PICK D, T, F, L : w \in Box(D, T, F, L)
      BY <1>1, Boxed
    <3>2. v \in Box({v.dir}, {v.task}, F, L) /\ v.flight = w.flight /\ v.loading = w.loading
      BY <2>1, <3>1 DEF Box
    <3>3. v.dir = d
      <4>1. v.dir = [w.dir EXCEPT ![m].part[f] = c]
        BY <2>1, <3>1 DEF Box
      <4> DEFINE e == w.dir
      <4> HIDE DEF e, Dirs
      <4>2. [e EXCEPT ![m].part[f] = c] = [e EXCEPT ![m] = [e[m] EXCEPT !.part = [e[m].part EXCEPT ![f] = c]]]
        <5>1. e \in [Model -> Dirs]
          BY <1>1 DEF e
        <5> QED
          BY <1>1, <5>1
      <4> QED
        BY <4>1, <4>2 DEF e
    <3>4. v.task = new
      <4> HIDE DEF SyncState
      <4> QED
        BY <1>1, <2>1, <3>1 DEF Box
    <3> HIDE DEF d, new
    <3> QED
      BY <3>2, <3>3, <3>4, InBox
  <2> HIDE DEF x, u, p
  <2>9. Refiles(w, y, m, x)
    BY <2>6 DEF Refiles
  <2>10. Refiled(w, y, m, x)
    BY <1>1, <2>9, Refile
  <2>11. y.dir = d
    BY DEF Rec
  <2> HIDE DEF y, d
  <2>12. /\ WorldTyped(y) /\ y.task = w.task /\ y.flight = w.flight /\ y.loading = w.loading
         /\ y.dir[m] = x /\ \A z \in Model : z # m => y.dir[z] = w.dir[z]
    BY <2>10 DEF Refiled
  <2>13. Retasks(y, v, s, u, y.flight, y.loading)
    BY <1>1, <2>6, <2>7, <2>8, <2>11, <2>12 DEF Retasks, TaskTyped, Working
  <2>14. Retasked(y, v, s, u, y.flight, y.loading)
    BY <2>13, Retask
  <2>15. /\ WorldTyped(v) /\ v.dir = y.dir /\ v.task[s] = u
         /\ \A z \in Session : z # s => v.task[z] = w.task[z]
    BY <2>12, <2>14 DEF Retasked
  <2>16. ASSUME Clean(w, m)
         PROVE  /\ TaskFits(v, s)
                /\ \A g \in Files(m) : Sound(v.dir[m].part[g]) /\ Sound(v.dir[m].file[g])
    <3>1. Sound(<<>>) /\ ~Headed(<<>>)
      BY DEF Sound, Headed
    <3>2. \A g \in Files(m) : Sound(b.part[g]) /\ Sound(b.file[g])
      BY <2>16 DEF Clean
    <3>3. Asks(t, old)
      BY <2>16 DEF Clean, TaskFits
    <3>4. v.dir[m].part = p /\ v.dir[m].file = b.file
      BY <2>6, <2>12, <2>15
    <3>5. \A g \in Files(m) : Sound(p[g])
      BY <1>2, <2>3, <2>5, <3>1, <3>2
    <3>6. Headed(c) => Len(c) = n - 1
      <4>1. ASSUME Headed(c)
            PROVE  resume /\ c = old
        BY <2>3, <3>1, <4>1
      <4>2. ASSUME Headed(c)
            PROVE  Len(c) = t.asked /\ n = t.asked + 1
        BY <2>4, <3>3, <4>1, <4>2 DEF Asks
      <4> QED
        BY <1>1, <4>2
    <3>7. Continues(u, c)
      BY <2>3, <2>4, <2>7, <3>6 DEF Continues
    <3>8. FileNow(u) = f
      BY <2>7 DEF FileNow
    <3>9. v.dir[u.m].part[FileNow(u)] = c
      BY <2>5, <2>7, <3>4, <3>8
    <3>10. TaskFits(v, s)
      BY <2>7, <2>15, <3>7, <3>9 DEF TaskFits
    <3> QED
      BY <3>2, <3>4, <3>5, <3>10
  <2>17. Apart(w, v, s)
    <3>1. SameWork(w, v)
      BY <1>1, <2>7, <2>15 DEF SameWork, Working
    <3> QED
      BY <1>1, <2>12, <2>15, <2>16, <3>1 DEF Apart
  <2>18. Keeps(w, v, s)
    BY <2>17, ApartKeeps
  <2> QED
    BY <2>18 DEF v
<1> QED
  BY <1>3, <1>4

LEMMA RequestHolds ==
    ASSUME NEW w, WorldTyped(w), NEW s \in Session, w.task[s].pc = "ask"
    PROVE  Holds(w, [w EXCEPT !.task[s].pc = "answer",
                              !.task[s].asked = PartLen(w, w.task[s].m, FileNow(w.task[s]))])
<1> DEFINE t == w.task[s]
           m == t.m
           f == FileNow(t)
           n == PartLen(w, m, f)
           v == [w EXCEPT !.task[s].pc = "answer", !.task[s].asked = n]
           u == [t EXCEPT !.pc = "answer", !.asked = n]
           new == [w.task EXCEPT ![s] = u]
<1>1. /\ Working(t) /\ TaskTyped(w, s) /\ t \in SyncState /\ m \in Model /\ t.at = "none"
      /\ w \in Worlds /\ w.task \in [Session -> SyncState]
      /\ w.flight \in [Session -> BOOLEAN] /\ w.loading \in Model \cup {NoModel}
  BY DEF Working, WorldTyped, Worlds, TaskTyped, SyncState
<1>2. f \in Files(m)
  BY <1>1, FileAt DEF TaskTyped, FileNow
<1>3. n \in Nat /\ (Headed(w.dir[m].part[f]) => Len(w.dir[m].part[f]) = n)
  BY <1>1, <1>2, PartLenNat
<1> HIDE DEF n
<1>4. /\ u \in SyncState /\ u.pc = "answer" /\ u.m = m /\ u.k = t.k /\ u.at = "none" /\ u.asked = n
  BY <1>1, <1>3 DEF SyncState
<1>5. v = Rec(w.dir, new, w.flight, w.loading)
  <2>1. PICK D, T, F, L : w \in Box(D, T, F, L)
    BY <1>1, Boxed
  <2>2. v \in Box(D, {v.task}, F, L) /\ v.dir = w.dir /\ v.flight = w.flight /\ v.loading = w.loading
    BY <2>1 DEF Box
  <2>3. v.task = new
    <3> HIDE DEF SyncState
    <3> QED
      BY <1>1, <2>1 DEF Box
  <2> HIDE DEF v, new
  <2> QED
    BY <2>2, <2>3, InBox
<1> HIDE DEF v, u
<1>6. Retasks(w, v, s, u, w.flight, w.loading)
  BY <1>1, <1>4, <1>5 DEF Retasks, TaskTyped, Working
<1>7. TaskFits(v, s)
  <2>1. Retasked(w, v, s, u, w.flight, w.loading)
    BY <1>6, Retask
  <2>2. v.task[s] = u /\ v.dir = w.dir /\ FileNow(u) = f
    BY <1>4, <2>1 DEF Retasked, FileNow
  <2> QED
    BY <1>3, <1>4, <2>2 DEF TaskFits, Asks
<1>8. Holds(w, v)
  BY <1>1, <1>6, <1>7, RetaskHolds DEF Working
<1> QED
  BY <1>8 DEF v, n


\* A sync turns to the model m.
TakeUp(x, s, m) == [x EXCEPT !.loading = m, !.task[s].m = m, !.task[s].src = "mirror"]

LEMMA TakesUp ==
    ASSUME NEW x, WorldTyped(x), NEW s \in Session, x.task[s].pc = "head", NEW m \in Model
    PROVE  /\ WorldTyped(TakeUp(x, s, m)) /\ Smaller(x, TakeUp(x, s, m)) /\ TakeUp(x, s, m).dir = x.dir
           /\ TakeUp(x, s, m).task[s].pc # "off" /\ TakeUp(x, s, m).task[s].m \in Model
<1> DEFINE y == TakeUp(x, s, m)
           u == [x.task[s] EXCEPT !.m = m, !.src = "mirror"]
           new == [x.task EXCEPT ![s] = u]
<1>1. /\ x.task[s] \in SyncState /\ x \in Worlds /\ x.task \in [Session -> SyncState] /\ TaskTyped(x, s)
      /\ x.flight \in [Session -> BOOLEAN] /\ x.loading \in Model \cup {NoModel}
  BY DEF WorldTyped, Worlds, TaskTyped
<1>2. /\ u \in SyncState /\ u.pc = "head" /\ u.m = m /\ u.at = "none"
  BY <1>1 DEF SyncState, TaskTyped
<1>3. y = Rec(x.dir, new, x.flight, m)
  <2>1. PICK D, T, F, L : x \in Box(D, T, F, L)
    BY <1>1, Boxed
  <2>2. y \in Box(D, {y.task}, F, {m}) /\ y.dir = x.dir /\ y.flight = x.flight /\ y.loading = m
    BY <2>1 DEF Box, TakeUp
  <2>3. y.task = new
    <3> HIDE DEF SyncState
    <3> QED
      BY <1>1, <2>1 DEF Box, TakeUp
  <2> HIDE DEF y, new
  <2> QED
    BY <2>2, <2>3, InBox
<1> HIDE DEF y, u
<1>4. Retasks(x, y, s, u, x.flight, m)
  BY <1>1, <1>2, <1>3 DEF Retasks, TaskTyped, Working
<1>5. WorldTyped(y) /\ Smaller(x, y)
  BY <1>2, <1>4, Rests DEF Smaller
<1>6. y.dir = x.dir /\ y.task[s].pc # "off" /\ y.task[s].m \in Model
  BY <1>2, <1>4, Retask DEF Retasked
<1> QED
  BY <1>5, <1>6 DEF y

LEMMA TakeModelHolds ==
    ASSUME NEW w, WorldTyped(w), NEW s \in Session, w.task[s].pc = "head", NEW m \in Model
    PROVE  LET x == CheckReady(w, m)
           IN  /\ Holds(w, EndSync(x, s)) /\ Holds(w, Skip(x, s)) /\ Holds(w, Source(TakeUp(x, s, m), s))
<1> DEFINE x == CheckReady(w, m)
           y == TakeUp(x, s, m)
<1>1. Pared(w, x)
  BY CheckReadyLess
<1> HIDE DEF x
<1>2. WorldTyped(x) /\ Smaller(w, x) /\ x.task[s].pc = "head"
  BY <1>1 DEF Pared, Smaller, Stays
<1>3. Holds(w, EndSync(x, s))
  BY <1>2, EndSyncLess, LessTrans, SmallerHolds
<1>4. Holds(w, Skip(x, s))
  BY <1>2, SkipLess, LessTrans, SmallerHolds
<1>5. WorldTyped(y) /\ Smaller(x, y) /\ y.task[s].pc # "off" /\ y.task[s].m \in Model
  BY <1>2, TakesUp
<1> HIDE DEF y
<1>6. Holds(w, x) /\ Holds(x, y) /\ Holds(y, Source(y, s))
  BY <1>2, <1>5, SmallerHolds, SourceHolds
<1>7. Holds(w, Source(y, s))
  BY <1>6, HoldsTrans
<1> QED
  BY <1>3, <1>4, <1>7 DEF x, y

-----------------------------------------------------------------------------
(* The steps *)

LEMMA BecomesIs ==
    ASSUME NEW v, WorldTyped(v), Becomes(v)
    PROVE  World' = v
<1>1. v = Rec(v.dir, v.task, v.flight, v.loading)
  BY Fields DEF WorldTyped
<1>2. World' = Rec(dir', task', flight', loading')
  BY DEF World, Rec
<1> QED
  BY <1>1, <1>2 DEF Becomes

LEMMA WorldIs ==
    World.dir = dir /\ World.task = task /\ World.flight = flight /\ World.loading = loading
BY DEF World

\* What a step does to what is on disk and to the syncs.
Goes ==
    /\ WorldTyped(World')
    /\ \A m \in Model \ raced : Clean(World, m) => Clean(World', m)

LEMMA SyncGoes ==
    ASSUME Inv, NEW s \in Session, SyncStep(s) \/ SyncFault(s)
    PROVE  Goes /\ NoneStarts(World, World')
<1>1. WorldTyped(World) /\ TaskTyped(World, s) /\ task[s] \in SyncState
  <2>1. WorldTyped(World)
    BY DEF Inv, Typed
  <2> QED
    BY <2>1, WorldIs DEF WorldTyped, TaskTyped
<1>2. ASSUME NEW v, Becomes(v), Keeps(World, v, s), Working(task[s])
      PROVE  Goes /\ NoneStarts(World, World')
  <2>1. World' = v
    BY <1>2, BecomesIs DEF Keeps
  <2>2. task[s].m \notin raced => Alone(World, s)
    <3>1. task[s].m \in Model
      BY <1>1, <1>2, WorldIs DEF TaskTyped
    <3>2. task[s].m \notin Overlap => Alone(World, s)
      BY <1>2, <3>1, WorldIs DEF Overlap, Alone
    <3> QED
      BY <3>2 DEF Inv
  <2> QED
    BY <1>2, <2>1, <2>2, WorldIs DEF Goes, Keeps
<1>3. ASSUME NEW v, Becomes(v), Holds(World, v)
      PROVE  Goes /\ NoneStarts(World, World')
  <2>1. World' = v
    BY <1>3, BecomesIs DEF Holds
  <2> QED
    BY <1>3, <2>1 DEF Goes, Holds
<1>4. CASE TakeModel(s)
  <2>1. task[s].pc = "head" /\ World.task[s].pc = "head"
    BY <1>4, WorldIs DEF TakeModel
  <2>2. CASE Becomes(EndSync(World, s))
    <3>1. Holds(World, EndSync(World, s))
      BY <1>1, EndSyncLess, SmallerHolds
    <3> QED
      BY <1>3, <2>2, <3>1
  <2>3. CASE ~Becomes(EndSync(World, s))
    <3> DEFINE m == First(task[s].todo)
               x == CheckReady(World, m)
               y == TakeUp(x, s, m)
    <3>1. m \in Model
      <4>1. task[s].todo \in SUBSET Model
        BY <1>1 DEF SyncState
      <4>2. task[s].todo # {}
        BY <1>4, <2>3 DEF TakeModel
      <4> QED
        BY <4>1, <4>2, FirstIn
    <3> HIDE DEF m
    <3>2. Holds(World, Skip(x, s)) /\ Holds(World, Source(y, s))
      BY <1>1, <2>1, <3>1, TakeModelHolds
    <3>3. Becomes(Skip(x, s)) \/ Becomes(Source(y, s))
      BY <1>4, <2>3 DEF TakeModel, TakeUp, m
    <3> HIDE DEF x, y
    <3> QED
      BY <1>3, <3>2, <3>3
  <2> QED
    BY <2>2, <2>3
<1>5. CASE DiskFull(s)
  <2> DEFINE m == First(task[s].todo)
             x == CheckReady(World, m)
  <2>1. World.task[s].pc = "head" /\ task[s].todo # {} /\ Becomes(EndSync(x, s))
    BY <1>5, WorldIs DEF DiskFull
  <2>2. m \in Model
    <3>1. task[s].todo \in SUBSET Model
      BY <1>1 DEF SyncState
    <3> QED
      BY <2>1, <3>1, FirstIn
  <2> HIDE DEF m
  <2>3. Holds(World, EndSync(x, s))
    BY <1>1, <2>1, <2>2, TakeModelHolds
  <2> HIDE DEF x
  <2> QED
    BY <1>3, <2>1, <2>3
<1>6. CASE Request(s)
  <2> DEFINE v == [World EXCEPT !.task[s].pc = "answer",
                                !.task[s].asked = PartLen(World, task[s].m, FileNow(task[s]))]
  <2>1. World.task[s].pc = "ask" /\ Becomes(v)
    BY <1>6, WorldIs DEF Request
  <2>2. Holds(World, v)
    BY <1>1, <2>1, RequestHolds, WorldIs
  <2> HIDE DEF v
  <2> QED
    BY <1>3, <2>1, <2>2
<1>7. ASSUME task[s].pc = "answer" \/ task[s].pc = "stream", Becomes(FinalizeDownload(World, s))
      PROVE  Goes /\ NoneStarts(World, World')
  <2> DEFINE v == FinalizeDownload(World, s)
             x == Idle(World, s)
  <2>1. Working(task[s]) /\ Working(World.task[s])
    BY <1>7, WorldIs DEF Working
  <2>2. Keeps(x, v, s)
    BY <1>1, <2>1, FinalizeKeeps
  <2>3. Pared(World, x)
    BY <1>1, IdleLess DEF Closed
  <2> HIDE DEF x
  <2>4. Keeps(World, x, s) /\ SameWork(World, x)
    BY <1>1, <2>3, ParedKeeps
  <2>5. Keeps(World, v, s)
    BY <2>2, <2>4, KeepsKeeps
  <2> HIDE DEF v
  <2> QED
    BY <1>2, <1>7, <2>1, <2>5 DEF v
<1>8. ASSUME task[s].pc = "answer" \/ task[s].pc = "stream", NEW b \in BOOLEAN, Becomes(Fails(World, s, b))
      PROVE  Goes /\ NoneStarts(World, World')
  <2>1. Working(World.task[s])
    BY <1>8, WorldIs DEF Working
  <2>2. Holds(World, Fails(World, s, b))
    BY <1>1, <1>8, <2>1, FailsKeeps
  <2> QED
    BY <1>3, <1>8, <2>2
<1>9. CASE Answer(s)
  <2>1. CASE task[s].asked >= Blocks
    BY <1>7, <1>9, <2>1 DEF Answer
  <2>2. CASE ~(task[s].asked >= Blocks)
    <3> DEFINE b == task[s].asked > 0
    <3>1. task[s].pc = "answer" /\ Becomes(Opened(World, s, b))
      BY <1>9, <2>2 DEF Answer
    <3>2. World.task[s].pc = "answer" /\ World.task[s].asked < Blocks /\ Working(task[s])
      <4>1. task[s].asked \in Nat
        BY <1>1 DEF SyncState
      <4> QED
        BY <2>2, <3>1, <4>1, WorldIs, BlocksAssumption DEF Working
    <3>3. b \in BOOLEAN
      OBVIOUS
    <3> HIDE DEF b
    <3>4. Keeps(World, Opened(World, s, b), s)
      BY <1>1, <3>2, <3>3, OpenedKeeps
    <3> QED
      BY <1>2, <3>1, <3>2, <3>4
  <2> QED
    BY <2>1, <2>2
<1>10. CASE AnswerFault(s)
  <2> DEFINE x == RemoveParts(World, {<<task[s].m, FileNow(task[s])>>})
  <2>1. task[s].pc = "answer" /\ Working(task[s])
    BY <1>10 DEF AnswerFault, Working
  <2>2. CASE Becomes(Opened(x, s, FALSE))
    <3>1. Pared(World, x)
      BY <1>1, RemovePartsLess
    <3> HIDE DEF x
    <3>2. WorldTyped(x) /\ x.task[s].pc = "answer"
      BY <2>1, <3>1, WorldIs DEF Pared, Smaller, Stays
    <3>3. Keeps(x, Opened(x, s, FALSE), s)
      BY <3>2, OpenedKeeps
    <3>4. Keeps(World, x, s) /\ SameWork(World, x)
      BY <1>1, <3>1, ParedKeeps
    <3>5. Keeps(World, Opened(x, s, FALSE), s)
      BY <3>3, <3>4, KeepsKeeps
    <3> QED
      BY <1>2, <2>1, <2>2, <3>5
  <2>3. CASE \E b \in BOOLEAN : Becomes(Fails(World, s, b))
    BY <1>8, <2>1, <2>3
  <2> QED
    BY <1>10, <2>2, <2>3 DEF AnswerFault
<1>11. CASE Chunk(s)
  <2> DEFINE y == WriteBlock(World, s)
             v == IF World.task[s].next < Blocks THEN [y EXCEPT !.task[s].next = @ + 1] ELSE FinalizeDownload(y, s)
  <2>1. Becomes(v) /\ World.task[s].pc = "stream" /\ Working(task[s])
    BY <1>11, WorldIs DEF Chunk, Working
  <2>2. Keeps(World, v, s)
    BY <1>1, <2>1, ChunkKeeps
  <2> HIDE DEF v
  <2> QED
    BY <1>2, <2>1, <2>2
<1>12. CASE Cut(s)
  <2>1. task[s].pc = "stream"
    BY <1>12 DEF Cut
  <2>2. CASE Becomes(EndModel(World, s, "nospace"))
    <3>1. Holds(World, EndModel(World, s, "nospace"))
      BY <1>1, <2>1, EndModelLess, SmallerHolds, WorldIs
    <3> QED
      BY <1>3, <2>2, <3>1
  <2> QED
    BY <1>7, <1>8, <1>12, <2>1, <2>2 DEF Cut
<1> QED
  BY <1>4, <1>5, <1>6, <1>9, <1>10, <1>11, <1>12 DEF SyncStep, SyncFault

-----------------------------------------------------------------------------
(* The session's steps *)

LEMMA LessLess ==
    ASSUME NEW u, NEW v, NEW w, Less(u, v), Less(v, w)
    PROVE  Less(u, w)
BY DEF Less, Stays

\* A step that starts at most the sync of the session it leaves behind.
Begins(v) ==
    /\ WorldTyped(v) /\ Less(World, v) /\ StartsOnly(World, v, sess')
    /\ Becomes(v) /\ sess' \in {sess, sess + 1}

LEMMA Begun ==
    ASSUME Inv, NEW v, Begins(v)
    PROVE  Goes /\ Less(World, World') /\ \A s \in Session : Started(s)'
<1>1. /\ WorldTyped(v) /\ Less(World, v) /\ StartsOnly(World, v, sess')
      /\ Becomes(v) /\ sess' \in {sess, sess + 1}
  BY DEF Begins
<1>2. WorldTyped(World) /\ (\A s \in Session : Started(s)) /\ sess \in 0..MaxSessions
  BY DEF Inv, Typed
<1>3. World' = v
  BY <1>1, BecomesIs
<1>4. \A m \in Model \ raced : Clean(World, m) => Clean(v, m)
  BY <1>1, <1>2, LessClean
<1>5. Goes
  BY <1>1, <1>3, <1>4 DEF Goes
<1>6. ASSUME NEW s \in Session, task'[s].pc # "off"
      PROVE  s <= sess'
  <2>1. task' = v.task
    BY <1>1 DEF Becomes
  <2>2. CASE s = sess'
    BY <2>2 DEF Session
  <2>3. CASE s # sess'
    <3>1. World.task[s].pc # "off"
      BY <1>1, <1>6, <2>1, <2>3 DEF StartsOnly
    <3>2. task[s].pc # "off"
      BY <3>1, WorldIs
    <3>3. s <= sess
      BY <1>2, <3>2 DEF Started
    <3> QED
      BY <1>1, <1>2, <3>3 DEF Session
  <2> QED
    BY <2>2, <2>3
<1>7. \A s \in Session : Started(s)'
  BY <1>6 DEF Started
<1> QED
  BY <1>1, <1>3, <1>5, <1>7

LEMMA ParedBegins ==
    ASSUME NEW v, Pared(World, v), Becomes(v), sess' = sess
    PROVE  Begins(v)
BY DEF Begins, Pared, Smaller, NoneStarts, StartsOnly

\* A sync that starts in a world where files have gone.
LEMMA SyncBegins ==
    ASSUME NEW x, Pared(World, x), sess' \in Session, sess' \in {sess, sess + 1},
           NEW inv, NEW on \in SUBSET Model, Becomes(SyncModelWeights(x, sess', inv, on))
    PROVE  Begins(SyncModelWeights(x, sess', inv, on))
<1> DEFINE v == SyncModelWeights(x, sess', inv, on)
<1>1. WorldTyped(x) /\ Less(World, x) /\ NoneStarts(World, x)
  BY DEF Pared, Smaller
<1>2. WorldTyped(v) /\ Less(x, v) /\ StartsOnly(x, v, sess')
  BY <1>1, SyncModelWeightsLess
<1> HIDE DEF v
<1>3. Less(World, v)
  BY <1>1, <1>2, LessLess
<1>4. StartsOnly(World, v, sess')
  BY <1>1, <1>2 DEF StartsOnly, NoneStarts
<1>5. Becomes(v)
  BY DEF v
<1>6. Begins(v)
  BY <1>2, <1>3, <1>4, <1>5 DEF Begins
<1> QED
  BY <1>6 DEF v

LEMMA ReadyGoes ==
    ASSUME Inv, Ready
    PROVE  Goes /\ Less(World, World') /\ \A s \in Session : Started(s)'
<1>1. WorldTyped(World) /\ sess \in 0..MaxSessions /\ enabled \subseteq Model
  BY DEF Inv, Typed
<1> DEFINE x == ApplyPolicy(World, sess', enabled)
<1>2. sess < MaxSessions /\ sess' = sess + 1 /\ Becomes(SyncModelWeights(x, sess', inventory', enabled))
  BY DEF Ready
<1>3. sess' \in Session
  BY <1>1, <1>2, BoundsAssumption DEF Session
<1>4. Pared(World, x)
  BY <1>1, <1>3, ApplyPolicyLess
<1> HIDE DEF x
<1>5. Begins(SyncModelWeights(x, sess', inventory', enabled))
  BY <1>1, <1>2, <1>3, <1>4, SyncBegins
<1> QED
  BY <1>5, Begun

LEMMA HeartbeatSyncGoes ==
    ASSUME Inv, HeartbeatSync
    PROVE  Goes /\ Less(World, World') /\ \A s \in Session : Started(s)'
<1>1. WorldTyped(World) /\ sess \in 0..MaxSessions /\ (link => sess # 0) /\ enabled \subseteq Model
  BY DEF Inv, Typed
<1>2. link /\ sess' = sess /\ Becomes(SyncModelWeights(World, sess', inventory, enabled))
  BY DEF HeartbeatSync
<1>3. sess' \in Session
  BY <1>1, <1>2, BoundsAssumption DEF Session
<1>4. Pared(World, World)
  BY <1>1 DEF Pared, Smaller, Less, NoneStarts, Stays
<1>5. Begins(SyncModelWeights(World, sess', inventory, enabled))
  BY <1>1, <1>2, <1>3, <1>4, SyncBegins
<1> QED
  BY <1>5, Begun

LEMMA PongApplyGoes ==
    ASSUME Inv, PongApply
    PROVE  Goes /\ Less(World, World') /\ \A s \in Session : Started(s)'
<1>1. WorldTyped(World) /\ sess \in 0..MaxSessions /\ (waiting.on => sess # 0) /\ enabled \subseteq Model
  BY DEF Inv, Typed
<1> DEFINE x == DropDirs(World, waiting.purge)
<1>2. waiting.on /\ sess' = sess /\ Becomes(SyncModelWeights(x, sess', inventory, enabled))
  BY DEF PongApply
<1>3. sess' \in Session
  BY <1>1, <1>2, BoundsAssumption DEF Session
<1>4. Pared(World, x)
  BY <1>1, DropDirsLess
<1> HIDE DEF x
<1>5. Begins(SyncModelWeights(x, sess', inventory, enabled))
  BY <1>1, <1>2, <1>3, <1>4, SyncBegins
<1> QED
  BY <1>5, Begun

LEMMA PongGoes ==
    ASSUME Inv, NEW on, NEW purge, Pong(on, purge)
    PROVE  Goes /\ Less(World, World') /\ \A s \in Session : Started(s)'
<1>1. WorldTyped(World) /\ sess \in 0..MaxSessions /\ (link => sess # 0)
  BY DEF Inv, Typed
<1> DEFINE v == IF enabled # on THEN ApplyPolicy(World, sess, on) ELSE World
           u == IF Stops(purge) THEN CancelActive(v, sess) ELSE v
<1>2. link /\ sess' = sess /\ Becomes(u)
  BY DEF Pong
<1>3. sess \in Session
  BY <1>1, <1>2, BoundsAssumption DEF Session
<1>4. Pared(World, World)
  BY <1>1 DEF Pared, Smaller, Less, NoneStarts, Stays
<1>5. Pared(World, v)
  <2>1. Pared(World, ApplyPolicy(World, sess, on))
    BY <1>1, <1>3, ApplyPolicyLess
  <2> QED
    BY <1>4, <2>1
<1> HIDE DEF v
<1>6. Pared(World, u)
  <2>1. WorldTyped(v)
    BY <1>5 DEF Pared, Smaller
  <2>2. Pared(v, CancelActive(v, sess))
    BY <1>3, <2>1, CancelActiveLess
  <2>3. Pared(World, CancelActive(v, sess))
    BY <1>5, <2>2, ParedTrans
  <2> QED
    BY <1>5, <2>3
<1> HIDE DEF u
<1>7. Begins(u)
  BY <1>2, <1>6, ParedBegins
<1> QED
  BY <1>7, Begun

LEMMA FreeSpaceGoes ==
    ASSUME Inv, NEW more, FreeSpace(more)
    PROVE  Goes /\ Less(World, World') /\ \A s \in Session : Started(s)'
<1>1. WorldTyped(World)
  BY DEF Inv, Typed
<1> DEFINE M == {m \in Model : dir[m].here /\ ~WeightsReady(World, m)}
           x == PurgeFailed(World, M)
           v == DropDirs(x, more)
<1>2. sess' = sess /\ Becomes(v)
  BY DEF FreeSpace
<1>3. Pared(World, x)
  <2> HIDE DEF M
  <2> QED
    BY <1>1, PurgeLess
<1> HIDE DEF x
<1>4. WorldTyped(x)
  BY <1>3 DEF Pared, Smaller
<1>5. Pared(x, v)
  BY <1>4, DropDirsLess
<1> HIDE DEF v
<1>6. Pared(World, v)
  BY <1>3, <1>5, ParedTrans
<1>7. Begins(v)
  BY <1>2, <1>6, ParedBegins
<1> QED
  BY <1>7, Begun

LEMMA LoadFailsGoes ==
    ASSUME Inv, NEW m \in Model, LoadFails(m)
    PROVE  Goes /\ Less(World, World') /\ \A s \in Session : Started(s)'
<1>1. WorldTyped(World)
  BY DEF Inv, Typed
<1> DEFINE G == Paths({m})
           x == RemoveParts(World, G)
           y == RemoveFiles(x, G)
           v == SetCorrupt(y, {m}, TRUE)
<1>2. sess' = sess /\ Becomes(v) /\ WeightsReady(World, m)
  BY DEF LoadFails
<1>3. World.dir[m].here
  <2>1. DirTyped(World, m)
    BY <1>1 DEF WorldTyped
  <2> QED
    BY <1>2, <2>1 DEF DirTyped, Empty, WeightsReady
<1> HIDE DEF G
<1>4. Pared(World, x) /\ Partless(World, x, G)
  BY <1>1, RemovePartsLess
<1>5. x.dir[m].here
  BY <1>3, <1>4 DEF Partless
<1> HIDE DEF x
<1>6. WorldTyped(x)
  BY <1>4 DEF Pared, Smaller
<1>7. Pared(x, y) /\ Fileless(x, y, G)
  BY <1>6, RemoveFilesLess
<1>8. y.dir[m].here
  BY <1>5, <1>7 DEF Fileless
<1> HIDE DEF y
<1>9. WorldTyped(y)
  BY <1>7 DEF Pared, Smaller
<1>10. Pared(y, v)
  BY <1>8, <1>9, SetCorruptLess
<1> HIDE DEF v
<1>11. Pared(World, y)
  BY <1>4, <1>7, ParedTrans
<1>12. Pared(World, v)
  BY <1>10, <1>11, ParedTrans
<1>13. Begins(v)
  BY <1>2, <1>12, ParedBegins
<1> QED
  BY <1>13, Begun

LEMMA LoseGoes ==
    ASSUME Inv, Lose
    PROVE  Goes /\ Less(World, World') /\ \A s \in Session : Started(s)'
<1> DEFINE v == Rec(dir, task, flight, NoModel)
<1>1. WorldTyped(World)
  BY DEF Inv, Typed
<1>2. v.dir = World.dir /\ v.task = World.task /\ v.flight = World.flight /\ v.loading = NoModel
  BY WorldIs DEF Rec
<1>3. v \in Worlds
  <2>1. World \in Worlds
    BY <1>1 DEF WorldTyped
  <2>2. dir \in [Model -> Dirs] /\ task \in [Session -> SyncState] /\ flight \in [Session -> BOOLEAN]
    BY <2>1, WorldIs DEF Worlds
  <2> HIDE DEF Dirs, SyncState
  <2> QED
    BY <2>2 DEF Worlds, Rec
<1>4. sess' = sess /\ Becomes(v)
  BY <1>2, WorldIs DEF Lose, Becomes
<1> HIDE DEF v
<1>5. \A m \in Model : DirTyped(v, m)
  BY <1>1, <1>2 DEF WorldTyped, DirTyped
<1>6. \A s \in Session : TaskTyped(v, s)
  BY <1>1, <1>2 DEF WorldTyped, TaskTyped
<1>7. Pared(World, v)
  BY <1>2, <1>3, <1>5, <1>6 DEF WorldTyped, Pared, Smaller, Less, NoneStarts, Stays
<1>8. Begins(v)
  BY <1>4, <1>7, ParedBegins
<1> QED
  BY <1>8, Begun

LEMMA CrashGoes ==
    ASSUME Inv, Crash
    PROVE  Goes /\ Less(World, World') /\ \A s \in Session : Started(s)'
<1> DEFINE t == [s \in Session |-> Off]
           l == [s \in Session |-> FALSE]
           v == Rec(dir, t, l, loading)
<1>1. WorldTyped(World)
  BY DEF Inv, Typed
<1>2. v.dir = World.dir /\ v.task = t /\ v.flight = l /\ v.loading = loading
  BY WorldIs DEF Rec
<1>3. v \in Worlds
  <2>1. World \in Worlds
    BY <1>1 DEF WorldTyped
  <2>2. dir \in [Model -> Dirs] /\ loading \in Model \cup {NoModel}
    BY <2>1, WorldIs DEF Worlds
  <2> HIDE DEF Dirs, SyncState
  <2>3. t \in [Session -> SyncState] /\ l \in [Session -> BOOLEAN]
    BY OffTyped
  <2> HIDE DEF t, l
  <2> QED
    BY <2>2, <2>3 DEF Worlds, Rec
<1>4. sess' = sess /\ Becomes(v)
  BY <1>2, WorldIs DEF Crash, Becomes
<1>5. \A s \in Session : v.task[s] = Off
  BY <1>2
<1> HIDE DEF v
<1>6. \A m \in Model : DirTyped(v, m)
  BY <1>1, <1>2 DEF WorldTyped, DirTyped
<1>7. \A s \in Session : TaskTyped(v, s)
  BY <1>5, OffTyped DEF TaskTyped, Working
<1>8. Less(World, v) /\ StartsOnly(World, v, sess')
  BY <1>2, <1>5, OffTyped DEF Less, StartsOnly
<1>9. Begins(v)
  BY <1>3, <1>4, <1>6, <1>7, <1>8 DEF Begins, WorldTyped
<1> QED
  BY <1>9, Begun

LEMMA HeartbeatScanGoes ==
    ASSUME Inv, HeartbeatScan
    PROVE  Goes /\ Less(World, World') /\ \A s \in Session : Started(s)'
<1>1. WorldTyped(World)
  BY DEF Inv, Typed
<1>2. sess' = sess /\ Becomes(World)
  BY WorldIs DEF HeartbeatScan, Becomes
<1>3. Pared(World, World)
  BY <1>1 DEF Pared, Smaller, Less, NoneStarts, Stays
<1>4. Begins(World)
  BY <1>2, <1>3, ParedBegins
<1> QED
  BY <1>4, Begun

LEMMA RunGoes ==
    ASSUME Inv, SyncRuns
    PROVE  Goes /\ \A s \in Session : Started(s)'
<1> PICK z \in Session : /\ SyncStep(z) \/ SyncFault(z)
                         /\ UNCHANGED <<sess, link, enabled, inventory, advertised, waiting>>
  BY DEF SyncRuns
<1>1. Goes /\ NoneStarts(World, World')
  BY SyncGoes
<1>2. \A s \in Session : Started(s)
  BY DEF Inv, Typed
<1>3. World'.task = task'
  BY DEF World
<1>4. ASSUME NEW s \in Session, task'[s].pc # "off"
      PROVE  s <= sess'
  <2>1. task[s].pc # "off"
    BY <1>1, <1>3, <1>4, WorldIs DEF NoneStarts
  <2> QED
    BY <1>2, <2>1 DEF Started
<1>5. \A s \in Session : Started(s)'
  BY <1>4 DEF Started
<1> QED
  BY <1>1, <1>5

LEMMA ActGoes ==
    ASSUME Inv, Act
    PROVE  Goes /\ \A s \in Session : Started(s)'
<1>1. CASE SyncRuns
  BY <1>1, RunGoes
<1>2. CASE Ready \/ Lose \/ Crash \/ HeartbeatSync \/ HeartbeatScan \/ PongApply
  BY <1>2, ReadyGoes, LoseGoes, CrashGoes, HeartbeatSyncGoes, HeartbeatScanGoes, PongApplyGoes
<1>3. CASE \E m \in Model : \E on \in {enabled \ {m}, enabled \cup {m}}, purge \in SUBSET {m} : Pong(on, purge)
  BY <1>3, PongGoes
<1>4. CASE \E m \in Model : LoadFails(m)
  BY <1>4, LoadFailsGoes
<1>5. CASE \E m \in Model : \E more \in SUBSET {m} : FreeSpace(more)
  BY <1>5, FreeSpaceGoes
<1> QED
  BY <1>1, <1>2, <1>3, <1>4, <1>5 DEF Act

\* The rest of the types.
Kept ==
    /\ sess \in 0..MaxSessions /\ (link => sess # 0)
    /\ enabled \subseteq Model /\ advertised \subseteq Model
    /\ waiting.on => sess # 0

LEMMA ActKept ==
    ASSUME Inv, Act
    PROVE  Kept'
<1>1. Kept
  BY DEF Inv, Typed, Kept
<1>2. CASE SyncRuns
  <2>1. UNCHANGED <<sess, link, enabled, inventory, advertised, waiting>>
    BY <1>2 DEF SyncRuns
  <2> QED
    BY <1>1, <2>1 DEF Kept
<1>3. CASE Ready
  <2>1. /\ sess < MaxSessions /\ sess' = sess + 1 /\ UNCHANGED <<enabled, waiting>>
        /\ advertised' \subseteq enabled
    BY <1>3 DEF Ready, RegisterModelIds
  <2>2. sess' \in 0..MaxSessions /\ sess' # 0
    BY <1>1, <2>1, BoundsAssumption DEF Kept
  <2> QED
    BY <1>1, <2>1, <2>2 DEF Kept
<1>4. CASE Lose
  BY <1>1, <1>4 DEF Kept, Lose
<1>5. CASE Crash
  BY <1>1, <1>5 DEF Kept, Crash, NoWait
<1>6. CASE HeartbeatSync
  BY <1>1, <1>6 DEF Kept, HeartbeatSync
<1>7. CASE HeartbeatScan
  <2>1. UNCHANGED <<sess, link, enabled, waiting>> /\ advertised' \subseteq enabled \cup advertised
    BY <1>7 DEF HeartbeatScan, Reregister, RegisterModelIds
  <2> QED
    BY <1>1, <2>1 DEF Kept
<1>8. CASE PongApply
  <2>1. UNCHANGED <<sess, link, enabled>> /\ waiting' = NoWait /\ advertised' \subseteq enabled \cup advertised
    BY <1>8 DEF PongApply, Reregister, RegisterModelIds
  <2> QED
    BY <1>1, <2>1 DEF Kept, NoWait
<1>9. ASSUME NEW m \in Model, NEW on \in {enabled \ {m}, enabled \cup {m}}, NEW purge, Pong(on, purge)
      PROVE  Kept'
  <2>1. link /\ enabled' = on /\ UNCHANGED <<sess, link, advertised>>
    BY <1>9 DEF Pong
  <2>2. enabled' \subseteq Model
    BY <1>1, <1>9, <2>1 DEF Kept
  <2> QED
    BY <1>1, <2>1, <2>2 DEF Kept
<1>10. ASSUME NEW m \in Model, LoadFails(m)
       PROVE  Kept'
  BY <1>1, <1>10 DEF Kept, LoadFails
<1>11. ASSUME NEW more, FreeSpace(more)
       PROVE  Kept'
  BY <1>1, <1>11 DEF Kept, FreeSpace
<1> QED
  BY <1>2, <1>3, <1>4, <1>5, <1>6, <1>7, <1>8, <1>9, <1>10, <1>11 DEF Act

LEMMA NextInv == Inv /\ [Next]_vars => Inv'
<1> SUFFICES ASSUME Inv, [Next]_vars
             PROVE  Inv'
  OBVIOUS
<1>1. CASE UNCHANGED vars
  <2>1. World' = World
    BY <1>1 DEF vars, World
  <2>2. Typed'
    BY <1>1, <2>1 DEF Inv, Typed, Started, vars
  <2>3. Cleanly'
    BY <1>1, <2>1 DEF Inv, Cleanly, vars
  <2>4. Overlap' = Overlap /\ raced' = raced
    BY <1>1 DEF vars, Overlap
  <2> QED
    BY <2>2, <2>3, <2>4 DEF Inv
<1>2. CASE Next
  <2>1. Act /\ raced' = raced \cup Overlap'
    BY <1>2 DEF Next
  <2>2. Goes /\ \A s \in Session : Started(s)'
    BY <2>1, ActGoes
  <2>3. Kept'
    BY <2>1, ActKept
  <2>4. raced' \subseteq Model
    BY <2>1 DEF Inv, Typed, Overlap
  <2>5. Typed'
    BY <2>2, <2>3, <2>4 DEF Typed, Goes, Kept
  <2>6. ASSUME NEW m \in Model \ raced'
        PROVE  Clean(World', m)
    BY <2>1, <2>2, <2>6 DEF Goes, Inv, Cleanly
  <2>7. Cleanly'
    BY <2>6 DEF Cleanly
  <2> QED
    BY <2>1, <2>5, <2>7 DEF Inv
<1> QED
  BY <1>1, <1>2

LEMMA InitInv == Init => Inv
<1> SUFFICES ASSUME Init
             PROVE  Inv
  OBVIOUS
<1> DEFINE t == [s \in Session |-> Off]
           l == [s \in Session |-> FALSE]
           d == [m \in Model |-> EmptyDir(m)]
           v == Rec(d, t, l, NoModel)
<1>1. World = v
  BY DEF Init, World, Rec
<1>2. v.dir = d /\ v.task = t /\ v.flight = l /\ v.loading = NoModel
  BY DEF Rec
<1>3. ASSUME NEW m \in Model
      PROVE  /\ EmptyDir(m) \in DirOf(m) /\ Empty(EmptyDir(m), m)
             /\ \A f \in Files(m) : Sound(EmptyDir(m).part[f]) /\ Sound(EmptyDir(m).file[f])
  <2>1. Absent \in Seq(Int) /\ Absent # <<>> /\ Absent[1] # 1
    BY DEF Absent
  <2>2. Sound(Absent)
    BY <2>1 DEF Sound, Headed
  <2> HIDE DEF Absent
  <2>3. EmptyDir(m) \in DirOf(m)
    BY <2>1 DEF EmptyDir, DirOf, Files
  <2>4. \A f \in Files(m) : EmptyDir(m).part[f] = Absent /\ EmptyDir(m).file[f] = Absent
    BY DEF EmptyDir, Files
  <2>5. EmptyDir(m).manifest = {} /\ ~EmptyDir(m).corrupt
    BY DEF EmptyDir
  <2> QED
    BY <2>2, <2>3, <2>4, <2>5 DEF Empty
<1>4. \A m \in Model : d[m] \in Dirs
  BY <1>3 DEF Dirs
<1>5. v \in Worlds
  <2> HIDE DEF Dirs, SyncState
  <2>1. d \in [Model -> Dirs] /\ t \in [Session -> SyncState] /\ l \in [Session -> BOOLEAN]
    BY <1>4, OffTyped
  <2> HIDE DEF d, t, l
  <2> QED
    BY <2>1 DEF Worlds, Rec
<1>6. (\A m \in Model : v.dir[m] = EmptyDir(m)) /\ \A s \in Session : v.task[s] = Off
  BY <1>2
<1>7. \A s \in Session : task[s] = Off
  BY DEF Init
<1> HIDE DEF v
<1>8. \A m \in Model : DirTyped(v, m)
  BY <1>3, <1>6 DEF DirTyped
<1>9. \A s \in Session : TaskTyped(v, s)
  BY <1>6, OffTyped DEF TaskTyped, Working
<1>10. WorldTyped(World)
  BY <1>1, <1>5, <1>8, <1>9 DEF WorldTyped
<1>11. \A s \in Session : Started(s)
  BY <1>7, OffTyped DEF Started
<1>12. Typed
  BY <1>10, <1>11, BoundsAssumption DEF Typed, Init, NoWait
<1>13. Overlap \subseteq raced
  BY <1>7, OffTyped DEF Overlap, Working
<1>14. ASSUME NEW m \in Model
       PROVE  Clean(v, m)
  <2>1. \A s \in Session : TaskFits(v, s)
    BY <1>6, OffTyped DEF TaskFits
  <2> QED
    BY <1>3, <1>6, <2>1 DEF Clean
<1> QED
  BY <1>1, <1>12, <1>13, <1>14 DEF Inv, Cleanly

LEMMA InvTypeOK == Inv => TypeOK
<1> SUFFICES ASSUME Inv
             PROVE  TypeOK
  OBVIOUS
<1>1. /\ WorldTyped(World) /\ \A s \in Session : Started(s)
      /\ enabled \subseteq Model /\ advertised \subseteq Model /\ raced \subseteq Model
  BY DEF Inv, Typed
<1>2. /\ World \in Worlds
      /\ \A m \in Model : DirTyped(World, m)
      /\ \A s \in Session : TaskTyped(World, s)
  BY <1>1 DEF WorldTyped
<1>3. ASSUME NEW m \in Model
      PROVE  /\ dir[m].here \in BOOLEAN /\ dir[m].corrupt \in BOOLEAN
             /\ dir[m].manifest \subseteq ToSet(FilesOf(m))
             /\ ~dir[m].here => dir[m] = EmptyDir(m)
  <2>1. dir[m] \in DirOf(m) /\ (~dir[m].here => Empty(dir[m], m))
    BY <1>2, WorldIs DEF DirTyped
  <2>2. /\ dir[m].here \in BOOLEAN /\ dir[m].corrupt \in BOOLEAN
        /\ dir[m].manifest \subseteq Files(m)
    BY <2>1 DEF DirOf
  <2>3. ASSUME ~dir[m].here
        PROVE  dir[m] = EmptyDir(m)
    <3> DEFINE x == dir[m]
               p == [f \in Files(m) |-> Absent]
               S == Seq(Int)
    <3>1. x \in [here : BOOLEAN, part : [Files(m) -> S], file : [Files(m) -> S],
                 manifest : SUBSET Files(m), corrupt : BOOLEAN]
      BY <2>1 DEF DirOf
    <3>2. x.manifest = {} /\ x.here = FALSE /\ x.corrupt = FALSE
      BY <2>1, <2>2, <2>3 DEF Empty
    <3>3. \A f \in Files(m) : x.part[f] = Absent /\ x.file[f] = Absent
      BY <2>1, <2>3 DEF Empty
    <3>4. EmptyDir(m) = [here |-> FALSE, part |-> p, file |-> p, manifest |-> {}, corrupt |-> FALSE]
      BY DEF EmptyDir, Files
    <3> HIDE DEF x, S, Absent, Files
    <3>5. x.part = p /\ x.file = p
      BY <3>1, <3>3
    <3> HIDE DEF p
    <3>6. x = [here |-> FALSE, part |-> p, file |-> p, manifest |-> {}, corrupt |-> FALSE]
      BY <3>1, <3>2, <3>5
    <3>7. x = EmptyDir(m)
      BY <3>4, <3>6
    <3> QED
      BY <3>7 DEF x
  <2> QED
    BY <2>2, <2>3 DEF Files
<1>4. ASSUME NEW s \in Session
      PROVE  /\ task[s].pc \in {"off", "head", "ask", "answer", "stream"}
             /\ Working(task[s]) => task[s].m \in Model
             /\ task[s].pc # "off" => flight[s] /\ s <= sess
  <2>1. /\ task[s] \in SyncState /\ (Working(task[s]) => task[s].m \in Model)
        /\ task[s].pc # "off" => flight[s]
    BY <1>2, WorldIs DEF TaskTyped
  <2>2. task[s].pc # "off" => s <= sess
    BY <1>1 DEF Started
  <2>3. task[s].pc \in {"off", "head", "ask", "answer", "stream"}
    BY <2>1 DEF SyncState
  <2> QED
    BY <2>1, <2>2, <2>3
<1>5. loading \in Model \cup {NoModel}
  BY <1>2, WorldIs DEF Worlds
<1> QED
  BY <1>1, <1>3, <1>4, <1>5 DEF TypeOK

LEMMA InvOnlyRacesCorrupt == Inv => OnlyRacesCorrupt
<1> SUFFICES ASSUME Inv, NEW m \in Model \ raced, NEW f \in ToSet(FilesOf(m)), Complete(World, m, f)
             PROVE  dir[m].file[f] = Whole
  BY DEF OnlyRacesCorrupt
<1> DEFINE c == dir[m].file[f]
<1>1. c \in Seq(Int)
  <2>1. DirTyped(World, m)
    BY DEF Inv, Typed, WorldTyped
  <2> QED
    BY <2>1, WorldIs DEF DirTyped, DirOf, Files
<1>2. Sound(c)
  BY WorldIs DEF Inv, Cleanly, Clean, Files
<1>3. Len(c) >= Blocks /\ c[1] = 1
  BY WorldIs DEF Complete, InBounds
<1> HIDE DEF c
<1>4. Len(c) \in Nat /\ c = [i \in 1..Len(c) |-> c[i]]
  BY <1>1
<1>5. c # <<>>
  BY <1>3, BlocksAssumption
<1>6. Len(c) = Blocks /\ \A i \in 1..Blocks : c[i] = i
  BY <1>2, <1>3, <1>4, <1>5, BlocksAssumption DEF Sound, Headed
<1>7. c = Whole
  BY <1>4, <1>6 DEF Whole
<1> QED
  BY <1>7 DEF c

-----------------------------------------------------------------------------
(* Weights that are ready stay so *)

\* Where the syncs of Z work on m, the file is still to come.
Gaps(w, m, Z) ==
    \A z \in Z : /\ Working(w.task[z])
                 /\ w.task[z].m = m
                 => w.dir[m].file[FileNow(w.task[z])] = Absent
AllGaps(w, m)    == Gaps(w, m, Session)
OtherGaps(w, m, s) == Gaps(w, m, Session \ {s})

\* What was ready still is.
Spares(w, v) == \A m \in Model : WeightsReady(w, m) => WeightsReady(v, m)

LEMMA SparesTrans ==
    ASSUME NEW u, NEW v, NEW w, Spares(u, v), Spares(v, w)
    PROVE  Spares(u, w)
BY DEF Spares

LEMMA SparesSame ==
    ASSUME NEW w, NEW v, v.dir = w.dir
    PROVE  Spares(w, v)
BY DEF Spares, WeightsReady, Complete

\* Files that go leave a gap.
LEMMA LessGaps ==
    ASSUME NEW w, NEW v, WorldTyped(w), Less(w, v), NEW m \in Model, NEW Z \in SUBSET Session, Gaps(w, m, Z)
    PROVE  Gaps(v, m, Z)
<1> SUFFICES ASSUME NEW z \in Z, Working(v.task[z]), v.task[z].m = m
             PROVE  v.dir[m].file[FileNow(v.task[z])] = Absent
  BY DEF Gaps
<1>1. Stays(w.task[z], v.task[z])
  BY DEF Less, Working
<1>2. Working(w.task[z]) /\ w.task[z].m = m /\ FileNow(v.task[z]) = FileNow(w.task[z])
  BY <1>1 DEF Stays, Working, FileNow
<1>3. FileNow(w.task[z]) \in Files(m)
  <2>1. TaskTyped(w, z)
    BY DEF WorldTyped
  <2> QED
    BY <1>2, <2>1, FileAt DEF TaskTyped, FileNow
<1>4. w.dir[m].file[FileNow(w.task[z])] = Absent
  BY <1>2 DEF Gaps
<1> QED
  BY <1>2, <1>3, <1>4 DEF Less

\* A sync at rest has none to keep.
LEMMA RestGaps ==
    ASSUME NEW w, NEW m, NEW s, w.task[s].pc \in {"off", "head"}, OtherGaps(w, m, s)
    PROVE  AllGaps(w, m)
BY DEF OtherGaps, AllGaps, Gaps, Working

\* Parts are not in the manifest.
LEMMA RemovePartsSpares ==
    ASSUME NEW w, WorldTyped(w), NEW G
    PROVE  /\ Spares(w, RemoveParts(w, G))
           /\ \A m \in Model : \A f : ManifestFile(RemoveParts(w, G), m, f) <=> ManifestFile(w, m, f)
<1> DEFINE v == RemoveParts(w, G)
<1>1. Partless(w, v, G)
  BY RemovePartsLess
<1> HIDE DEF v
<1>2. \A m \in Model : /\ v.dir[m].file = w.dir[m].file
                       /\ v.dir[m].manifest = w.dir[m].manifest /\ v.dir[m].corrupt = w.dir[m].corrupt
  BY <1>1 DEF Partless
<1>3. \A m \in Model : \A f : Complete(v, m, f) <=> Complete(w, m, f)
  BY <1>2 DEF Complete
<1> QED
  BY <1>2, <1>3 DEF Spares, WeightsReady, ManifestFile, v

LEMMA RemoveFilesSpares ==
    ASSUME NEW w, WorldTyped(w), NEW G, NEW m \in Model, WeightsReady(w, m),
           \A f \in Files(m) : <<m, f>> \in G => ~ManifestFile(w, m, f)
    PROVE  WeightsReady(RemoveFiles(w, G), m)
<1> DEFINE v == RemoveFiles(w, G)
<1>1. Fileless(w, v, G)
  BY RemoveFilesLess
<1> HIDE DEF v
<1>2. /\ v.dir[m].manifest = w.dir[m].manifest /\ v.dir[m].corrupt = w.dir[m].corrupt
      /\ \A f \in Files(m) : v.dir[m].file[f] = IF <<m, f>> \in G THEN Absent ELSE w.dir[m].file[f]
  BY <1>1 DEF Fileless
<1>3. w.dir[m].manifest \subseteq Files(m)
  BY DEF WorldTyped, DirTyped, DirOf
<1>4. ASSUME NEW f \in w.dir[m].manifest
      PROVE  Complete(v, m, f)
  <2>1. Complete(w, m, f) /\ ManifestFile(w, m, f) /\ f \in Files(m)
    BY <1>3, <1>4 DEF WeightsReady, ManifestFile
  <2> QED
    BY <1>2, <2>1 DEF Complete
<1> QED
  BY <1>2, <1>4 DEF WeightsReady, v

LEMMA SetCorruptSpares ==
    ASSUME NEW w, WorldTyped(w), NEW M
    PROVE  Spares(w, SetCorrupt(w, M, FALSE))
<1> DEFINE v == SetCorrupt(w, M, FALSE)
           d == [m \in Model |-> IF m \in M THEN [w.dir[m] EXCEPT !.corrupt = FALSE] ELSE w.dir[m]]
<1>1. v.dir = d
  <2>1. PICK D, T, F, L : w \in Box(D, T, F, L)
    BY Boxed DEF WorldTyped
  <2>2. v = [w EXCEPT !.dir = d]
    BY DEF SetCorrupt
  <2> HIDE DEF v, d
  <2> QED
    BY <2>1, <2>2 DEF Box
<1>2. ASSUME NEW m \in Model, WeightsReady(w, m)
      PROVE  WeightsReady(v, m)
  <2>1. w.dir[m] \in DirOf(m)
    BY DEF WorldTyped, DirTyped
  <2>2. d[m] = w.dir[m] \/ d[m] = [w.dir[m] EXCEPT !.corrupt = FALSE]
    BY <1>2
  <2> HIDE DEF d
  <2>3. d[m].file = w.dir[m].file /\ d[m].manifest = w.dir[m].manifest /\ ~d[m].corrupt
    BY <1>2, <2>1, <2>2 DEF DirOf, WeightsReady
  <2> HIDE DEF v
  <2> QED
    BY <1>1, <1>2, <2>3 DEF WeightsReady, Complete
<1> QED
  BY <1>2 DEF Spares

LEMMA DropDirsSpares ==
    ASSUME NEW w, WorldTyped(w), NEW M, NEW m \in Model, m \notin M, WeightsReady(w, m)
    PROVE  WeightsReady(DropDirs(w, M), m)
<1> DEFINE v == DropDirs(w, M)
           d == [n \in Model |-> IF n \in M THEN EmptyDir(n) ELSE w.dir[n]]
           t == [s \in Session |-> IF w.task[s].m \in M /\ w.task[s].at # "none"
                                   THEN [w.task[s] EXCEPT !.at = "lost"] ELSE w.task[s]]
<1>1. v.dir = d
  <2>1. PICK D, T, F, L : w \in Box(D, T, F, L)
    BY Boxed DEF WorldTyped
  <2>2. v = [w EXCEPT !.dir = d, !.task = t]
    BY DEF DropDirs
  <2> HIDE DEF v, d, t
  <2> QED
    BY <2>1, <2>2 DEF Box
<1>2. d[m] = w.dir[m]
  OBVIOUS
<1> HIDE DEF d, v
<1>3. WeightsReady(v, m)
  BY <1>1, <1>2 DEF WeightsReady, Complete
<1> QED
  BY <1>3 DEF v

\* Neither purge touches weights that are ready.
LEMMA PurgeSpares ==
    ASSUME NEW w, WorldTyped(w), NEW M
    PROVE  Spares(w, PurgeIncomplete(w, M)) /\ Spares(w, PurgeFailed(w, M))
<1> DEFINE scraps == {p \in Paths(M) : ~ManifestFile(w, p[1], p[2])}
           x == RemoveParts(w, Paths(M))
           y == RemoveFiles(x, scraps)
           z == PurgeIncomplete(w, M)
           gone == {m \in M : ~WeightsReady(z, m)}
<1>1. \A m, f : <<m, f>> \in scraps => ~ManifestFile(w, m, f)
  OBVIOUS
<1>2. z = SetCorrupt(y, M, FALSE) /\ PurgeFailed(w, M) = DropDirs(z, gone)
  BY DEF PurgeIncomplete, PurgeFailed
<1>3. \A m \in gone : ~WeightsReady(z, m)
  OBVIOUS
<1> HIDE DEF scraps, gone
<1>4. WorldTyped(x) /\ Spares(w, x) /\ \A m \in Model : \A f : ManifestFile(x, m, f) <=> ManifestFile(w, m, f)
  BY RemovePartsLess, RemovePartsSpares DEF Pared, Smaller
<1> HIDE DEF x
<1>5. Spares(x, y)
  <2> SUFFICES ASSUME NEW m \in Model, WeightsReady(x, m)
               PROVE  WeightsReady(y, m)
    BY DEF Spares
  <2>1. \A f \in Files(m) : <<m, f>> \in scraps => ~ManifestFile(x, m, f)
    BY <1>1, <1>4
  <2> QED
    BY <1>4, <2>1, RemoveFilesSpares
<1>6. WorldTyped(y)
  BY <1>4, RemoveFilesLess DEF Pared, Smaller
<1> HIDE DEF y, z
<1>7. Spares(y, z)
  BY <1>2, <1>6, SetCorruptSpares
<1>8. Spares(w, z)
  BY <1>4, <1>5, <1>7, SparesTrans
<1>9. WorldTyped(z)
  BY PurgeLess DEF Pared, Smaller, z
<1>10. Spares(z, DropDirs(z, gone))
  BY <1>3, <1>9, DropDirsSpares DEF Spares
<1>11. Spares(w, PurgeFailed(w, M))
  BY <1>2, <1>8, <1>10, SparesTrans
<1> QED
  BY <1>8, <1>11 DEF z

\* A sync that ends, or takes its next model, leaves the disk alone.
LEMMA EndSyncIs ==
    ASSUME NEW w, WorldTyped(w), NEW s \in Session
    PROVE  EndSync(w, s).dir = w.dir /\ EndSync(w, s).task[s].pc = "off"
<1> DEFINE t == [w.task EXCEPT ![s] = Off]
           v == EndSync(w, s)
<1>1. PICK D, T, F, L : w \in Box(D, T, F, L)
  BY Boxed DEF WorldTyped
<1>2. v.dir = w.dir /\ v.task = t
  BY <1>1 DEF Box, EndSync
<1>3. t[s] = Off
  BY DEF WorldTyped, Worlds
<1> HIDE DEF v, t
<1> QED
  BY <1>2, <1>3, OffTyped DEF v

LEMMA NextModelIs ==
    ASSUME NEW w, WorldTyped(w), NEW s \in Session
    PROVE  NextModel(w, s).dir = w.dir /\ NextModel(w, s).task[s].pc = "head"
<1> DEFINE c == w.task[s].canceled
           x == w.task[s].todo \ {First(w.task[s].todo)}
           u == [Off EXCEPT !.pc = "head", !.todo = x, !.canceled = c]
           t == [w.task EXCEPT ![s] = u]
           v == NextModel(w, s)
<1>1. PICK D, T, F, L : w \in Box(D, T, F, L)
  BY Boxed DEF WorldTyped
<1>2. v = [w EXCEPT !.loading = NoModel, !.task[s] = u]
  BY DEF NextModel
<1> HIDE DEF c, x
<1>3. u.pc = "head"
  BY DEF Off
<1> HIDE DEF u, v
<1>4. v.dir = w.dir /\ v.task = t
  BY <1>1, <1>2 DEF Box
<1>5. t[s] = u
  BY DEF WorldTyped, Worlds
<1> HIDE DEF t
<1> QED
  BY <1>3, <1>4, <1>5 DEF v

LEMMA SkipIs ==
    ASSUME NEW w, WorldTyped(w), NEW s \in Session
    PROVE  Skip(w, s).dir = w.dir
<1>1. PICK D, T, F, L : w \in Box(D, T, F, L)
  BY Boxed DEF WorldTyped
<1> QED
  BY <1>1 DEF Box, Skip

LEMMA EndModelSpares ==
    ASSUME NEW w, WorldTyped(w), NEW s \in Session,
           NEW result \in {"ok", "retry", "failed", "nospace"}
    PROVE  Spares(w, EndModel(w, s, result)) /\ EndModel(w, s, result).task[s].pc \in {"off", "head"}
<1> DEFINE p == PurgeIncomplete(w, {w.task[s].m})
           q == PurgeFailed(w, {w.task[s].m})
<1>1. /\ Spares(w, p) /\ Spares(w, q) /\ WorldTyped(p) /\ WorldTyped(q)
  BY PurgeLess, PurgeSpares DEF Pared, Smaller
<1> HIDE DEF p, q
<1>2. ASSUME NEW x \in {p, q, w}
      PROVE  /\ Spares(w, EndSync(x, s)) /\ EndSync(x, s).task[s].pc = "off"
             /\ Spares(w, NextModel(x, s)) /\ NextModel(x, s).task[s].pc = "head"
  <2>1. Spares(w, x) /\ WorldTyped(x)
    BY <1>1, SparesSame
  <2>2. Spares(x, EndSync(x, s)) /\ Spares(x, NextModel(x, s))
    BY <2>1, EndSyncIs, NextModelIs, SparesSame
  <2> QED
    BY <2>1, <2>2, EndSyncIs, NextModelIs, SparesTrans
<1>3. EndModel(w, s, result) \in {EndSync(p, s), EndSync(q, s), NextModel(w, s), NextModel(q, s)}
  BY DEF EndModel, p, q
<1> QED
  BY <1>2, <1>3

\* After it, no sync but the others can have a gap to keep.
LEMMA EndModelGaps ==
    ASSUME NEW w, WorldTyped(w), NEW s \in Session, w.task[s].pc # "off",
           NEW result \in {"ok", "retry", "failed", "nospace"}, NEW m \in Model, OtherGaps(w, m, s)
    PROVE  AllGaps(EndModel(w, s, result), m)
<1> DEFINE v == EndModel(w, s, result)
<1>1. Less(w, v)
  BY EndModelLess DEF Smaller
<1>2. v.task[s].pc \in {"off", "head"}
  BY EndModelSpares
<1> HIDE DEF v
<1>3. OtherGaps(v, m, s)
  BY <1>1, LessGaps DEF OtherGaps
<1>4. AllGaps(v, m)
  BY <1>2, <1>3, RestGaps
<1> QED
  BY <1>4 DEF v

LEMMA CheckReadySpares ==
    ASSUME NEW w, WorldTyped(w), NEW m \in Model
    PROVE  Spares(w, CheckReady(w, m))
<1> DEFINE A == Adoptable(w, m)
           v == [w EXCEPT !.dir[m].manifest = A]
<1> HIDE DEF A
<1>1. PICK D, T, F, L : w \in Box(D, T, F, L)
  BY Boxed DEF WorldTyped
<1>2. v.dir = [w.dir EXCEPT ![m].manifest = A]
  BY <1>1 DEF Box
<1> HIDE DEF v
<1>3. w.dir \in [Model -> Dirs]
  BY DEF WorldTyped, Worlds
<1>4. \A n \in Model : n # m => v.dir[n] = w.dir[n]
  <2> HIDE DEF Dirs
  <2> QED
    BY <1>2, <1>3
<1>5. ~WeightsReady(w, m) => Spares(w, v)
  BY <1>4 DEF Spares, WeightsReady, Complete
<1>6. Spares(w, w)
  BY DEF Spares
<1> QED
  BY <1>5, <1>6 DEF CheckReady, A, v

\* The manifest of a download that is done.
Installed(w, m) ==
    [w EXCEPT !.dir[m].manifest = ToSet(FilesOf(m)), !.dir[m].corrupt = FALSE, !.dir[m].here = TRUE]

LEMMA InstalledIs ==
    ASSUME NEW w, WorldTyped(w), NEW m \in Model
    PROVE  /\ \A n \in Model : n # m => Installed(w, m).dir[n] = w.dir[n]
           /\ Installed(w, m).dir[m].manifest = Files(m) /\ ~Installed(w, m).dir[m].corrupt
           /\ Installed(w, m).dir[m].file = w.dir[m].file
<1> DEFINE x == Installed(w, m)
           A == ToSet(FilesOf(m))
           c == [w.dir[m] EXCEPT !.manifest = A, !.corrupt = FALSE, !.here = TRUE]
           d == [w.dir EXCEPT ![m] = c]
<1>1. PICK D, T, F, L : w \in Box(D, T, F, L)
  BY Boxed DEF WorldTyped
<1>2. w.dir \in [Model -> Dirs] /\ w.dir[m] \in DirOf(m) /\ A = Files(m)
  BY DEF WorldTyped, Worlds, DirTyped, Files
<1> HIDE DEF A
<1>3. x.dir = d
  <2> HIDE DEF Dirs
  <2> QED
    BY <1>1, <1>2 DEF Box, A, Installed
<1>4. c.manifest = A /\ ~c.corrupt /\ c.file = w.dir[m].file
  BY <1>2 DEF DirOf
<1> HIDE DEF c
<1>5. d[m] = c /\ \A n \in Model : n # m => d[n] = w.dir[n]
  <2> HIDE DEF Dirs
  <2> QED
    BY <1>2
<1> HIDE DEF d, x
<1> QED
  BY <1>2, <1>3, <1>4, <1>5 DEF x

\* Every file has its place in the list.
LEMMA FilePlace ==
    ASSUME NEW m \in Model, NEW f \in Files(m)
    PROVE  \E i \in 1..Len(FilesOf(m)) : f = FilesOf(m)[i]
<1>1. FilesOf(m) \in Seq(Files(m))
  BY CatalogAssumption DEF Files
<1> QED
  BY <1>1 DEF Files, ToSet

\* The manifest names all files: of ready weights those before the k-th are there.
Behind(w, m, k) == WeightsReady(w, m) => \A i \in 1..(k - 1) : Complete(w, m, FilesOf(m)[i])

LEMMA AdvanceSpares ==
    ASSUME NEW w, WorldTyped(w), NEW s \in Session, w.task[s].pc # "off", w.task[s].m \in Model,
           NEW k \in Nat \ {0}
    PROVE  /\ \A n \in Model : WeightsReady(w, n) /\ (w.task[s].m = n => Behind(w, n, k)) =>
                 WeightsReady(Advance(w, s, k), n)
           /\ \A n \in Model : OtherGaps(w, n, s) => AllGaps(Advance(w, s, k), n)
<1> DEFINE m == w.task[s].m
           v == Advance(w, s, k)
<1>0. FilesOf(m) \in Seq(Files(m)) /\ Len(FilesOf(m)) \in Nat /\ FilesOf(m) # <<>>
  BY CatalogAssumption DEF Files
<1>1. CASE Missing(w, m, k) = {}
  <2> DEFINE x == Installed(w, m)
  <2>1. Pared(w, x)
    BY InstalledLess DEF Installed
  <2>2. /\ \A n \in Model : n # m => x.dir[n] = w.dir[n]
        /\ x.dir[m].manifest = Files(m) /\ ~x.dir[m].corrupt /\ x.dir[m].file = w.dir[m].file
    BY InstalledIs
  <2>3. v = EndModel(x, s, "ok")
    BY <1>1 DEF Advance, Installed
  <2> HIDE DEF x, v
  <2>4. WorldTyped(x) /\ x.task[s].pc # "off" /\ Less(w, x)
    BY <2>1 DEF Pared, Smaller, Stays
  <2>5. ASSUME WeightsReady(w, m), Behind(w, m, k), NEW f \in Files(m)
        PROVE  Complete(w, m, f)
    <3>1. PICK i \in 1..Len(FilesOf(m)) : f = FilesOf(m)[i]
      BY <2>5, FilePlace
    <3>2. CASE i < k
      <4>1. i \in 1..(k - 1)
        BY <1>0, <3>2
      <4> QED
        BY <2>5, <3>1, <4>1 DEF Behind
    <3>3. CASE ~(i < k)
      <4>1. i \in k..Len(FilesOf(m))
        BY <1>0, <3>3
      <4> QED
        BY <1>1, <3>1, <4>1 DEF Missing, ManifestFile
    <3> QED
      BY <3>2, <3>3
  <2>6. Files(m) # {}
    <3>1. 1 \in 1..Len(FilesOf(m))
      BY <1>0
    <3> QED
      BY <3>1, FileAt
  <2>7. ASSUME NEW n \in Model, WeightsReady(w, n), m = n => Behind(w, n, k)
        PROVE  WeightsReady(x, n)
    <3>1. CASE n # m
      BY <2>2, <2>7, <3>1 DEF WeightsReady, Complete
    <3>2. CASE n = m
      <4> HIDE DEF m
      <4>1. \A f \in Files(m) : Complete(x, m, f)
        BY <2>2, <2>5, <2>7, <3>2 DEF Complete
      <4> QED
        BY <2>2, <2>6, <3>2, <4>1 DEF WeightsReady
    <3> QED
      BY <3>1, <3>2
  <2>8. Spares(x, v)
    BY <2>3, <2>4, EndModelSpares
  <2>9. ASSUME NEW n \in Model, OtherGaps(w, n, s)
        PROVE  AllGaps(v, n)
    <3>1. OtherGaps(x, n, s)
      BY <2>4, <2>9, LessGaps DEF OtherGaps
    <3> QED
      BY <2>3, <2>4, <3>1, EndModelGaps
  <2> QED
    BY <2>7, <2>8, <2>9 DEF v, Spares
<1>2. CASE Missing(w, m, k) # {}
  <2> DEFINE i == Min(Missing(w, m, k))
             f == FilesOf(m)[i]
             x == RemoveFiles(w, {<<m, f>>})
             a == PartLen(w, m, f)
             u == [x.task[s] EXCEPT !.k = i, !.attempt = 1, !.pc = "answer", !.asked = a, !.at = "none"]
  <2>1. i \in Nat /\ i \in Missing(w, m, k) /\ i \in 1..Len(FilesOf(m))
    <3>1. Missing(w, m, k) \subseteq k..Len(FilesOf(m))
      BY DEF Missing
    <3>2. Missing(w, m, k) \in SUBSET Nat
      BY <1>0, <3>1
    <3>3. i \in Missing(w, m, k)
      BY <1>2, <3>2, MinIn
    <3> QED
      BY <1>0, <3>1, <3>3
  <2> HIDE DEF i
  <2>2. f \in Files(m) /\ ~ManifestFile(w, m, f)
    BY <2>1, FileAt DEF Missing
  <2> HIDE DEF f, a
  <2>3. Pared(w, x) /\ Fileless(w, x, {<<m, f>>})
    BY RemoveFilesLess
  <2>4. Spares(w, x)
    <3>1. ASSUME NEW n \in Model, WeightsReady(w, n)
          PROVE  WeightsReady(x, n)
      <4>1. \A g \in Files(n) : <<n, g>> \in {<<m, f>>} => ~ManifestFile(w, n, g)
        BY <2>2
      <4> QED
        BY <3>1, <4>1, RemoveFilesSpares
    <3> QED
      BY <3>1 DEF Spares
  <2>5. v = [x EXCEPT !.dir[m].here = TRUE, !.task[s].k = i, !.task[s].attempt = 1,
                      !.task[s].pc = "answer", !.task[s].asked = a, !.task[s].at = "none"]
    BY <1>2 DEF Advance, i, f, a
  <2> HIDE DEF x, v
  <2>6. /\ WorldTyped(x) /\ Less(w, x) /\ x.task[s].m = m /\ x.dir[m] \in DirOf(m) /\ x.dir[m].file[f] = Absent
        /\ x.task[s] \in SyncState /\ x \in Worlds /\ x.dir \in [Model -> Dirs]
        /\ x.task \in [Session -> SyncState]
    BY <2>2, <2>3 DEF Pared, Smaller, Fileless, Stays, WorldTyped, DirTyped, TaskTyped, Worlds
  <2>7. u.m = m /\ u.k = i
    BY <2>6 DEF SyncState
  <2>8. PICK D, T, F, L : x \in Box(D, T, F, L)
    BY <2>6, Boxed
  <2>9. v.dir = [x.dir EXCEPT ![m] = [x.dir[m] EXCEPT !.here = TRUE]]
    <3> HIDE DEF Dirs
    <3> QED
      BY <2>5, <2>6, <2>8 DEF Box
  <2>10. v.task = [x.task EXCEPT ![s] = u]
    <3> HIDE DEF SyncState
    <3> QED
      BY <2>5, <2>6, <2>8 DEF Box
  <2> HIDE DEF u
  <2>11. /\ v.task[s] = u /\ \A z \in Session : z # s => v.task[z] = x.task[z]
    <3> HIDE DEF SyncState
    <3> QED
      BY <2>6, <2>10
  <2>12. \A n \in Model : /\ v.dir[n].file = x.dir[n].file /\ v.dir[n].manifest = x.dir[n].manifest
                          /\ v.dir[n].corrupt = x.dir[n].corrupt
    <3> DEFINE c == [x.dir[m] EXCEPT !.here = TRUE]
    <3>1. c.file = x.dir[m].file /\ c.manifest = x.dir[m].manifest /\ c.corrupt = x.dir[m].corrupt
      BY <2>6 DEF DirOf
    <3>2. v.dir[m] = c /\ \A n \in Model : n # m => v.dir[n] = x.dir[n]
      <4> HIDE DEF Dirs, c
      <4> QED
        BY <2>6, <2>9 DEF c
    <3> QED
      BY <3>1, <3>2
  <2>13. Spares(x, v)
    BY <2>12 DEF Spares, WeightsReady, Complete
  <2>14. ASSUME NEW n \in Model, OtherGaps(w, n, s)
         PROVE  AllGaps(v, n)
    <3>1. OtherGaps(x, n, s)
      BY <2>6, <2>14, LessGaps DEF OtherGaps
    <3> SUFFICES ASSUME NEW z \in Session, Working(v.task[z]), v.task[z].m = n
                 PROVE  v.dir[n].file[FileNow(v.task[z])] = Absent
      BY DEF AllGaps, Gaps
    <3>2. CASE z = s
      <4>1. FileNow(v.task[z]) = f /\ n = m
        BY <2>7, <2>11, <3>2 DEF FileNow, f
      <4> QED
        BY <2>6, <2>12, <4>1
    <3>3. CASE z # s
      BY <2>11, <2>12, <3>1, <3>3 DEF OtherGaps, Gaps
    <3> QED
      BY <3>2, <3>3
  <2>15. Spares(w, v)
    BY <2>4, <2>13, SparesTrans
  <2> QED
    BY <2>14, <2>15 DEF v, Spares
<1> QED
  BY <1>1, <1>2

LEMMA SourceSpares ==
    ASSUME NEW w, WorldTyped(w), NEW s \in Session, w.task[s].pc # "off", w.task[s].m \in Model
    PROVE  /\ Spares(w, Source(w, s))
           /\ \A n \in Model : OtherGaps(w, n, s) => AllGaps(Source(w, s), n)
<1>1. Spares(w, EndModel(w, s, "ok")) /\ \A n \in Model : OtherGaps(w, n, s) => AllGaps(EndModel(w, s, "ok"), n)
  BY EndModelSpares, EndModelGaps
<1>2. \A n \in Model : Behind(w, n, 1)
  BY DEF Behind
<1>3. Spares(w, Advance(w, s, 1)) /\ \A n \in Model : OtherGaps(w, n, s) => AllGaps(Advance(w, s, 1), n)
  BY <1>2, AdvanceSpares DEF Spares
<1> QED
  BY <1>1, <1>3 DEF Source

\* What is to come still is, and what was ready still is.
Firm(w, v) == Spares(w, v) /\ \A m \in Model : AllGaps(w, m) => AllGaps(v, m)

LEMMA FirmTrans ==
    ASSUME NEW u, NEW v, NEW w, Firm(u, v), Firm(v, w)
    PROVE  Firm(u, w)
BY DEF Firm, Spares

LEMMA LessFirm ==
    ASSUME NEW w, NEW v, WorldTyped(w), Less(w, v), Spares(w, v)
    PROVE  Firm(w, v)
BY LessGaps DEF Firm, AllGaps

\* The syncs are at what they were at.
SameSyncs(w, v) ==
    \A z \in Session : Working(v.task[z]) =>
        Working(w.task[z]) /\ v.task[z].m = w.task[z].m /\ v.task[z].k = w.task[z].k

\* No manifest and no file of the model changes, and no sync goes on to another.
Leaves(w, v, m) ==
    /\ v.dir[m].file = w.dir[m].file /\ v.dir[m].manifest = w.dir[m].manifest
    /\ v.dir[m].corrupt = w.dir[m].corrupt
    /\ SameSyncs(w, v)

LEMMA LeavesGaps ==
    ASSUME NEW w, NEW v, NEW m \in Model, Leaves(w, v, m)
    PROVE  /\ AllGaps(w, m) => AllGaps(v, m)
           /\ WeightsReady(w, m) => WeightsReady(v, m)
<1>1. WeightsReady(w, m) => WeightsReady(v, m)
  BY DEF Leaves, WeightsReady, Complete
<1>2. ASSUME AllGaps(w, m), NEW z \in Session, Working(v.task[z]), v.task[z].m = m
      PROVE  v.dir[m].file[FileNow(v.task[z])] = Absent
  <2>1. Working(w.task[z]) /\ w.task[z].m = m /\ FileNow(v.task[z]) = FileNow(w.task[z])
    BY <1>2 DEF Leaves, SameSyncs, FileNow
  <2> QED
    BY <1>2, <2>1 DEF AllGaps, Gaps, Leaves
<1>3. AllGaps(w, m) => AllGaps(v, m)
  BY <1>2 DEF AllGaps, Gaps
<1> QED
  BY <1>1, <1>3

Still(w, v) == \A m \in Model : Leaves(w, v, m)

LEMMA StillFirm ==
    ASSUME NEW w, NEW v, Still(w, v)
    PROVE  Firm(w, v)
BY LeavesGaps DEF Still, Firm, Spares

LEMMA FailsFirm ==
    ASSUME NEW w, WorldTyped(w), NEW s \in Session, Working(w.task[s]), NEW retryable \in BOOLEAN
    PROVE  Firm(w, Fails(w, s, retryable))
<1> DEFINE v == Idle(w, s)
           r == Fails(w, s, retryable)
           m == w.task[s].m
<1>1. Closed(w, v, s)
  BY IdleLess
<1>2. /\ WorldTyped(v) /\ v.task[s].m = m /\ Working(v.task[s]) /\ v.task[s].pc # "off" /\ Less(w, v)
  BY <1>1 DEF Closed, Pared, Smaller, Stays, Working
<1>3. /\ v \in Worlds /\ v.task[s] \in SyncState /\ m \in Model /\ v.task \in [Session -> SyncState]
  BY <1>2 DEF WorldTyped, TaskTyped, Worlds
<1>4. Firm(w, v)
  BY <1>1, <1>2, LessFirm, SparesSame DEF Closed
<1> HIDE DEF v
<1>5. CASE retryable /\ w.task[s].attempt < MaxAttempts
  <2> DEFINE n == v.task[s].attempt + 1
             u == [v.task[s] EXCEPT !.pc = "ask", !.attempt = n]
  <2>1. r = [v EXCEPT !.task[s].pc = "ask", !.task[s].attempt = @ + 1]
    BY <1>5 DEF Fails, v, Idle
  <2> HIDE DEF r
  <2>2. PICK D, T, F, L : v \in Box(D, T, F, L)
    BY <1>3, Boxed
  <2>3. r.dir = v.dir
    BY <2>1, <2>2 DEF Box
  <2>4. r.task = [v.task EXCEPT ![s] = u]
    <3> HIDE DEF SyncState
    <3> QED
      BY <1>3, <2>1, <2>2 DEF Box
  <2>5. u.m = m /\ u.k = v.task[s].k
    BY <1>2, <1>3 DEF SyncState
  <2> HIDE DEF u
  <2>6. r.task[s] = u /\ \A z \in Session : z # s => r.task[z] = v.task[z]
    <3> HIDE DEF SyncState
    <3> QED
      BY <1>3, <2>4
  <2>7. Still(v, r)
    BY <1>2, <2>3, <2>5, <2>6 DEF Still, Leaves, SameSyncs
  <2> QED
    BY <1>4, <2>7, StillFirm, FirmTrans DEF r
<1>6. CASE ~(retryable /\ w.task[s].attempt < MaxAttempts) /\ w.task[s].src = "mirror"
  <2> DEFINE q == RemoveParts(v, Paths({m}))
             u == [q.task[s] EXCEPT !.src = "hf"]
             y == [q EXCEPT !.task[s].src = "hf"]
  <2>1. Pared(v, q) /\ Spares(v, q)
    BY <1>2, RemovePartsLess, RemovePartsSpares
  <2> HIDE DEF q
  <2>2. r = Source(y, s)
    BY <1>6 DEF Fails, q, v, Idle
  <2> HIDE DEF r
  <2>3. /\ q \in Worlds /\ WorldTyped(q) /\ Less(v, q) /\ TaskTyped(q, s) /\ q.task[s] \in SyncState
        /\ q.task \in [Session -> SyncState]
        /\ q.flight \in [Session -> BOOLEAN] /\ q.loading \in Model \cup {NoModel}
        /\ q.task[s].m = m /\ q.task[s].pc # "off"
    BY <1>2, <2>1 DEF Pared, Smaller, Stays, WorldTyped, TaskTyped, Worlds
  <2>4. PICK D, T, F, L : q \in Box(D, T, F, L)
    BY <2>3, Boxed
  <2>5. /\ u \in SyncState /\ u.m = m /\ u.k = q.task[s].k /\ u.pc = q.task[s].pc /\ u.at = q.task[s].at
    BY <2>3 DEF SyncState
  <2>6. y.dir = q.dir /\ y.flight = q.flight /\ y.loading = q.loading /\ y \in Box(D, {y.task}, F, L)
    BY <2>4 DEF Box
  <2>7. y.task = [q.task EXCEPT ![s] = u]
    <3> HIDE DEF SyncState
    <3> QED
      BY <2>3, <2>4 DEF Box
  <2> HIDE DEF y, u
  <2>8. Retasks(q, y, s, u, q.flight, q.loading)
    <3>1. y = Rec(q.dir, [q.task EXCEPT ![s] = u], q.flight, q.loading)
      BY <2>6, <2>7, InBox
    <3> QED
      BY <2>3, <2>5, <3>1 DEF Retasks, TaskTyped, Working
  <2>9. Retasked(q, y, s, u, q.flight, q.loading)
    BY <2>8, Retask
  <2>10. WorldTyped(y) /\ y.task[s].pc # "off" /\ y.task[s].m \in Model /\ Still(q, y)
    BY <1>3, <2>3, <2>5, <2>9 DEF Retasked, Still, Leaves, SameSyncs, Working
  <2>11. Firm(y, r)
    BY <2>2, <2>10, SourceSpares DEF Firm, OtherGaps, AllGaps, Gaps
  <2>12. Firm(v, q)
    BY <1>2, <2>1, <2>3, LessFirm
  <2> QED
    BY <1>4, <2>10, <2>11, <2>12, StillFirm, FirmTrans DEF r
<1>7. CASE ~(retryable /\ w.task[s].attempt < MaxAttempts) /\ w.task[s].src # "mirror"
  <2>1. r = EndModel(v, s, "retry") \/ r = EndModel(v, s, "failed")
    BY <1>7 DEF Fails, v, Idle
  <2>2. Spares(v, r) /\ Less(v, r)
    BY <1>2, <2>1, EndModelSpares, EndModelLess DEF Smaller
  <2> QED
    BY <1>2, <1>4, <2>2, LessFirm, FirmTrans DEF r
<1> QED
  BY <1>5, <1>6, <1>7 DEF r

\* Of one model.
Hold(w, v, m) == AllGaps(w, m) => AllGaps(v, m) /\ (WeightsReady(w, m) => WeightsReady(v, m))

LEMMA LeavesHold ==
    ASSUME NEW w, NEW v, NEW m \in Model, Leaves(w, v, m)
    PROVE  Hold(w, v, m)
BY LeavesGaps DEF Hold

LEMMA FirmHold ==
    ASSUME NEW w, NEW v, Firm(w, v), NEW m \in Model
    PROVE  Hold(w, v, m)
BY DEF Firm, Spares, Hold

LEMMA HoldTrans ==
    ASSUME NEW u, NEW v, NEW w, NEW m, Hold(u, v, m), Hold(v, w, m)
    PROVE  Hold(u, w, m)
BY DEF Hold

\* No other sync is at work on the model of s, and the handle of s is not one
\* on the file itself.
Sole(w, s) == Alone(w, s) /\ w.task[s].at # "file"

\* The weights, and at most one companion (the projector of a vision model).
AtMostTwo == \A m \in Model : Len(FilesOf(m)) <= 2

LEMMA FinalizeHold ==
    ASSUME AtMostTwo, NEW w, WorldTyped(w), NEW s \in Session, Working(w.task[s]),
           NEW n \in Model, w.task[s].m = n => Alone(w, s)
    PROVE  Hold(Idle(w, s), FinalizeDownload(w, s), n)
<1> DEFINE v == Idle(w, s)
           m == w.task[s].m
           f == FileNow(w.task[s])
           k == w.task[s].k
           G == {<<m, f>>}
           r == RenamePart(v, m, f)
           q == RemoveFiles(r, G)
           e == FinalizeDownload(w, s)
<1>1. Closed(w, v, s)
  BY IdleLess
<1>2. /\ WorldTyped(v) /\ v.task[s].at = "none" /\ v.task[s].m = m /\ v.task[s].k = k
      /\ Working(v.task[s]) /\ f = FileNow(v.task[s])
      /\ \A z \in Session : Stays(w.task[z], v.task[z])
  BY <1>1 DEF Closed, Pared, Smaller, Stays, Working, FileNow
<1>3. k \in 1..Len(FilesOf(m)) /\ k \in Nat /\ m \in Model /\ v.task[s].pc # "off"
  <2>1. TaskTyped(v, s)
    BY <1>2 DEF WorldTyped
  <2> HIDE DEF v
  <2> QED
    BY <1>2, <2>1 DEF TaskTyped, SyncState, Working
<1>4. f \in Files(m) /\ f = FilesOf(m)[k]
  BY <1>3, FileAt DEF FileNow
<1>5. Keeps(v, r, s) /\ r.task[s] = v.task[s] /\ Renames(v, r, m, f)
  BY <1>2, RenameKeeps
<1>6. /\ e = Fails(RemoveParts(v, G), s, FALSE)
      \/ /\ e = Advance(r, s, k + 1) /\ InBounds(r.dir[m].file[f])
      \/ /\ e = Fails(q, s, TRUE)
  BY DEF FinalizeDownload, r, v, f, Idle
<1> HIDE DEF v, f, k, e
<1>7. ASSUME e = Fails(RemoveParts(v, G), s, FALSE)
      PROVE  Hold(v, e, n)
  <2> DEFINE x == RemoveParts(v, G)
  <2>1. Pared(v, x) /\ Spares(v, x)
    BY <1>2, RemovePartsLess, RemovePartsSpares
  <2> HIDE DEF x
  <2>2. WorldTyped(x) /\ Working(x.task[s]) /\ Less(v, x)
    BY <1>2, <2>1 DEF Pared, Smaller, Stays, Working
  <2>3. Firm(v, x) /\ Firm(x, Fails(x, s, FALSE))
    BY <1>2, <2>1, <2>2, LessFirm, FailsFirm
  <2> QED
    BY <1>7, <2>3, FirmTrans, FirmHold DEF x
<1> HIDE DEF r, m
<1>8. /\ WorldTyped(r) /\ r.task[s].m = m /\ r.task[s].pc # "off" /\ Working(r.task[s])
  BY <1>2, <1>3, <1>5 DEF Keeps
<1>9. ASSUME AllGaps(v, n)
      PROVE  /\ WeightsReady(v, n) => WeightsReady(r, n) /\ (n = m => f \notin r.dir[m].manifest)
             /\ OtherGaps(r, n, s) /\ AllGaps(q, n)
  <2>1. CASE n # m
    <3>1. r.dir[n] = v.dir[n]
      BY <1>5, <2>1 DEF Renames
    <3>2. WeightsReady(v, n) => WeightsReady(r, n)
      BY <3>1 DEF WeightsReady, Complete
    <3>3. AllGaps(r, n)
      BY <1>5, <1>9, <3>1 DEF Renames, AllGaps, Gaps, Working, FileNow
    <3>4. Less(r, q)
      BY <1>8, RemoveFilesLess DEF Pared, Smaller
    <3> HIDE DEF q
    <3>5. AllGaps(q, n)
      BY <1>8, <3>3, <3>4, LessGaps DEF AllGaps
    <3> QED
      BY <2>1, <3>2, <3>3, <3>5 DEF AllGaps, OtherGaps, Gaps
  <2>2. CASE n = m
    <3>1. \A z \in Session : z # s /\ Working(w.task[z]) => w.task[z].m # m
      BY <2>2 DEF Alone, m
    <3>2. \A z \in Session : z # s /\ Working(r.task[z]) => r.task[z].m # m
      BY <1>2, <1>5, <3>1 DEF Renames, Stays, Working
    <3>3. OtherGaps(r, n, s)
      BY <2>2, <3>2 DEF OtherGaps, Gaps
    <3>4. v.dir[m].file[f] = Absent
      BY <1>2, <1>9, <2>2 DEF AllGaps, Gaps
    <3>5. ~InBounds(v.dir[m].file[f])
      BY <3>4 DEF InBounds
    <3>6. ASSUME WeightsReady(v, m)
          PROVE  WeightsReady(r, m) /\ f \notin r.dir[m].manifest
      <4>1. r.dir[m].manifest = v.dir[m].manifest /\ r.dir[m].corrupt = v.dir[m].corrupt
        BY <1>5 DEF Renames
      <4>2. f \notin v.dir[m].manifest
        BY <3>5, <3>6 DEF WeightsReady, Complete
      <4>3. v.dir[m].manifest \subseteq Files(m)
        BY <1>2, <1>3 DEF WorldTyped, DirTyped, DirOf
      <4>4. \A g \in v.dir[m].manifest : r.dir[m].file[g] = v.dir[m].file[g]
        BY <1>5, <4>2, <4>3 DEF Renames
      <4> QED
        BY <3>6, <4>1, <4>2, <4>4 DEF WeightsReady, Complete
    <3>7. Pared(r, q) /\ Fileless(r, q, G)
      BY <1>8, RemoveFilesLess
    <3>8. q.dir[m].file[f] = Absent
      BY <1>3, <1>4, <3>7 DEF Fileless
    <3> HIDE DEF q
    <3>9. AllGaps(q, n)
      <4> SUFFICES ASSUME NEW z \in Session, Working(q.task[z]), q.task[z].m = m
                   PROVE  q.dir[m].file[FileNow(q.task[z])] = Absent
        BY <2>2 DEF AllGaps, Gaps
      <4>1. Stays(r.task[z], q.task[z])
        BY <3>7 DEF Pared
      <4>2. z = s
        BY <3>2, <4>1 DEF Stays, Working
      <4>3. FileNow(q.task[z]) = f
        BY <1>2, <1>5, <4>1, <4>2 DEF Stays, FileNow
      <4> QED
        BY <3>8, <4>3
    <3> QED
      BY <2>2, <3>3, <3>6, <3>9
  <2> QED
    BY <2>1, <2>2
<1>10. ASSUME e = Advance(r, s, k + 1), InBounds(r.dir[m].file[f])
       PROVE  Hold(v, e, n)
  <2>1. k + 1 \in Nat \ {0}
    BY <1>3
  <2>2. ASSUME AllGaps(v, n), WeightsReady(v, n), n = m
        PROVE  Behind(r, n, k + 1)
    <3>1. WeightsReady(r, m) /\ f \notin r.dir[m].manifest
      BY <1>9, <2>2
    <3>2. ASSUME NEW i \in 1..((k + 1) - 1)
          PROVE  Complete(r, m, FilesOf(m)[i])
      <4>1. CASE i = k
        BY <1>4, <1>10, <4>1 DEF Complete
      <4>2. CASE i # k
        <5>1. FilesOf(m) \in Seq(Files(m)) /\ Len(FilesOf(m)) \in Nat /\ Len(FilesOf(m)) <= 2
          BY <1>3, CatalogAssumption DEF Files, AtMostTwo
        <5>2. i = 1 /\ k = 2 /\ Len(FilesOf(m)) = 2
          <6> DEFINE L == Len(FilesOf(m))
          <6>1. k \in 1..L /\ k \in Nat /\ L \in Nat /\ L <= 2 /\ i # k /\ i \in 1..((k + 1) - 1)
            BY <1>3, <4>2, <5>1
          <6> HIDE DEF L
          <6>2. i = 1 /\ k = 2 /\ L = 2
            BY <6>1
          <6> QED
            BY <6>2 DEF L
        <5>3. r.dir[m].manifest \subseteq Files(m) /\ r.dir[m].manifest # {}
          BY <1>3, <1>8, <3>1 DEF WorldTyped, DirTyped, DirOf, WeightsReady
        <5>4. PICK g \in r.dir[m].manifest : g \in Files(m) /\ g # f
          BY <3>1, <5>3
        <5>5. PICK j \in 1..Len(FilesOf(m)) : g = FilesOf(m)[j]
          BY <1>3, <5>4, FilePlace
        <5>6. j = 1
          BY <1>4, <5>2, <5>4, <5>5
        <5> QED
          BY <3>1, <5>2, <5>4, <5>5, <5>6 DEF WeightsReady
      <4> QED
        BY <4>1, <4>2
    <3> QED
      BY <2>2, <3>2 DEF Behind
  <2>3. /\ WeightsReady(r, n) /\ (m = n => Behind(r, n, k + 1)) => WeightsReady(e, n)
        /\ OtherGaps(r, n, s) => AllGaps(e, n)
    BY <1>3, <1>8, <1>10, <2>1, AdvanceSpares
  <2> QED
    BY <1>9, <2>2, <2>3 DEF Hold
<1>11. ASSUME e = Fails(q, s, TRUE)
       PROVE  Hold(v, e, n)
  <2>1. Pared(r, q)
    BY <1>8, RemoveFilesLess
  <2>2. ASSUME AllGaps(v, n), WeightsReady(v, n)
        PROVE  WeightsReady(q, n)
    <3>1. WeightsReady(r, n) /\ (n = m => f \notin r.dir[m].manifest)
      BY <1>9, <2>2
    <3>2. \A g \in Files(n) : <<n, g>> \in G => ~ManifestFile(r, n, g)
      BY <3>1 DEF ManifestFile
    <3> HIDE DEF G
    <3> QED
      BY <1>8, <3>1, <3>2, RemoveFilesSpares
  <2>3. AllGaps(v, n) => AllGaps(q, n)
    BY <1>9
  <2> HIDE DEF q
  <2>4. Hold(v, q, n)
    BY <2>2, <2>3 DEF Hold
  <2>5. WorldTyped(q) /\ Working(q.task[s])
    BY <1>8, <2>1 DEF Pared, Smaller, Stays, Working
  <2>6. Hold(q, e, n)
    BY <1>11, <2>5, FailsFirm, FirmHold
  <2> QED
    BY <2>4, <2>6, HoldTrans
<1> QED
  BY <1>6, <1>7, <1>10, <1>11 DEF v, e

\* A sync that is replaced by itself at another point of the same file.
LEMMA StepsIn ==
    ASSUME NEW w, w.task \in [Session -> SyncState], NEW s \in Session, Working(w.task[s]),
           NEW u, u.m = w.task[s].m, u.k = w.task[s].k,
           NEW v, v.task = [w.task EXCEPT ![s] = u]
    PROVE  SameSyncs(w, v)
<1>1. v.task[s] = u /\ \A z \in Session : z # s => v.task[z] = w.task[z]
  <2> HIDE DEF SyncState
  <2> QED
    OBVIOUS
<1> QED
  BY <1>1 DEF SameSyncs

LEMMA RequestHold ==
    ASSUME NEW w, WorldTyped(w), NEW s \in Session, w.task[s].pc = "ask", NEW a, NEW n \in Model
    PROVE  Hold(w, [w EXCEPT !.task[s].pc = "answer", !.task[s].asked = a], n)
<1> DEFINE v == [w EXCEPT !.task[s].pc = "answer", !.task[s].asked = a]
           u == [w.task[s] EXCEPT !.pc = "answer", !.asked = a]
<1>1. PICK D, T, F, L : w \in Box(D, T, F, L)
  BY Boxed DEF WorldTyped
<1>2. w.task \in [Session -> SyncState] /\ w.task[s] \in SyncState /\ Working(w.task[s])
  BY DEF WorldTyped, Worlds, TaskTyped, Working
<1>3. v.dir = w.dir /\ v.task = [w.task EXCEPT ![s] = u]
  <2> HIDE DEF SyncState
  <2> QED
    BY <1>1, <1>2 DEF Box
<1>4. u.m = w.task[s].m /\ u.k = w.task[s].k
  BY <1>2 DEF SyncState
<1> HIDE DEF v, u
<1>5. SameSyncs(w, v)
  BY <1>2, <1>3, <1>4, StepsIn
<1>6. Hold(w, v, n)
  BY <1>3, <1>5, LeavesHold DEF Leaves
<1> QED
  BY <1>6 DEF v

\* A directory with its part replaced.
LEMMA PartOnly ==
    ASSUME NEW w, WorldTyped(w), NEW m \in Model, NEW p, NEW v,
           v.dir = [w.dir EXCEPT ![m] = [w.dir[m] EXCEPT !.part = p]], NEW n \in Model
    PROVE  /\ v.dir[n].file = w.dir[n].file /\ v.dir[n].manifest = w.dir[n].manifest
           /\ v.dir[n].corrupt = w.dir[n].corrupt
<1> DEFINE x == [w.dir[m] EXCEPT !.part = p]
<1>1. w.dir \in [Model -> Dirs] /\ w.dir[m] \in DirOf(m)
  BY DEF WorldTyped, Worlds, DirTyped
<1>2. x.file = w.dir[m].file /\ x.manifest = w.dir[m].manifest /\ x.corrupt = w.dir[m].corrupt
  BY <1>1 DEF DirOf
<1>3. v.dir = [w.dir EXCEPT ![m] = x]
  OBVIOUS
<1> HIDE DEF x
<1>4. v.dir[m] = x /\ (n # m => v.dir[n] = w.dir[n])
  <2> HIDE DEF Dirs
  <2> QED
    BY <1>1, <1>3
<1> QED
  BY <1>2, <1>4

LEMMA OpenedHold ==
    ASSUME NEW w, WorldTyped(w), NEW s \in Session, w.task[s].pc = "answer", NEW resume \in BOOLEAN, NEW n \in Model
    PROVE  Hold(w, Opened(w, s, resume), n)
<1> DEFINE t == w.task[s]
           m == t.m
           f == FileNow(t)
           v == Opened(w, s, resume)
<1>1. /\ Working(t) /\ t \in SyncState /\ m \in Model /\ w \in Worlds
      /\ w.dir \in [Model -> Dirs] /\ w.task \in [Session -> SyncState]
  BY DEF Working, WorldTyped, Worlds, TaskTyped
<1>2. CASE ~w.dir[m].here
  <2>1. v = Fails(w, s, FALSE)
    BY <1>2 DEF Opened
  <2> HIDE DEF v
  <2>2. Firm(w, v)
    BY <1>1, <2>1, FailsFirm
  <2> QED
    BY <2>2, FirmHold DEF v
<1>3. CASE w.dir[m].here
  <2> DEFINE old == w.dir[m].part[f]
             c == IF resume /\ old # Absent THEN old ELSE <<>>
             p == [w.dir[m].part EXCEPT ![f] = c]
             a == IF resume THEN t.asked + 1 ELSE 1
             u == [t EXCEPT !.pc = "stream", !.at = "part", !.append = resume, !.next = a]
  <2>1. v = [w EXCEPT !.dir[m].part[f] = c, !.task[s].pc = "stream", !.task[s].at = "part",
                      !.task[s].append = resume, !.task[s].next = a]
    BY <1>3 DEF Opened
  <2> HIDE DEF c, a, v
  <2>2. PICK D, T, F, L : w \in Box(D, T, F, L)
    BY <1>1, Boxed
  <2>3. v.dir = [w.dir EXCEPT ![m] = [w.dir[m] EXCEPT !.part = p]]
    <3>1. v.dir = [w.dir EXCEPT ![m].part[f] = c]
      BY <2>1, <2>2 DEF Box
    <3> DEFINE e == w.dir
    <3> HIDE DEF e, Dirs
    <3>2. [e EXCEPT ![m].part[f] = c] = [e EXCEPT ![m] = [e[m] EXCEPT !.part = [e[m].part EXCEPT ![f] = c]]]
      <4>1. e \in [Model -> Dirs]
        BY <1>1 DEF e
      <4> QED
        BY <1>1, <4>1
    <3> QED
      BY <3>1, <3>2 DEF e
  <2>4. v.task = [w.task EXCEPT ![s] = u]
    <3> HIDE DEF SyncState
    <3> QED
      BY <1>1, <2>1, <2>2 DEF Box
  <2>5. u.m = m /\ u.k = t.k
    BY <1>1 DEF SyncState
  <2> HIDE DEF u, p
  <2>6. SameSyncs(w, v)
    BY <1>1, <2>4, <2>5, StepsIn
  <2>7. Hold(w, v, n)
    BY <1>1, <2>3, <2>6, PartOnly, LeavesHold DEF Leaves
  <2> QED
    BY <2>7 DEF v
<1> QED
  BY <1>2, <1>3

\* Unless the handle is on the file itself, a block leaves the file alone.
LEMMA WriteLeaves ==
    ASSUME NEW w, WorldTyped(w), NEW s \in Session, Working(w.task[s]),
           NEW n \in Model, w.task[s].m = n => w.task[s].at # "file"
    PROVE  LET y == WriteBlock(w, s)
           IN  /\ y.dir[n].file = w.dir[n].file /\ y.dir[n].manifest = w.dir[n].manifest
               /\ y.dir[n].corrupt = w.dir[n].corrupt
<1> DEFINE y == WriteBlock(w, s)
           t == w.task[s]
           m == t.m
           f == FileNow(t)
<1>1. m \in Model /\ w \in Worlds /\ w.dir \in [Model -> Dirs]
  BY DEF WorldTyped, Worlds, TaskTyped
<1>2. CASE n # m
  <2>1. y.dir[n] = w.dir[n]
    BY <1>2, WriteBlockTyped DEF Wrote
  <2> QED
    BY <2>1
<1>3. CASE n = m /\ t.at = "part"
  <2> DEFINE c == Written(w.dir[m].part[f], t)
             p == [w.dir[m].part EXCEPT ![f] = c]
  <2>1. y = [w EXCEPT !.dir[m].part[f] = c]
    BY <1>3 DEF WriteBlock
  <2> HIDE DEF c, y
  <2>2. PICK D, T, F, L : w \in Box(D, T, F, L)
    BY <1>1, Boxed
  <2>3. y.dir = [w.dir EXCEPT ![m] = [w.dir[m] EXCEPT !.part = p]]
    <3>1. y.dir = [w.dir EXCEPT ![m].part[f] = c]
      BY <2>1, <2>2 DEF Box
    <3> DEFINE e == w.dir
    <3> HIDE DEF e, Dirs
    <3>2. [e EXCEPT ![m].part[f] = c] = [e EXCEPT ![m] = [e[m] EXCEPT !.part = [e[m].part EXCEPT ![f] = c]]]
      <4>1. e \in [Model -> Dirs]
        BY <1>1 DEF e
      <4> QED
        BY <1>1, <4>1
    <3> QED
      BY <3>1, <3>2 DEF e
  <2> HIDE DEF p
  <2>4. /\ y.dir[n].file = w.dir[n].file /\ y.dir[n].manifest = w.dir[n].manifest
        /\ y.dir[n].corrupt = w.dir[n].corrupt
    BY <1>1, <2>3, PartOnly
  <2> QED
    BY <2>4 DEF y
<1>4. CASE t.at # "part" /\ t.at # "file"
  BY <1>4 DEF WriteBlock
<1> QED
  BY <1>2, <1>3, <1>4

LEMMA ChunkHold ==
    ASSUME AtMostTwo, NEW w, WorldTyped(w), NEW s \in Session, w.task[s].pc = "stream",
           NEW n \in Model, w.task[s].m = n => Sole(w, s)
    PROVE  LET y == WriteBlock(w, s)
           IN  Hold(w, IF w.task[s].next < Blocks THEN [y EXCEPT !.task[s].next = @ + 1]
                       ELSE FinalizeDownload(y, s), n)
<1> DEFINE y == WriteBlock(w, s)
           t == w.task[s]
           v == [y EXCEPT !.task[s].next = @ + 1]
           x == Idle(y, s)
           e == FinalizeDownload(y, s)
<1>1. Working(t) /\ t \in SyncState
  BY DEF Working, WorldTyped, TaskTyped
<1>2. WorldTyped(y) /\ y.task = w.task
  BY <1>1, WriteBlockTyped DEF Wrote
<1>3. /\ y.dir[n].file = w.dir[n].file /\ y.dir[n].manifest = w.dir[n].manifest
      /\ y.dir[n].corrupt = w.dir[n].corrupt
  BY <1>1, WriteLeaves DEF Sole
<1> HIDE DEF y
<1>4. SameSyncs(w, y)
  BY <1>2 DEF SameSyncs
<1>5. Hold(w, y, n)
  BY <1>3, <1>4, LeavesHold DEF Leaves
<1>6. Hold(y, v, n)
  <2> DEFINE a == t.next + 1
             u == [t EXCEPT !.next = a]
  <2>1. PICK D, T, F, L : y \in Box(D, T, F, L)
    BY <1>2, Boxed DEF WorldTyped
  <2>2. y.task \in [Session -> SyncState] /\ y.task[s] = t /\ Working(y.task[s])
    BY <1>1, <1>2 DEF WorldTyped, Worlds
  <2>3. v.dir = y.dir
    BY <2>1 DEF Box
  <2>4. v.task = [y.task EXCEPT ![s] = u]
    <3> HIDE DEF SyncState, t
    <3> QED
      BY <2>1, <2>2 DEF Box
  <2>5. u.m = t.m /\ u.k = t.k
    BY <1>1 DEF SyncState
  <2> HIDE DEF u, v
  <2>6. SameSyncs(y, v)
    BY <2>2, <2>4, <2>5, StepsIn
  <2> QED
    BY <2>3, <2>6, LeavesHold DEF Leaves
<1>7. Hold(y, x, n)
  <2>1. Closed(y, x, s)
    BY <1>2, IdleLess
  <2> HIDE DEF x
  <2>2. Firm(y, x)
    BY <1>2, <2>1, LessFirm, SparesSame DEF Closed, Pared, Smaller
  <2> QED
    BY <2>2, FirmHold
<1>8. Hold(x, e, n)
  <2>1. y.task[s].m = n => Alone(y, s)
    BY <1>2 DEF Sole, Alone
  <2> QED
    BY <1>1, <1>2, <2>1, FinalizeHold
<1> HIDE DEF v, x, e
<1>9. Hold(w, v, n) /\ Hold(w, e, n)
  BY <1>5, <1>6, <1>7, <1>8, HoldTrans
<1> QED
  BY <1>9 DEF v, e, y

LEMMA TakeModelFirm ==
    ASSUME NEW w, WorldTyped(w), NEW s \in Session, w.task[s].pc = "head", NEW m \in Model
    PROVE  LET x == CheckReady(w, m)
           IN  /\ Firm(w, EndSync(w, s)) /\ Firm(w, EndSync(x, s)) /\ Firm(w, Skip(x, s))
               /\ Firm(w, Source(TakeUp(x, s, m), s))
<1> DEFINE x == CheckReady(w, m)
           y == TakeUp(x, s, m)
           e == Source(y, s)
<1>1. Pared(w, x) /\ Spares(w, x)
  BY CheckReadyLess, CheckReadySpares
<1> HIDE DEF x
<1>2. WorldTyped(x) /\ x.task[s].pc = "head" /\ Firm(w, x)
  BY <1>1, LessFirm DEF Pared, Smaller, Stays
<1>3. Firm(w, EndSync(w, s)) /\ Firm(x, EndSync(x, s))
  BY <1>2, EndSyncLess, EndSyncIs, SparesSame, LessFirm DEF Smaller
<1>4. Firm(x, Skip(x, s))
  BY <1>2, SkipLess, SkipIs, SparesSame, LessFirm DEF Smaller
<1>5. WorldTyped(y) /\ Smaller(x, y) /\ y.dir = x.dir /\ y.task[s].pc # "off" /\ y.task[s].m \in Model
  BY <1>2, TakesUp
<1> HIDE DEF y
<1>6. Firm(x, y)
  BY <1>2, <1>5, SparesSame, LessFirm DEF Smaller
<1>7. Firm(y, e)
  BY <1>5, SourceSpares DEF Firm, AllGaps, OtherGaps, Gaps
<1> HIDE DEF e
<1>8. Firm(w, e)
  BY <1>2, <1>6, <1>7, FirmTrans
<1> QED
  BY <1>2, <1>3, <1>4, <1>8, FirmTrans DEF x, y, e

-----------------------------------------------------------------------------
(* The steps, and what they do to weights that are ready *)

LEMMA BecomesHold ==
    ASSUME NEW w, NEW v, NEW n, Hold(w, v, n), Becomes(v)
    PROVE  Hold(w, World', n)
<1>1. World'.dir = v.dir /\ World'.task = v.task
  BY DEF World, Becomes
<1> QED
  BY <1>1 DEF Hold, AllGaps, Gaps, WeightsReady, Complete

LEMMA SyncHold ==
    ASSUME AtMostTwo, Inv, NEW s \in Session, SyncStep(s) \/ SyncFault(s), NEW n \in Model \ raced
    PROVE  Hold(World, World', n)
<1>1. WorldTyped(World) /\ task[s] \in SyncState /\ TaskTyped(World, s)
  <2>1. WorldTyped(World)
    BY DEF Inv, Typed
  <2> QED
    BY <2>1, WorldIs DEF WorldTyped, TaskTyped
<1>2. World.task[s].m = n /\ Working(World.task[s]) => Sole(World, s)
  <2> SUFFICES ASSUME World.task[s].m = n, Working(World.task[s])
               PROVE  Sole(World, s)
    OBVIOUS
  <2>1. n \notin Overlap
    BY DEF Inv
  <2>2. Alone(World, s)
    BY <2>1, WorldIs DEF Overlap, Alone
  <2>3. World.task[s].at # "file"
    BY DEF Inv, Cleanly, Clean, TaskFits
  <2> QED
    BY <2>2, <2>3 DEF Sole
<1>3. ASSUME NEW v, Becomes(v), Firm(World, v)
      PROVE  Hold(World, World', n)
  BY <1>3, FirmHold, BecomesHold
<1>4. CASE TakeModel(s)
  <2>1. task[s].pc = "head" /\ World.task[s].pc = "head"
    BY <1>4, WorldIs DEF TakeModel
  <2> DEFINE m == First(task[s].todo)
             x == CheckReady(World, m)
             y == TakeUp(x, s, m)
             e == EndSync(World, s)
  <2>2. CASE task[s].canceled \/ task[s].todo = {}
    <3>1. Becomes(e)
      BY <1>4, <2>2 DEF TakeModel
    <3>2. Smaller(World, e) /\ e.dir = World.dir
      BY <1>1, EndSyncLess, EndSyncIs
    <3> HIDE DEF e
    <3>3. Firm(World, e)
      BY <1>1, <3>2, SparesSame, LessFirm DEF Smaller
    <3> QED
      BY <1>3, <3>1, <3>3
  <2>3. CASE ~task[s].canceled /\ task[s].todo # {}
    <3>1. m \in Model
      <4>1. task[s].todo \in SUBSET Model
        BY <1>1 DEF SyncState
      <4> QED
        BY <2>3, <4>1, FirstIn
    <3> HIDE DEF m
    <3>2. Firm(World, Skip(x, s)) /\ Firm(World, Source(y, s))
      BY <1>1, <2>1, <3>1, TakeModelFirm
    <3>3. Becomes(Skip(x, s)) \/ Becomes(Source(y, s))
      BY <1>4, <2>3 DEF TakeModel, TakeUp, m
    <3> HIDE DEF x, y
    <3> QED
      BY <1>3, <3>2, <3>3
  <2> QED
    BY <2>2, <2>3
<1>5. CASE DiskFull(s)
  <2> DEFINE m == First(task[s].todo)
             x == CheckReady(World, m)
  <2>1. World.task[s].pc = "head" /\ task[s].todo # {} /\ Becomes(EndSync(x, s))
    BY <1>5, WorldIs DEF DiskFull
  <2>2. m \in Model
    <3>1. task[s].todo \in SUBSET Model
      BY <1>1 DEF SyncState
    <3> QED
      BY <2>1, <3>1, FirstIn
  <2> HIDE DEF m
  <2>3. Firm(World, EndSync(x, s))
    BY <1>1, <2>1, <2>2, TakeModelFirm
  <2> HIDE DEF x
  <2> QED
    BY <1>3, <2>1, <2>3
<1>6. CASE Request(s)
  <2> DEFINE v == [World EXCEPT !.task[s].pc = "answer",
                                !.task[s].asked = PartLen(World, task[s].m, FileNow(task[s]))]
  <2>1. World.task[s].pc = "ask" /\ Becomes(v)
    BY <1>6, WorldIs DEF Request
  <2>2. Hold(World, v, n)
    BY <1>1, <2>1, RequestHold
  <2> HIDE DEF v
  <2> QED
    BY <2>1, <2>2, BecomesHold
<1>7. ASSUME task[s].pc = "answer" \/ task[s].pc = "stream", Becomes(FinalizeDownload(World, s))
      PROVE  Hold(World, World', n)
  <2> DEFINE v == FinalizeDownload(World, s)
             x == Idle(World, s)
  <2>1. Working(World.task[s])
    BY <1>7, WorldIs DEF Working
  <2>2. Hold(x, v, n)
    BY <1>1, <1>2, <2>1, FinalizeHold DEF Sole
  <2>3. Closed(World, x, s)
    BY <1>1, IdleLess
  <2> HIDE DEF x
  <2>4. Firm(World, x)
    BY <1>1, <2>3, SparesSame, LessFirm DEF Closed, Pared, Smaller
  <2> HIDE DEF v
  <2>5. Hold(World, v, n)
    BY <2>2, <2>4, FirmHold, HoldTrans
  <2> QED
    BY <1>7, <2>5, BecomesHold DEF v
<1>8. ASSUME task[s].pc = "answer" \/ task[s].pc = "stream", NEW b \in BOOLEAN, Becomes(Fails(World, s, b))
      PROVE  Hold(World, World', n)
  <2>1. Working(World.task[s])
    BY <1>8, WorldIs DEF Working
  <2>2. Firm(World, Fails(World, s, b))
    BY <1>1, <2>1, FailsFirm
  <2> QED
    BY <1>3, <1>8, <2>2
<1>9. CASE Answer(s)
  <2>1. CASE task[s].asked >= Blocks
    BY <1>7, <1>9, <2>1 DEF Answer
  <2>2. CASE ~(task[s].asked >= Blocks)
    <3> DEFINE b == task[s].asked > 0
    <3>1. World.task[s].pc = "answer" /\ Becomes(Opened(World, s, b))
      BY <1>9, <2>2, WorldIs DEF Answer
    <3>2. b \in BOOLEAN
      OBVIOUS
    <3> HIDE DEF b
    <3>3. Hold(World, Opened(World, s, b), n)
      BY <1>1, <3>1, <3>2, OpenedHold
    <3> QED
      BY <3>1, <3>3, BecomesHold
  <2> QED
    BY <2>1, <2>2
<1>10. CASE AnswerFault(s)
  <2> DEFINE x == RemoveParts(World, {<<task[s].m, FileNow(task[s])>>})
  <2>1. task[s].pc = "answer"
    BY <1>10 DEF AnswerFault
  <2>2. CASE Becomes(Opened(x, s, FALSE))
    <3>1. Pared(World, x) /\ Spares(World, x)
      BY <1>1, RemovePartsLess, RemovePartsSpares
    <3> HIDE DEF x
    <3>2. WorldTyped(x) /\ x.task[s].pc = "answer" /\ Firm(World, x)
      BY <1>1, <2>1, <3>1, WorldIs, LessFirm DEF Pared, Smaller, Stays
    <3>3. Hold(x, Opened(x, s, FALSE), n)
      BY <3>2, OpenedHold
    <3>4. Hold(World, Opened(x, s, FALSE), n)
      BY <3>2, <3>3, FirmHold, HoldTrans
    <3> QED
      BY <2>2, <3>4, BecomesHold
  <2>3. CASE \E b \in BOOLEAN : Becomes(Fails(World, s, b))
    BY <1>8, <2>1, <2>3
  <2> QED
    BY <1>10, <2>2, <2>3 DEF AnswerFault
<1>11. CASE Chunk(s)
  <2> DEFINE y == WriteBlock(World, s)
             v == IF World.task[s].next < Blocks THEN [y EXCEPT !.task[s].next = @ + 1] ELSE FinalizeDownload(y, s)
  <2>1. Becomes(v) /\ World.task[s].pc = "stream" /\ Working(World.task[s])
    BY <1>11, WorldIs DEF Chunk, Working
  <2>2. Hold(World, v, n)
    BY <1>1, <1>2, <2>1, ChunkHold
  <2> HIDE DEF v
  <2> QED
    BY <2>1, <2>2, BecomesHold
<1>12. CASE Cut(s)
  <2>1. task[s].pc = "stream"
    BY <1>12 DEF Cut
  <2>2. CASE Becomes(EndModel(World, s, "nospace"))
    <3> DEFINE v == EndModel(World, s, "nospace")
    <3>1. Spares(World, v) /\ Smaller(World, v)
      BY <1>1, <2>1, EndModelSpares, EndModelLess, WorldIs
    <3> HIDE DEF v
    <3>2. Firm(World, v)
      BY <1>1, <3>1, LessFirm DEF Smaller
    <3> QED
      BY <1>3, <2>2, <3>2 DEF v
  <2> QED
    BY <1>7, <1>8, <1>12, <2>1, <2>2 DEF Cut
<1> QED
  BY <1>4, <1>5, <1>6, <1>9, <1>10, <1>11, <1>12 DEF SyncStep, SyncFault

LEMMA SyncModelWeightsIs ==
    ASSUME NEW w, WorldTyped(w), NEW s, NEW inv, NEW on
    PROVE  SyncModelWeights(w, s, inv, on).dir = w.dir
<1> DEFINE u == [Off EXCEPT !.pc = "head", !.todo = Pending(inv, on)]
           v == [w EXCEPT !.flight[s] = TRUE, !.task[s] = u]
<1>1. PICK D, T, F, L : w \in Box(D, T, F, L)
  BY Boxed DEF WorldTyped
<1> HIDE DEF u
<1>2. v.dir = w.dir
  BY <1>1 DEF Box
<1>3. SyncModelWeights(w, s, inv, on) = w \/ SyncModelWeights(w, s, inv, on) = v
  BY DEF SyncModelWeights, u
<1> QED
  BY <1>2, <1>3

LEMMA CancelActiveIs ==
    ASSUME NEW w, WorldTyped(w), NEW s
    PROVE  CancelActive(w, s).dir = w.dir
<1> DEFINE b == (w.task[s].pc # "off")
           v == [w EXCEPT !.loading = NoModel, !.task[s].canceled = b]
<1>1. PICK D, T, F, L : w \in Box(D, T, F, L)
  BY Boxed DEF WorldTyped
<1> HIDE DEF b
<1>2. v.dir = w.dir
  BY <1>1 DEF Box
<1>3. CancelActive(w, s) = v
  BY DEF CancelActive, b
<1> QED
  BY <1>2, <1>3

LEMMA ApplyPolicySpares ==
    ASSUME NEW w, WorldTyped(w), NEW s \in Session, NEW on
    PROVE  WorldTyped(ApplyPolicy(w, s, on)) /\ Spares(w, ApplyPolicy(w, s, on))
<1> DEFINE v == PurgeIncomplete(w, Model \ on)
<1>1. WorldTyped(v) /\ Spares(w, v)
  BY PurgeLess, PurgeSpares DEF Pared, Smaller
<1>2. WorldTyped(ApplyPolicy(w, s, on))
  BY ApplyPolicyLess DEF Pared, Smaller
<1> HIDE DEF v
<1>3. Spares(v, CancelActive(v, s))
  BY <1>1, CancelActiveIs, SparesSame
<1>4. Spares(w, CancelActive(v, s))
  BY <1>1, <1>3, SparesTrans
<1> QED
  BY <1>1, <1>2, <1>4 DEF ApplyPolicy, v

\* What may take ready weights away.
Excused(m) == (PongApply /\ m \in waiting.purge) \/ LoadFails(m) \/ FreeSpace({m})

LEMMA BecomesSpares ==
    ASSUME NEW v, Becomes(v), NEW m, WeightsReady(World, m) => WeightsReady(v, m)
    PROVE  WeightsReady(World, m) => WeightsReady(World', m)
<1>1. World'.dir = v.dir
  BY DEF World, Becomes
<1> QED
  BY <1>1 DEF WeightsReady, Complete

LEMMA SetCorruptMarks ==
    ASSUME NEW w, WorldTyped(w), NEW m \in Model
    PROVE  \A n \in Model : n # m => SetCorrupt(w, {m}, TRUE).dir[n] = w.dir[n]
<1> DEFINE v == SetCorrupt(w, {m}, TRUE)
           d == [n \in Model |-> IF n \in {m} THEN [w.dir[n] EXCEPT !.corrupt = TRUE] ELSE w.dir[n]]
<1>1. v.dir = d
  <2>1. PICK D, T, F, L : w \in Box(D, T, F, L)
    BY Boxed DEF WorldTyped
  <2>2. v = [w EXCEPT !.dir = d]
    BY DEF SetCorrupt
  <2> HIDE DEF v, d
  <2> QED
    BY <2>1, <2>2 DEF Box
<1>2. \A n \in Model : n # m => d[n] = w.dir[n]
  OBVIOUS
<1> HIDE DEF d, v
<1>3. \A n \in Model : n # m => v.dir[n] = w.dir[n]
  BY <1>1, <1>2
<1> QED
  BY <1>3 DEF v

LEMMA LoadFailsSpares ==
    ASSUME Inv, NEW m \in Model, LoadFails(m), NEW n \in Model, WeightsReady(World, n)
    PROVE  WeightsReady(World', n) \/ Excused(n)
<1> DEFINE G == Paths({m})
           x == RemoveParts(World, G)
           y == RemoveFiles(x, G)
           v == SetCorrupt(y, {m}, TRUE)
<1>1. WorldTyped(World)
  BY DEF Inv, Typed
<1>2. Becomes(v)
  BY DEF LoadFails
<1>3. \A f : <<n, f>> \in G => n = m
  BY DEF Paths
<1> HIDE DEF G
<1>4. WorldTyped(x) /\ Spares(World, x)
  BY <1>1, RemovePartsLess, RemovePartsSpares DEF Pared, Smaller
<1> HIDE DEF x
<1>5. WorldTyped(y)
  BY <1>4, RemoveFilesLess DEF Pared, Smaller
<1>6. n # m => WeightsReady(y, n)
  BY <1>3, <1>4, RemoveFilesSpares DEF Spares
<1> HIDE DEF y
<1>7. \A z \in Model : z # m => v.dir[z] = y.dir[z]
  BY <1>5, SetCorruptMarks
<1> HIDE DEF v
<1>8. CASE n = m
  BY <1>8 DEF Excused
<1>9. CASE n # m
  <2>1. WeightsReady(v, n)
    BY <1>6, <1>7, <1>9 DEF WeightsReady, Complete
  <2> QED
    BY <1>2, <2>1, BecomesSpares
<1> QED
  BY <1>8, <1>9

LEMMA FreeSpaceSpares ==
    ASSUME Inv, NEW m, NEW more \in SUBSET {m}, FreeSpace(more), NEW n \in Model, WeightsReady(World, n)
    PROVE  WeightsReady(World', n) \/ Excused(n)
<1> DEFINE M == {z \in Model : dir[z].here /\ ~WeightsReady(World, z)}
           x == PurgeFailed(World, M)
           v == DropDirs(x, more)
<1>1. WorldTyped(World)
  BY DEF Inv, Typed
<1>2. Becomes(v)
  BY DEF FreeSpace
<1> HIDE DEF M
<1>3. WorldTyped(x) /\ Spares(World, x)
  BY <1>1, PurgeLess, PurgeSpares DEF Pared, Smaller
<1> HIDE DEF x
<1>4. CASE n \in more
  <2>1. more = {n}
    BY <1>4
  <2> QED
    BY <2>1 DEF Excused
<1>5. CASE n \notin more
  <2>1. WeightsReady(v, n)
    BY <1>3, <1>5, DropDirsSpares DEF Spares
  <2> HIDE DEF v
  <2> QED
    BY <1>2, <2>1, BecomesSpares
<1> QED
  BY <1>4, <1>5

LEMMA PongApplySpares ==
    ASSUME Inv, PongApply, NEW n \in Model, WeightsReady(World, n)
    PROVE  WeightsReady(World', n) \/ Excused(n)
<1> DEFINE x == DropDirs(World, waiting.purge)
           v == SyncModelWeights(x, sess, inventory, enabled)
<1>1. WorldTyped(World)
  BY DEF Inv, Typed
<1>2. Becomes(v)
  BY DEF PongApply
<1>3. CASE n \in waiting.purge
  BY <1>3 DEF Excused
<1>4. CASE n \notin waiting.purge
  <2>1. WorldTyped(x) /\ WeightsReady(x, n)
    BY <1>1, <1>4, DropDirsLess, DropDirsSpares DEF Pared, Smaller
  <2> HIDE DEF x
  <2>2. v.dir = x.dir
    BY <2>1, SyncModelWeightsIs
  <2> HIDE DEF v
  <2>3. WeightsReady(v, n)
    BY <2>1, <2>2 DEF WeightsReady, Complete
  <2> QED
    BY <1>2, <2>3, BecomesSpares
<1> QED
  BY <1>3, <1>4

LEMMA ReadySpares ==
    ASSUME Inv, Ready, NEW n \in Model, WeightsReady(World, n)
    PROVE  WeightsReady(World', n)
<1> DEFINE x == ApplyPolicy(World, sess', enabled)
           v == SyncModelWeights(x, sess', inventory', enabled)
<1>1. WorldTyped(World) /\ sess \in 0..MaxSessions
  BY DEF Inv, Typed
<1>2. sess < MaxSessions /\ sess' = sess + 1 /\ Becomes(v)
  BY DEF Ready
<1>3. sess' \in Session
  BY <1>1, <1>2, BoundsAssumption DEF Session
<1>4. WorldTyped(x) /\ Spares(World, x)
  BY <1>1, <1>3, ApplyPolicySpares
<1> HIDE DEF x
<1>5. v.dir = x.dir
  BY <1>4, SyncModelWeightsIs
<1> HIDE DEF v
<1>6. WeightsReady(v, n)
  BY <1>4, <1>5 DEF Spares, WeightsReady, Complete
<1> QED
  BY <1>2, <1>6, BecomesSpares

LEMMA PongSpares ==
    ASSUME Inv, NEW on, NEW purge, Pong(on, purge), NEW n \in Model, WeightsReady(World, n)
    PROVE  WeightsReady(World', n)
<1> DEFINE x == IF enabled # on THEN ApplyPolicy(World, sess, on) ELSE World
           v == IF Stops(purge) THEN CancelActive(x, sess) ELSE x
<1>1. WorldTyped(World) /\ sess \in 0..MaxSessions /\ (link => sess # 0)
  BY DEF Inv, Typed
<1>2. link /\ Becomes(v)
  BY DEF Pong
<1>3. sess \in Session
  BY <1>1, <1>2, BoundsAssumption DEF Session
<1>4. WorldTyped(x) /\ Spares(World, x)
  BY <1>1, <1>3, ApplyPolicySpares, SparesSame
<1> HIDE DEF x
<1>5. v.dir = x.dir
  BY <1>4, CancelActiveIs
<1> HIDE DEF v
<1>6. WeightsReady(v, n)
  BY <1>4, <1>5 DEF Spares, WeightsReady, Complete
<1> QED
  BY <1>2, <1>6, BecomesSpares

LEMMA HeartbeatSyncSpares ==
    ASSUME Inv, HeartbeatSync, NEW n \in Model, WeightsReady(World, n)
    PROVE  WeightsReady(World', n)
<1> DEFINE v == SyncModelWeights(World, sess, inventory, enabled)
<1>1. WorldTyped(World)
  BY DEF Inv, Typed
<1>2. Becomes(v)
  BY DEF HeartbeatSync
<1>3. v.dir = World.dir
  BY <1>1, SyncModelWeightsIs
<1> HIDE DEF v
<1>4. WeightsReady(v, n)
  BY <1>3 DEF WeightsReady, Complete
<1> QED
  BY <1>2, <1>4, BecomesSpares

\* What Inv has to say for it besides.
Settled == \A m \in Model \ raced : AllGaps(World, m)

LEMMA ActSettled ==
    ASSUME AtMostTwo, Inv, Settled, Act, NEW n \in Model \ raced
    PROVE  /\ AllGaps(World', n)
           /\ WeightsReady(World, n) => WeightsReady(World', n) \/ Excused(n)
<1>1. WorldTyped(World) /\ AllGaps(World, n)
  BY DEF Inv, Typed, Settled
<1>2. ASSUME Less(World, World')
      PROVE  AllGaps(World', n)
  BY <1>1, <1>2, LessGaps DEF AllGaps
<1>3. ASSUME dir' = dir
      PROVE  WeightsReady(World, n) => WeightsReady(World', n)
  <2>1. World'.dir = World.dir
    BY <1>3 DEF World
  <2> QED
    BY <2>1 DEF WeightsReady, Complete
<1>4. CASE SyncRuns
  <2>1. PICK s \in Session : SyncStep(s) \/ SyncFault(s)
    BY <1>4 DEF SyncRuns
  <2>2. Hold(World, World', n)
    BY <2>1, SyncHold
  <2> QED
    BY <1>1, <2>2 DEF Hold
<1>5. CASE Ready
  BY <1>2, <1>5, ReadyGoes, ReadySpares
<1>6. CASE Lose
  BY <1>2, <1>3, <1>6, LoseGoes DEF Lose
<1>7. CASE Crash
  BY <1>2, <1>3, <1>7, CrashGoes DEF Crash
<1>8. CASE HeartbeatSync
  BY <1>2, <1>8, HeartbeatSyncGoes, HeartbeatSyncSpares
<1>9. CASE HeartbeatScan
  BY <1>2, <1>3, <1>9, HeartbeatScanGoes DEF HeartbeatScan
<1>10. CASE PongApply
  BY <1>2, <1>10, PongApplyGoes, PongApplySpares
<1>11. CASE \E m \in Model : \E on \in {enabled \ {m}, enabled \cup {m}}, purge \in SUBSET {m} : Pong(on, purge)
  BY <1>2, <1>11, PongGoes, PongSpares
<1>12. CASE \E m \in Model : LoadFails(m)
  BY <1>2, <1>12, LoadFailsGoes, LoadFailsSpares
<1>13. CASE \E m \in Model : \E more \in SUBSET {m} : FreeSpace(more)
  BY <1>1, <1>2, <1>13, FreeSpaceGoes, FreeSpaceSpares
<1> QED
  BY <1>4, <1>5, <1>6, <1>7, <1>8, <1>9, <1>10, <1>11, <1>12, <1>13 DEF Act

LEMMA NextSettled ==
    ASSUME AtMostTwo, Inv, Settled, [Next]_vars
    PROVE  Settled'
<1>1. CASE UNCHANGED vars
  <2>1. World' = World /\ raced' = raced
    BY <1>1 DEF vars, World
  <2> QED
    BY <2>1 DEF Settled
<1>2. CASE Next
  <2>1. Act /\ raced \subseteq raced'
    BY <1>2 DEF Next
  <2>2. \A m \in Model \ raced' : AllGaps(World', m)
    BY <2>1, ActSettled
  <2> QED
    BY <2>2 DEF Settled
<1> QED
  BY <1>1, <1>2

LEMMA InitSettled == Init => Settled
<1> SUFFICES ASSUME Init
             PROVE  Settled
  OBVIOUS
<1>1. \A s \in Session : World.task[s] = Off
  BY WorldIs DEF Init
<1> QED
  BY <1>1, OffTyped DEF Settled, AllGaps, Gaps, Working

\* The action of InstalledStays.
Installs ==
    \A m \in Model \ raced' : WeightsReady(World, m) /\ ~WeightsReady(World, m)' => Excused(m)

LEMMA NextInstalls ==
    ASSUME AtMostTwo, Inv, Settled, [Next]_vars
    PROVE  [Installs]_vars
<1>1. CASE Next
  <2>1. Act /\ raced \subseteq raced'
    BY <1>1 DEF Next
  <2>2. \A m \in Model \ raced' : WeightsReady(World, m) => WeightsReady(World', m) \/ Excused(m)
    BY <2>1, ActSettled
  <2> QED
    BY <2>2 DEF Installs
<1> QED
  BY <1>1

-----------------------------------------------------------------------------
(* The theorems *)

LEMMA InvHolds == Spec => []Inv
BY InitInv, NextInv, PTL DEF Spec

\* Whatever syncs, sessions, purges, quarantines, disk clearings and crashes do
\* to the model cache (models/sync.rs, storage.rs, health.rs, update/space.rs),
\* a directory that is not there holds nothing, a sync that runs holds the
\* in-flight flag of a session there has been, and a sync that downloads does
\* so for a model of the catalog.
THEOREM TypeCorrect == Spec => []TypeOK
BY InvHolds, InvTypeOK, PTL

\* A file that passes gguf_payload_in_bounds is the server's file, block for
\* block, however its download was resumed, cut, retried at the other source,
\* canceled or cleaned up after (download.rs, storage.rs), unless two syncs
\* have been at work on its model at once.
THEOREM CompleteIsServers == Spec => []OnlyRacesCorrupt
BY InvHolds, InvOnlyRacesCorrupt, PTL

\* Weights that are ready stay so (sync.rs, storage.rs, agent.rs): no policy, no
\* reconnect and no sync that fails, is canceled or finishes late takes them away,
\* only a purge the cloud asks for, a quarantine or an updater short of disk space,
\* unless two syncs have been at work on the model at once. A sync writes a
\* manifest of all files of its model: with two of them, those before the last one
\* are then still there, which a third one would not allow to conclude.
THEOREM ReadyWeightsStay ==
    ASSUME AtMostTwo
    PROVE  Spec => InstalledStays
<1>1. Init => Inv /\ Settled
  BY InitInv, InitSettled
<1>2. Inv /\ Settled /\ [Next]_vars => (Inv /\ Settled)'
  BY NextInv, NextSettled
<1>3. Inv /\ Settled /\ [Next]_vars => [Installs]_vars
  BY NextInstalls
<1>4. [][Installs]_vars => InstalledStays
  BY DEF Installs, Excused, InstalledStays
<1> QED
  BY <1>1, <1>2, <1>3, <1>4, PTL DEF Spec
=============================================================================
