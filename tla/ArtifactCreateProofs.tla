------------------------ MODULE ArtifactCreateProofs ------------------------
(***************************************************************************)
(* Proofs about ArtifactCreate for all sets of processes, directories,     *)
(* numbers of parts, commands and changes of files: ArtifactsExact,        *)
(* CollectionExact and UploadedOnce.                                       *)
(***************************************************************************)
EXTENDS ArtifactCreate, SequenceTheorems, TLAPS

-----------------------------------------------------------------------------
(* The inductive invariant                                                 *)

Types ==
  /\ content \in [FileSet -> Nat]
  /\ meta \in [FileSet -> [hash: Nat, art: Nat]]
  /\ artifacts \in Seq(Artifact)
  /\ collection \in Seq(Entry)
  /\ proc \in [Procs -> Locals]

\* Artifacts are never longer than a file, and but for cut ones their parts
\* are in their places.
InPlace(arts) ==
  \A k \in 1..Len(arts) :
    /\ Len(arts[k].data) <= Parts
    /\ \A i \in 1..Len(arts[k].data) : arts[k].data[i].part \in {Cut, i}

\* The artifact begins with n parts of its file's content c.
Holds(a, c, n) ==
  /\ n <= Len(a.data)
  /\ \A i \in 1..n : a.data[i] = [of |-> c, part |-> i]

\* File f, known by hash h, is artifact k, if the record of it names any.
Sound(arts, t, f, h, k) ==
  f \notin t /\ k # 0 =>
                /\ k \in 1..Len(arts)
                /\ arts[k].file = f
                /\ Holds(arts[k], h, Parts)

\* The entries of a collection, made or in the making.
Entries(arts, t, entries) ==
  \A i \in 1..Len(entries) :
    /\ Sound(arts, t, entries[i].file, entries[i].hash, entries[i].art)
    /\ entries[i].file = Files[i]

\* The entries and what is left to do are the directory.
OnTheWay(l) ==
  l.cmd = "collection" /\ l.pc # "idle" =>
    /\ Len(l.done) + Len(l.todo) = Len(Files)
    /\ \A i \in 1..Len(l.todo) : Files[Len(l.done) + i] = l.todo[i]

\* What a command knows about the artifact it is at work on.
Sending(arts, t, l) ==
  /\ l.pc \in {"head", "skip", "data", "status", "meta"} => l.art \in 1..Len(arts)
  /\ l.pc = "skip" => l.off < Parts
  /\ l.pc = "data" => l.off < Parts /\ l.pos = l.off
  /\ l.cmd # "upload" /\ l.todo # <<>> =>
       /\ l.pc \in {"data", "status", "meta"} => arts[l.art].file = l.todo[1]
       /\ l.pc = "data" /\ l.todo[1] \notin t => Holds(arts[l.art], l.hash, l.off)
       /\ l.pc \in {"status", "meta"} =>
            Sound(arts, t, l.todo[1], l.hash, l.art)

\* Until the upload is over the hash is that of the file, or the file is known
\* to have changed.
Hashed(t, c, l) ==
  l.pc \in {"create", "data"} /\ l.cmd # "upload" /\ l.todo[1] \notin t =>
    l.hash = c[l.todo[1]]

Good(arts, t, c, l) ==
  /\ l.pc \notin {"idle", "collect"} => l.todo # <<>>
  /\ l.pc = "collect" => l.cmd = "collection" /\ l.todo = <<>>
  /\ l.pc = "scan" => l.cmd = "collection"
  /\ l.pc \in {"hash", "create", "meta"} => l.cmd # "upload"
  /\ l.pc \in {"head", "skip"} => l.cmd = "upload"
  /\ l.pc \in {"scan", "hash", "create"} => l.off = 0 /\ l.pos = 0
  /\ Sending(arts, t, l)
  /\ Hashed(t, c, l)
  /\ Entries(arts, t, l.done)
  /\ OnTheWay(l)

CreateInv ==
  /\ Types
  /\ InPlace(artifacts)
  /\ \A f \in FileSet : meta[f] # None =>
       Sound(artifacts, touched, f, meta[f].hash, meta[f].art)
  /\ Entries(artifacts, touched, collection)
  /\ collection # <<>> => Len(collection) = Len(Files)
  /\ \A p \in Procs : Good(artifacts, touched, content, proc[p])

\* An entry that names no artifact was taken from a meta file that was cut.
Explained(cut, entries) ==
  \A i \in 1..Len(entries) : entries[i].art = 0 => entries[i].file \in cut

TornInv ==
  /\ \A f \in FileSet : meta[f] # None /\ meta[f].art = 0 => f \in torn
  /\ Explained(torn, collection)
  /\ \A p \in Procs : Explained(torn, proc[p].done)

-----------------------------------------------------------------------------
(* Artifacts grow, and what is known of them stays true                    *)

HasLocals(l) ==
  l = [pc |-> l.pc, cmd |-> l.cmd, force |-> l.force, todo |-> l.todo,
       hash |-> l.hash, art |-> l.art, off |-> l.off, pos |-> l.pos,
       done |-> l.done]

\* The locals of a process, field by field.
LEMMA LocalsFields ==
  \A l : l \in Locals <=>
    /\ HasLocals(l)
    /\ l.pc \in {"idle", "scan", "hash", "create", "head", "skip", "data",
                 "status", "meta", "collect"}
    /\ l.cmd \in {"create", "upload", "collection"} /\ l.force \in BOOLEAN
    /\ l.todo \in Seq(FileSet) /\ l.hash \in Nat /\ l.art \in Nat
    /\ l.off \in Nat /\ l.pos \in Nat /\ l.done \in Seq(Entry)
BY DEF Locals, HasLocals

\* The fields of an artifact that exists.
LEMMA ArtifactFields ==
  ASSUME NEW arts \in Seq(Artifact), NEW k \in 1..Len(arts)
  PROVE  /\ arts[k] \in Artifact /\ arts[k].file \in FileSet
         /\ arts[k].data \in Seq(Part) /\ Len(arts[k].data) \in Nat
<1>1. arts[k] \in Artifact
  BY LenProperties
<1> QED
  BY <1>1, LenProperties DEF Artifact

\* The directory is a nonempty sequence of its files.
LEMMA FilesAreFiles ==
  /\ Files \in Seq(FileSet) /\ Files # <<>> /\ Len(Files) \in Nat
  /\ DOMAIN Files = 1..Len(Files) /\ Parts \in Nat \ {0}
<1>1. Files \in Seq(FileSet) /\ Files # <<>> /\ Parts \in Nat \ {0}
  BY CreateAssumption DEF FileSet
<1> QED
  BY <1>1, LenProperties

\* The first element of a sequence, and what is left without it.
LEMMA FirstOf ==
  ASSUME NEW S, NEW s \in Seq(S), s # <<>>
  PROVE  /\ Len(s) \in Nat /\ Len(s) >= 1 /\ Head(s) = s[1] /\ s[1] \in S
         /\ Tail(s) \in Seq(S) /\ Len(Tail(s)) = Len(s) - 1
         /\ \A i \in 1..Len(Tail(s)) : Tail(s)[i] = s[i + 1]
<1>1. Len(s) \in Nat /\ Len(s) # 0
  BY LenProperties, EmptySeq
<1>2. Head(s) = s[1]
  BY <1>1
<1> QED
  BY <1>1, <1>2, HeadTailProperties

Grows(arts, more) ==
  /\ Len(arts) <= Len(more)
  /\ \A k \in 1..Len(arts) :
       /\ more[k].file = arts[k].file
       /\ Len(arts[k].data) <= Len(more[k].data)
       /\ \A i \in 1..Len(arts[k].data) : more[k].data[i] = arts[k].data[i]

\* An artifact that begins with parts of a file keeps them.
LEMMA HoldsGrows ==
  ASSUME NEW arts \in Seq(Artifact), NEW more \in Seq(Artifact),
         Grows(arts, more), NEW k \in 1..Len(arts), NEW c, NEW n \in Nat,
         Holds(arts[k], c, n)
  PROVE  k \in 1..Len(more) /\ more[k].file = arts[k].file /\ Holds(more[k], c, n)
<1>1. k \in 1..Len(more)
  BY LenProperties DEF Grows
<1>2. /\ Len(arts[k].data) \in Nat /\ Len(more[k].data) \in Nat
      /\ Len(arts[k].data) <= Len(more[k].data)
  BY <1>1, ArtifactFields DEF Grows
<1>3. n <= Len(more[k].data)
  BY <1>2 DEF Holds
<1>4. ASSUME NEW i \in 1..n PROVE more[k].data[i] = [of |-> c, part |-> i]
  <2>1. i \in 1..Len(arts[k].data)
    BY <1>2 DEF Holds
  <2> QED
    BY <2>1 DEF Holds, Grows
<1> QED
  BY <1>1, <1>3, <1>4 DEF Holds, Grows

\* What is recorded of a file stays true when artifacts grow and files change.
LEMMA SoundGrows ==
  ASSUME NEW arts \in Seq(Artifact), NEW more \in Seq(Artifact),
         Grows(arts, more), NEW t, NEW t2, t \subseteq t2,
         NEW f, NEW h, NEW k, Sound(arts, t, f, h, k)
  PROVE  Sound(more, t2, f, h, k)
<1> SUFFICES ASSUME f \notin t2, k # 0
             PROVE  k \in 1..Len(more) /\ more[k].file = f /\ Holds(more[k], h, Parts)
  BY DEF Sound
<1>1. k \in 1..Len(arts) /\ arts[k].file = f /\ Holds(arts[k], h, Parts)
  BY DEF Sound
<1> QED
  BY <1>1, HoldsGrows, FilesAreFiles

\* So do the entries of a collection.
LEMMA EntriesGrow ==
  ASSUME NEW arts \in Seq(Artifact), NEW more \in Seq(Artifact),
         Grows(arts, more), NEW t, NEW t2, t \subseteq t2,
         NEW e, Entries(arts, t, e)
  PROVE  Entries(more, t2, e)
BY SoundGrows DEF Entries

\* What a process knows survives the steps of the others.
LEMMA GoodGrows ==
  ASSUME NEW arts \in Seq(Artifact), NEW more \in Seq(Artifact),
         Grows(arts, more), NEW t, NEW t2, t \subseteq t2,
         NEW c, NEW c2, NEW l \in Locals, Good(arts, t, c, l), Hashed(t2, c2, l)
  PROVE  Good(more, t2, c2, l)
<1>1. Entries(more, t2, l.done)
  BY EntriesGrow DEF Good
<1>2. l.art \in Nat /\ l.off \in Nat
  BY LocalsFields
<1>3. l.art \in 1..Len(arts) => /\ l.art \in 1..Len(more)
                               /\ more[l.art].file = arts[l.art].file
  BY LenProperties DEF Grows
<1>4. Sending(more, t2, l)
  <2>1. /\ l.pc \in {"head", "skip", "data", "status", "meta"} => l.art \in 1..Len(more)
        /\ l.pc = "skip" => l.off < Parts
        /\ l.pc = "data" => l.off < Parts /\ l.pos = l.off
    BY <1>3 DEF Good, Sending
  <2> SUFFICES ASSUME l.cmd # "upload", l.todo # <<>>
               PROVE  /\ l.pc \in {"data", "status", "meta"} => more[l.art].file = l.todo[1]
                      /\ l.pc = "data" /\ l.todo[1] \notin t2 => Holds(more[l.art], l.hash, l.off)
                      /\ l.pc \in {"status", "meta"} => Sound(more, t2, l.todo[1], l.hash, l.art)
    BY <2>1 DEF Sending
  <2>2. l.pc \in {"data", "status", "meta"} => more[l.art].file = l.todo[1]
    BY <1>3 DEF Good, Sending
  <2>3. l.pc = "data" /\ l.todo[1] \notin t2 => Holds(more[l.art], l.hash, l.off)
    BY <1>2, HoldsGrows DEF Good, Sending
  <2>4. l.pc \in {"status", "meta"} => Sound(more, t2, l.todo[1], l.hash, l.art)
    BY SoundGrows DEF Good, Sending
  <2> QED
    BY <2>2, <2>3, <2>4
<1> QED
  BY <1>1, <1>4 DEF Good

-----------------------------------------------------------------------------
(* Steps of a process                                                      *)

\* A step of a process preserves the invariant if what it writes is sound and
\* what the process knows afterwards is true.
LEMMA StepInv ==
  ASSUME CreateInv, NEW p \in Procs, NEW l \in Locals, Step(p, l),
         content' = content, touched' = touched,
         artifacts' \in Seq(Artifact), Grows(artifacts, artifacts'),
         InPlace(artifacts'),
         meta' \in [FileSet -> [hash: Nat, art: Nat]],
         \A f \in FileSet : meta'[f] # None =>
           Sound(artifacts', touched, f, meta'[f].hash, meta'[f].art),
         collection' \in Seq(Entry), Entries(artifacts', touched, collection'),
         collection' # <<>> => Len(collection') = Len(Files),
         Good(artifacts', touched, content, l)
  PROVE  CreateInv'
<1>1. proc \in [Procs -> Locals] /\ proc' = [proc EXCEPT ![p] = l]
  BY DEF CreateInv, Types, Step
<1>2. proc' \in [Procs -> Locals]
  BY <1>1
<1>3. Types'
  BY <1>2 DEF CreateInv, Types
<1>4. ASSUME NEW q \in Procs
      PROVE  Good(artifacts', touched', content', proc'[q])
  <2>1. CASE q = p
    BY <1>1, <2>1
  <2>2. CASE q # p
    <3>1. proc'[q] = proc[q] /\ proc[q] \in Locals
      BY <1>1, <2>2
    <3>2. Good(artifacts, touched, content, proc[q])
      BY DEF CreateInv
    <3>3. Hashed(touched, content, proc[q])
      BY <3>2 DEF Good
    <3>4. artifacts \in Seq(Artifact)
      BY DEF CreateInv, Types
    <3>5. Good(artifacts', touched, content, proc[q])
      BY <3>1, <3>2, <3>3, <3>4, GoodGrows
    <3> QED
      BY <3>1, <3>5
  <2> QED
    BY <2>1, <2>2
<1> QED
  BY <1>3, <1>4 DEF CreateInv

\* Artifacts that are left alone have grown.
LEMMA GrowsSelf ==
  ASSUME NEW arts \in Seq(Artifact)
  PROVE  Grows(arts, arts)
BY ArtifactFields, LenProperties DEF Grows

\* A step that leaves the artifacts alone.
LEMMA LocalStep ==
  ASSUME CreateInv, NEW p \in Procs, NEW l \in Locals, Step(p, l),
         content' = content, touched' = touched, artifacts' = artifacts,
         meta' = meta, collection' = collection,
         Good(artifacts, touched, content, l)
  PROVE  CreateInv'
<1>1. /\ artifacts \in Seq(Artifact) /\ InPlace(artifacts)
      /\ meta \in [FileSet -> [hash: Nat, art: Nat]]
      /\ \A f \in FileSet : meta[f] # None =>
           Sound(artifacts, touched, f, meta[f].hash, meta[f].art)
      /\ collection \in Seq(Entry) /\ Entries(artifacts, touched, collection)
      /\ collection # <<>> => Len(collection) = Len(Files)
  BY DEF CreateInv, Types
<1>2. Grows(artifacts, artifacts')
  BY <1>1, GrowsSelf
<1>3. /\ artifacts' \in Seq(Artifact) /\ InPlace(artifacts')
      /\ meta' \in [FileSet -> [hash: Nat, art: Nat]]
      /\ collection' \in Seq(Entry) /\ Entries(artifacts', touched, collection')
      /\ collection' # <<>> => Len(collection') = Len(Files)
      /\ Good(artifacts', touched, content, l)
  BY <1>1
<1>4. \A f \in FileSet : meta'[f] # None =>
        Sound(artifacts', touched, f, meta'[f].hash, meta'[f].art)
  BY <1>1
<1> QED
  BY <1>2, <1>3, <1>4, StepInv

\* The locals of a process that runs no command, field by field.
LEMMA StoppedFields ==
  /\ Stopped.pc = "idle" /\ Stopped.cmd = "create" /\ Stopped.force = FALSE
  /\ Stopped.todo = <<>> /\ Stopped.hash = 0 /\ Stopped.art = 0
  /\ Stopped.off = 0 /\ Stopped.pos = 0 /\ Stopped.done = <<>>
  /\ HasLocals(Stopped) /\ Stopped \in Locals
<1>1. <<>> \in Seq(FileSet) /\ <<>> \in Seq(Entry)
  BY EmptySeq
<1>2. /\ Stopped.pc = "idle" /\ Stopped.cmd = "create" /\ Stopped.force = FALSE
      /\ Stopped.todo = <<>> /\ Stopped.hash = 0 /\ Stopped.art = 0
      /\ Stopped.off = 0 /\ Stopped.pos = 0 /\ Stopped.done = <<>>
      /\ HasLocals(Stopped)
  BY DEF Stopped, HasLocals
<1>3. Stopped \in Locals
  BY <1>1 DEF Stopped, Locals
<1> QED
  BY <1>2, <1>3

\* A process that runs no command knows nothing.
LEMMA StoppedIsGood ==
  ASSUME NEW arts, NEW t, NEW c
  PROVE  Good(arts, t, c, Stopped)
<1>1. Entries(arts, t, <<>>)
  BY DEF Entries
<1> QED
  BY <1>1, StoppedFields DEF Good, Sending, Hashed, OnTheWay

\* What a process knows before its step.
LEMMA Before ==
  ASSUME CreateInv, NEW p \in Procs
  PROVE  /\ proc[p] \in Locals /\ Good(artifacts, touched, content, proc[p])
         /\ artifacts \in Seq(Artifact) /\ Len(artifacts) \in Nat
         /\ content \in [FileSet -> Nat]
         /\ meta \in [FileSet -> [hash: Nat, art: Nat]]
BY LenProperties DEF CreateInv, Types

\* The command ends.
LEMMA EndStep ==
  ASSUME CreateInv, NEW p \in Procs, Step(p, Stopped),
         content' = content, touched' = touched, artifacts' = artifacts,
         meta' = meta, collection' = collection
  PROVE  CreateInv'
BY StoppedFields, StoppedIsGood, LocalStep

\* Changing one field leaves the others where they are.
LEMMA ChangedField ==
  ASSUME NEW s, HasLocals(s), NEW v
  PROVE  /\ HasLocals([s EXCEPT !.pc = v])
         /\ HasLocals([s EXCEPT !.cmd = v])
         /\ HasLocals([s EXCEPT !.force = v])
         /\ HasLocals([s EXCEPT !.todo = v])
         /\ HasLocals([s EXCEPT !.art = v])
         /\ HasLocals([s EXCEPT !.off = v])
         /\ HasLocals([s EXCEPT !.pos = v])
<1>1. HasLocals([s EXCEPT !.pc = v])
  BY DEF HasLocals
<1>2. HasLocals([s EXCEPT !.cmd = v])
  BY DEF HasLocals
<1>3. HasLocals([s EXCEPT !.force = v])
  BY DEF HasLocals
<1>4. HasLocals([s EXCEPT !.todo = v])
  BY DEF HasLocals
<1>5. HasLocals([s EXCEPT !.art = v])
  BY DEF HasLocals
<1>6. HasLocals([s EXCEPT !.off = v])
  BY DEF HasLocals
<1>7. HasLocals([s EXCEPT !.pos = v])
  BY DEF HasLocals
<1> QED
  BY <1>1, <1>2, <1>3, <1>4, <1>5, <1>6, <1>7

\* So does changing two or three.
LEMMA ChangedFields ==
  ASSUME NEW s, HasLocals(s), NEW v, NEW w, NEW x
  PROVE  /\ HasLocals([s EXCEPT !.pc = v, !.art = w])
         /\ HasLocals([s EXCEPT !.pc = v, !.pos = w])
         /\ HasLocals([s EXCEPT !.pc = v, !.off = w])
         /\ HasLocals([s EXCEPT !.off = v, !.pos = w])
         /\ HasLocals([s EXCEPT !.pc = v, !.off = w, !.pos = x])
<1> DEFINE l1 == [s EXCEPT !.pc = v]
           l2 == [s EXCEPT !.off = v]
           l3 == [l1 EXCEPT !.off = w]
           m1 == [s EXCEPT !.pc = v, !.art = w]
           m2 == [s EXCEPT !.pc = v, !.pos = w]
           m3 == [s EXCEPT !.pc = v, !.off = w]
           m4 == [s EXCEPT !.off = v, !.pos = w]
           m5 == [s EXCEPT !.pc = v, !.off = w, !.pos = x]
<1>1. /\ m1 = [l1 EXCEPT !.art = w] /\ m2 = [l1 EXCEPT !.pos = w] /\ m3 = l3
      /\ m4 = [l2 EXCEPT !.pos = w] /\ m5 = [l3 EXCEPT !.pos = x]
  OBVIOUS
<1> HIDE DEF m1, m2, m3, m4, m5
<1>2. HasLocals(l1) /\ HasLocals(l2)
  BY ChangedField
<1> HIDE DEF l1, l2
<1>3. HasLocals(l3)
  BY <1>2, ChangedField
<1> HIDE DEF l3
<1>4. HasLocals(m1) /\ HasLocals(m2) /\ HasLocals(m4)
  BY <1>1, <1>2, ChangedField
<1>5. HasLocals(m3) /\ HasLocals(m5)
  BY <1>1, <1>3, ChangedField
<1> QED
  BY <1>4, <1>5 DEF m1, m2, m3, m4, m5

\* The locals a command begins with.
LEMMA BegunLocals ==
  ASSUME NEW pc, NEW cmd, NEW v, NEW todo
  PROVE  /\ HasLocals([Stopped EXCEPT !.pc = pc, !.cmd = cmd, !.force = v,
                                      !.todo = todo])
         /\ HasLocals([Stopped EXCEPT !.pc = pc, !.cmd = cmd, !.art = v,
                                      !.todo = todo])
<1> DEFINE l1 == [Stopped EXCEPT !.pc = pc]
           l2 == [l1 EXCEPT !.cmd = cmd]
           l3 == [l2 EXCEPT !.force = v]
           l4 == [l2 EXCEPT !.art = v]
<1> DEFINE b == [Stopped EXCEPT !.pc = pc, !.cmd = cmd, !.force = v, !.todo = todo]
           u == [Stopped EXCEPT !.pc = pc, !.cmd = cmd, !.art = v, !.todo = todo]
<1>1. b = [l3 EXCEPT !.todo = todo] /\ u = [l4 EXCEPT !.todo = todo]
  OBVIOUS
<1> HIDE DEF b, u
<1>2. HasLocals(l1)
  BY StoppedFields, ChangedField
<1> HIDE DEF l1
<1>3. HasLocals(l2)
  BY <1>2, ChangedField
<1> HIDE DEF l2
<1>4. HasLocals(l3) /\ HasLocals(l4)
  BY <1>3, ChangedField
<1> HIDE DEF l3, l4
<1>5. HasLocals(b) /\ HasLocals(u)
  BY <1>1, <1>4, ChangedField
<1> QED
  BY <1>5 DEF b, u

\* artifact create and collection create begin at the first file.
LEMMA BeginInv ==
  ASSUME CreateInv, NEW p \in Procs, NEW cmd \in {"create", "collection"},
         NEW force \in BOOLEAN, NEW todo \in Seq(FileSet), todo # <<>>,
         cmd = "collection" => todo = Files, Begin(p, cmd, force, todo)
  PROVE  CreateInv'
<1> DEFINE first == IF cmd = "create" THEN "hash" ELSE "scan"
           l == [Stopped EXCEPT !.pc = first, !.cmd = cmd, !.force = force,
                                !.todo = todo]
<1>2. /\ Step(p, l) /\ content' = content /\ touched' = touched
      /\ artifacts' = artifacts /\ meta' = meta /\ collection' = collection
  BY DEF Begin, Disk
<1>9. first \in {"hash", "scan"} /\ (first = "scan" => cmd = "collection")
  OBVIOUS
<1> HIDE DEF first
<1>1. /\ l.pc = first /\ l.cmd = cmd
      /\ l.force \in BOOLEAN /\ l.todo = todo /\ l.hash = 0 /\ l.art = 0
      /\ l.off = 0 /\ l.pos = 0 /\ l.done = Stopped.done /\ HasLocals(l)
  <2>1. HasLocals(l)
    BY BegunLocals
  <2>2. l.pc = first /\ l.cmd = cmd /\ l.todo = todo
    BY StoppedFields DEF HasLocals
  <2>3. l.force \in BOOLEAN
    BY StoppedFields DEF HasLocals
  <2>4. l.hash = 0 /\ l.art = 0 /\ l.off = 0 /\ l.pos = 0 /\ l.done = Stopped.done
    BY StoppedFields DEF HasLocals
  <2> QED
    BY <2>1, <2>2, <2>3, <2>4
<1> HIDE DEF l
<1>3. l.done \in Seq(Entry) /\ Len(l.done) = 0
  BY <1>1, StoppedFields, EmptySeq
<1>4. l \in Locals
  <2>1. l.pc \in {"hash", "scan"} /\ l.hash \in Nat /\ l.art \in Nat
        /\ l.off \in Nat /\ l.pos \in Nat
    BY <1>1, <1>9
  <2> QED
    BY <1>1, <1>3, <2>1, LocalsFields
<1>5. Entries(artifacts, touched, l.done)
  BY <1>1, StoppedFields DEF Entries
<1>6. OnTheWay(l)
  BY <1>1, <1>3, FilesAreFiles DEF OnTheWay
<1>7. Good(artifacts, touched, content, l)
  BY <1>1, <1>5, <1>6, <1>9 DEF Good, Sending, Hashed
<1> QED
  BY <1>2, <1>4, <1>7, LocalStep

\* artifact upload begins with an artifact that exists.
LEMMA BeginUploadInv ==
  ASSUME CreateInv, NEW p \in Procs, NEW art \in DOMAIN artifacts,
         NEW f \in FileSet, BeginUpload(p, art, f)
  PROVE  CreateInv'
<1> DEFINE l == [Stopped EXCEPT !.pc = "head", !.cmd = "upload", !.art = art,
                                !.todo = <<f>>]
<1>1. /\ l.pc = "head" /\ l.cmd = "upload" /\ l.force = FALSE /\ l.todo = <<f>>
      /\ l.hash = 0 /\ l.art = art /\ l.off = 0 /\ l.pos = 0
      /\ l.done = Stopped.done /\ HasLocals(l)
  <2>1. HasLocals(l)
    BY BegunLocals
  <2>2. l.pc = "head" /\ l.cmd = "upload" /\ l.art = art /\ l.todo = <<f>>
    BY StoppedFields DEF HasLocals
  <2>3. /\ l.force = FALSE /\ l.hash = 0 /\ l.off = 0 /\ l.pos = 0
        /\ l.done = Stopped.done
    BY StoppedFields DEF HasLocals
  <2> QED
    BY <2>1, <2>2, <2>3
<1>2. /\ Step(p, l) /\ content' = content /\ touched' = touched
      /\ artifacts' = artifacts /\ meta' = meta /\ collection' = collection
  BY DEF BeginUpload, Disk
<1> HIDE DEF l
<1>3. art \in 1..Len(artifacts) /\ art \in Nat
  BY Before, LenProperties
<1>4. l.done \in Seq(Entry) /\ l.todo \in Seq(FileSet) /\ l.todo # <<>>
  BY <1>1, StoppedFields, EmptySeq
<1>5. l \in Locals
  <2>1. /\ l.pc \in {"head"} /\ l.hash \in Nat /\ l.art \in Nat
        /\ l.off \in Nat /\ l.pos \in Nat
    BY <1>1, <1>3
  <2> QED
    BY <1>1, <1>4, <2>1, LocalsFields
<1>6. Entries(artifacts, touched, l.done)
  BY <1>1, StoppedFields DEF Entries
<1>7. Good(artifacts, touched, content, l)
  BY <1>1, <1>3, <1>4, <1>6 DEF Good, Sending, Hashed, OnTheWay
<1> QED
  BY <1>2, <1>5, <1>7, LocalStep

\* One entry more and one file less.
LEMMA OneMore ==
  ASSUME NEW a \in Nat, NEW b \in Nat, a = b + 1
  PROVE  /\ \A c, d \in Nat : c = d - 1 => a + c = b + d
         /\ \A i \in Nat : a + i = b + (i + 1)
OBVIOUS

\* A file that is an artifact becomes an entry of the collection.
LEMMA NextFileIsGood ==
  ASSUME NEW arts, NEW t, NEW c, NEW l \in Locals, NEW k \in Nat,
         l.cmd # "upload", l.todo # <<>>, OnTheWay(l), Entries(arts, t, l.done),
         l.pc # "idle", Sound(arts, t, l.todo[1], l.hash, k)
  PROVE  NextFile(l, k) \in Locals /\ Good(arts, t, c, NextFile(l, k))
<1>1. CASE l.cmd = "create"
  BY <1>1, StoppedFields, StoppedIsGood DEF NextFile
<1>2. CASE l.cmd = "collection"
  <2> DEFINE e == [file |-> Head(l.todo), hash |-> l.hash, art |-> k]
             m == NextFile(l, k)
  <2>1. /\ l.todo \in Seq(FileSet) /\ l.hash \in Nat /\ l.done \in Seq(Entry)
        /\ Len(l.done) \in Nat /\ Len(l.todo) \in Nat
    BY LocalsFields, LenProperties
  <2>2. /\ Len(l.todo) >= 1 /\ Head(l.todo) = l.todo[1] /\ l.todo[1] \in FileSet
        /\ Tail(l.todo) \in Seq(FileSet) /\ Len(Tail(l.todo)) = Len(l.todo) - 1
        /\ \A i \in 1..Len(Tail(l.todo)) : Tail(l.todo)[i] = l.todo[i + 1]
    BY <2>1, FirstOf
  <2>3. e \in Entry /\ e.file = l.todo[1] /\ e.hash = l.hash /\ e.art = k
    BY <2>1, <2>2 DEF Entry
  <2>4. /\ m.pc = (IF Len(l.todo) = 1 THEN "collect" ELSE "scan")
        /\ m.cmd = "collection" /\ m.todo = Tail(l.todo)
        /\ m.done = Append(l.done, e)
        /\ m.force = FALSE /\ m.hash = 0 /\ m.art = 0 /\ m.off = 0 /\ m.pos = 0
        /\ HasLocals(m)
    BY <1>2, StoppedFields DEF NextFile, HasLocals
  <2> HIDE DEF e, m
  <2>5. /\ m.done \in Seq(Entry) /\ Len(m.done) = Len(l.done) + 1
        /\ \A i \in 1..Len(l.done) : m.done[i] = l.done[i]
        /\ m.done[Len(l.done) + 1] = e
    BY <2>1, <2>3, <2>4, AppendProperties
  <2>6. m \in Locals
    <3>1. /\ m.pc \in {"collect", "scan"} /\ m.hash \in Nat /\ m.art \in Nat
          /\ m.off \in Nat /\ m.pos \in Nat /\ m.todo \in Seq(FileSet)
      BY <2>2, <2>4
    <3> QED
      BY <2>4, <2>5, <3>1, LocalsFields
  <2>7. /\ Len(l.done) + Len(l.todo) = Len(Files)
        /\ \A i \in 1..Len(l.todo) : Files[Len(l.done) + i] = l.todo[i]
    BY <1>2 DEF OnTheWay
  <2>8. Entries(arts, t, m.done)
    <3> SUFFICES ASSUME NEW i \in 1..Len(m.done)
                 PROVE  /\ Sound(arts, t, m.done[i].file, m.done[i].hash, m.done[i].art)
                        /\ m.done[i].file = Files[i]
      BY DEF Entries
    <3>1. CASE i \in 1..Len(l.done)
      BY <2>5, <3>1 DEF Entries
    <3>2. CASE i = Len(l.done) + 1
      <4>1. Files[Len(l.done) + 1] = l.todo[1]
        <5>1. 1 \in 1..Len(l.todo)
          BY <2>1, <2>2
        <5> QED
          BY <2>7, <5>1
      <4> QED
        BY <2>3, <2>5, <3>2, <4>1
    <3> QED
      BY <2>1, <2>5, <3>1, <3>2
  <2>9. OnTheWay(m)
    <3>1. Len(m.done) + Len(m.todo) = Len(Files)
      <4>1. Len(m.todo) = Len(l.todo) - 1 /\ Len(m.todo) \in Nat
        BY <2>2, <2>4, LenProperties
      <4>2. Len(m.done) \in Nat
        BY <2>5, LenProperties
      <4>3. Len(m.done) + Len(m.todo) = Len(l.done) + Len(l.todo)
        <5> DEFINE a == Len(m.done) b == Len(l.done) x == Len(m.todo) y == Len(l.todo)
        <5>1. a \in Nat /\ b \in Nat /\ x \in Nat /\ y \in Nat
          BY <2>1, <4>1, <4>2
        <5>2. a = b + 1 /\ x = y - 1
          BY <2>5, <4>1
        <5> HIDE DEF a, b, x, y
        <5>3. a + x = b + y
          BY <5>1, <5>2
        <5> QED
          BY <5>3 DEF a, b, x, y
      <4> QED
        BY <2>7, <4>3
    <3>2. ASSUME NEW i \in 1..Len(m.todo)
          PROVE  Files[Len(m.done) + i] = m.todo[i]
      <4>1. i + 1 \in 1..Len(l.todo) /\ i \in 1..Len(Tail(l.todo)) /\ i \in Nat
        BY <2>1, <2>2, <2>4
      <4>2. Files[Len(l.done) + (i + 1)] = l.todo[i + 1]
        BY <2>7, <4>1
      <4>3. Len(m.done) + i = Len(l.done) + (i + 1)
        <5>1. /\ Len(m.done) = Len(l.done) + 1 /\ i \in Nat /\ Len(l.done) \in Nat
              /\ Len(m.done) \in Nat
          BY <2>1, <2>5, <4>1, LenProperties
        <5> QED
          BY <5>1, OneMore
      <4> QED
        BY <2>2, <2>4, <4>1, <4>2, <4>3
    <3> QED
      BY <3>1, <3>2 DEF OnTheWay
  <2>10. m.pc \notin {"idle", "collect"} => m.todo # <<>>
    <3> SUFFICES ASSUME m.pc \notin {"idle", "collect"} PROVE m.todo # <<>>
      OBVIOUS
    <3>1. Len(l.todo) # 1
      BY <2>4
    <3>2. Len(m.todo) = Len(l.todo) - 1 /\ Len(l.todo) >= 1 /\ Len(l.todo) \in Nat
      BY <2>1, <2>2, <2>4
    <3>3. Len(m.todo) # 0
      BY <3>1, <3>2
    <3> QED
      BY <3>3, EmptySeq
  <2>11. m.pc = "collect" => m.cmd = "collection" /\ m.todo = <<>>
    <3> SUFFICES ASSUME m.pc = "collect" PROVE m.cmd = "collection" /\ m.todo = <<>>
      OBVIOUS
    <3>1. Len(l.todo) = 1
      BY <2>4
    <3>2. Len(m.todo) = 0 /\ m.todo \in Seq(FileSet)
      BY <2>2, <2>4, <3>1
    <3> QED
      BY <2>4, <3>2, EmptySeq
  <2>12. m.pc \in {"collect", "scan"}
    BY <2>4
  <2>13. Good(arts, t, c, m)
    BY <2>4, <2>8, <2>9, <2>10, <2>11, <2>12 DEF Good, Sending, Hashed
  <2> QED
    BY <2>6, <2>13 DEF m
<1> QED
  BY <1>1, <1>2, LocalsFields

\* A file on record is passed over: its record is sound, and of its hash.
LEMMA LookUpInv ==
  ASSUME CreateInv, NEW p \in Procs, NEW force \in BOOLEAN,
         NEW pc \in {"hash", "create"}, LookUp(p, force, pc),
         \/ proc[p].pc = "scan" /\ pc = "hash"
         \/ proc[p].pc = "hash" /\ pc = "create"
  PROVE  CreateInv'
<1> DEFINE f == File(p)
           r == proc[p]
           h == [proc[p] EXCEPT !.hash = content[f]]
<1>1. /\ r \in Locals /\ Good(artifacts, touched, content, r)
      /\ content \in [FileSet -> Nat] /\ meta \in [FileSet -> [hash: Nat, art: Nat]]
  BY Before
<1>2. r.todo # <<>> /\ r.todo \in Seq(FileSet) /\ r.cmd # "upload"
  BY <1>1, LocalsFields DEF Good
<1>3. f = r.todo[1] /\ f \in FileSet /\ content[f] \in Nat /\ meta[f].art \in Nat
  BY <1>1, <1>2, FirstOf DEF File
<1>4. /\ content' = content /\ touched' = touched
      /\ artifacts' = artifacts /\ meta' = meta /\ collection' = collection
      /\ Step(p, IF IsRecorded(f) /\ ~force THEN NextFile(h, meta[f].art)
                 ELSE [h EXCEPT !.pc = pc])
  BY DEF LookUp, Disk
<1> HIDE DEF f, r
<1>5. HasLocals(r)
  BY <1>1, LocalsFields
<1>6. /\ h.pc = r.pc /\ h.cmd = r.cmd /\ h.force = r.force /\ h.todo = r.todo
      /\ h.hash = content[f] /\ h.art = r.art /\ h.off = r.off /\ h.pos = r.pos
      /\ h.done = r.done /\ HasLocals(h)
  BY <1>5 DEF HasLocals, r
<1> HIDE DEF h
<1> DEFINE n == [h EXCEPT !.pc = pc]
<1>7. /\ n.pc = pc /\ n.cmd = r.cmd /\ n.force = r.force /\ n.todo = r.todo
      /\ n.hash = content[f] /\ n.art = r.art /\ n.off = r.off /\ n.pos = r.pos
      /\ n.done = r.done /\ HasLocals(n)
  BY <1>6 DEF HasLocals
<1> HIDE DEF n
<1>8. h \in Locals /\ n \in Locals
  BY <1>1, <1>3, <1>6, <1>7, LocalsFields
<1>9. CASE IsRecorded(f) /\ ~force
  <2>1. Sound(artifacts, touched, f, content[f], meta[f].art)
    BY <1>3, <1>9 DEF CreateInv, IsRecorded
  <2>2. Entries(artifacts, touched, h.done) /\ OnTheWay(h)
    BY <1>1, <1>6 DEF Good, OnTheWay
  <2>3. h.pc # "idle"
    BY <1>6 DEF r
  <2>4. /\ NextFile(h, meta[f].art) \in Locals
        /\ Good(artifacts, touched, content, NextFile(h, meta[f].art))
    BY <1>2, <1>3, <1>6, <1>8, <2>1, <2>2, <2>3, NextFileIsGood
  <2> QED
    BY <1>4, <1>9, <2>4, LocalStep
<1>10. CASE ~(IsRecorded(f) /\ ~force)
  <2>1. Entries(artifacts, touched, n.done) /\ OnTheWay(n)
    BY <1>1, <1>6, <1>7 DEF Good, OnTheWay, r
  <2>2. n.off = 0 /\ n.pos = 0
    BY <1>1, <1>7 DEF Good, r
  <2>3. Good(artifacts, touched, content, n)
    BY <1>2, <1>3, <1>7, <2>1, <2>2 DEF Good, Sending, Hashed
  <2> QED
    BY <1>4, <1>8, <1>10, <2>3, LocalStep DEF n
<1> QED
  BY <1>9, <1>10

\* A step within the work on a file leaves the job as it is.
LEMMA SameJob ==
  ASSUME NEW arts \in Seq(Artifact), NEW more \in Seq(Artifact),
         Grows(arts, more), NEW t, NEW c, NEW r \in Locals, Good(arts, t, c, r),
         r.pc \notin {"idle", "collect"}, NEW l \in Locals,
         l.pc \notin {"idle", "collect", "scan", "hash", "create", "head"},
         l.pc = "meta" => l.cmd # "upload",
         l.pc = "skip" => l.cmd = "upload",
         l.cmd = r.cmd, l.todo = r.todo, l.done = r.done,
         Sending(more, t, l), Hashed(t, c, l)
  PROVE  Good(more, t, c, l)
<1>1. l.todo # <<>>
  BY DEF Good
<1>2. Entries(more, t, l.done)
  BY EntriesGrow DEF Good
<1>3. OnTheWay(l)
  BY DEF Good, OnTheWay
<1> QED
  BY <1>1, <1>2, <1>3 DEF Good

\* artifact upload goes on where the artifact ends.
LEMMA AskOffsetInv ==
  ASSUME CreateInv, NEW p \in Procs, AskOffset(p)
  PROVE  CreateInv'
<1> DEFINE r == proc[p]
           l == [r EXCEPT !.pc = "skip", !.off = Stored(p)]
<1>1. /\ r \in Locals /\ Good(artifacts, touched, content, r)
      /\ artifacts \in Seq(Artifact) /\ Grows(artifacts, artifacts)
      /\ r.pc = "head" /\ HasLocals(r)
  BY Before, GrowsSelf, LocalsFields DEF AskOffset
<1>2. /\ content' = content /\ touched' = touched
      /\ artifacts' = artifacts /\ meta' = meta /\ collection' = collection
      /\ Step(p, IF Stored(p) >= Parts THEN Stopped ELSE l)
  BY DEF AskOffset, Disk
<1>3. r.cmd = "upload" /\ r.art \in 1..Len(artifacts)
  BY <1>1 DEF Good, Sending
<1>4. Stored(p) \in Nat
  BY <1>1, <1>3, ArtifactFields DEF Stored
<1> HIDE DEF r
<1>5. /\ l.pc = "skip" /\ l.off = Stored(p) /\ l.cmd = r.cmd
      /\ l.force = r.force /\ l.todo = r.todo /\ l.hash = r.hash
      /\ l.art = r.art /\ l.pos = r.pos /\ l.done = r.done /\ HasLocals(l)
  <2>1. HasLocals(l)
    BY <1>1, ChangedFields
  <2> QED
    BY <1>1, <2>1 DEF HasLocals
<1> HIDE DEF l
<1>6. CASE Stored(p) >= Parts
  BY <1>2, <1>6, EndStep
<1>7. CASE ~(Stored(p) >= Parts)
  <2>1. l \in Locals
    BY <1>1, <1>4, <1>5, LocalsFields
  <2>2. Stored(p) < Parts
    BY <1>4, <1>7, FilesAreFiles
  <2>3. Sending(artifacts, touched, l)
    BY <1>3, <1>5, <2>2 DEF Sending
  <2>4. Hashed(touched, content, l)
    BY <1>5 DEF Hashed
  <2>5. Good(artifacts, touched, content, l)
    BY <1>1, <1>3, <1>5, <2>1, <2>3, <2>4, SameJob
  <2> QED
    BY <1>2, <1>7, <2>1, <2>5, LocalStep
<1> QED
  BY <1>6, <1>7

\* The reader comes to the offset.
LEMMA SkipStoredInv ==
  ASSUME CreateInv, NEW p \in Procs, SkipStored(p)
  PROVE  CreateInv'
<1> DEFINE r == proc[p]
           l == [r EXCEPT !.pc = "data", !.pos = r.off]
<1>1. /\ r \in Locals /\ Good(artifacts, touched, content, r)
      /\ artifacts \in Seq(Artifact) /\ Grows(artifacts, artifacts)
      /\ r.pc = "skip" /\ HasLocals(r)
  BY Before, GrowsSelf, LocalsFields DEF SkipStored
<1>2. /\ content' = content /\ touched' = touched
      /\ artifacts' = artifacts /\ meta' = meta /\ collection' = collection
      /\ Step(p, l)
  BY DEF SkipStored, Disk
<1>3. r.cmd = "upload" /\ r.art \in 1..Len(artifacts) /\ r.off < Parts
  BY <1>1 DEF Good, Sending
<1> HIDE DEF r
<1>4. /\ l.pc = "data" /\ l.pos = r.off /\ l.off = r.off /\ l.cmd = r.cmd
      /\ l.force = r.force /\ l.todo = r.todo /\ l.hash = r.hash
      /\ l.art = r.art /\ l.done = r.done /\ HasLocals(l)
  <2>1. HasLocals(l)
    BY <1>1, ChangedFields
  <2> QED
    BY <1>1, <2>1 DEF HasLocals
<1> HIDE DEF l
<1>5. l \in Locals
  BY <1>1, <1>4, LocalsFields
<1>6. Sending(artifacts, touched, l)
  BY <1>3, <1>4 DEF Sending
<1>7. Hashed(touched, content, l)
  BY <1>3, <1>4 DEF Hashed
<1>8. Good(artifacts, touched, content, l)
  BY <1>1, <1>4, <1>5, <1>6, <1>7, SameJob
<1> QED
  BY <1>2, <1>5, <1>8, LocalStep

\* What was uploaded is known until it is recorded.
LEMMA ReadStatusInv ==
  ASSUME CreateInv, NEW p \in Procs, ReadStatus(p)
  PROVE  CreateInv'
<1> DEFINE r == proc[p]
           l == [r EXCEPT !.pc = "meta"]
<1>1. /\ r \in Locals /\ Good(artifacts, touched, content, r)
      /\ artifacts \in Seq(Artifact) /\ Grows(artifacts, artifacts)
      /\ r.pc = "status" /\ HasLocals(r)
  BY Before, GrowsSelf, LocalsFields DEF ReadStatus
<1>2. /\ content' = content /\ touched' = touched
      /\ artifacts' = artifacts /\ meta' = meta /\ collection' = collection
      /\ Step(p, IF r.cmd = "upload" THEN Stopped ELSE l)
  BY DEF ReadStatus, Disk
<1> HIDE DEF r
<1>3. /\ l.pc = "meta" /\ l.pos = r.pos /\ l.off = r.off /\ l.cmd = r.cmd
      /\ l.force = r.force /\ l.todo = r.todo /\ l.hash = r.hash
      /\ l.art = r.art /\ l.done = r.done /\ HasLocals(l)
  BY <1>1 DEF HasLocals
<1> HIDE DEF l
<1>4. CASE r.cmd = "upload"
  BY <1>2, <1>4, EndStep
<1>5. CASE r.cmd # "upload"
  <2>1. l \in Locals
    BY <1>1, <1>3, LocalsFields
  <2>2. Sending(artifacts, touched, l)
    BY <1>1, <1>3 DEF Good, Sending
  <2>3. Hashed(touched, content, l)
    BY <1>3 DEF Hashed
  <2>4. Good(artifacts, touched, content, l)
    BY <1>1, <1>3, <1>5, <2>1, <2>2, <2>3, SameJob
  <2> QED
    BY <1>2, <1>5, <2>1, <2>4, LocalStep
<1> QED
  BY <1>4, <1>5

\* A part that is stored comes after those that are there.
LEMMA StoreGrows ==
  ASSUME CreateInv, NEW p \in Procs, proc[p].pc = "data",
         proc[p].off = Stored(p), NEW n \in {Cut, proc[p].off + 1}, Store(p, n)
  PROVE  /\ artifacts' \in Seq(Artifact) /\ Grows(artifacts, artifacts')
         /\ InPlace(artifacts') /\ Len(artifacts') = Len(artifacts)
         /\ LET a == artifacts[proc[p].art]
                b == artifacts'[proc[p].art]
            IN  /\ proc[p].art \in 1..Len(artifacts) /\ b.file = a.file
                /\ Len(a.data) = proc[p].off /\ Len(b.data) = proc[p].off + 1
                /\ \A i \in 1..Len(a.data) : b.data[i] = a.data[i]
                /\ b.data[proc[p].off + 1] = Read(p, n)
<1> DEFINE r == proc[p]
           k == r.art
           a == artifacts[k]
           more == [artifacts EXCEPT ![k].data = Append(@, Read(p, n))]
<1>1. /\ r \in Locals /\ Good(artifacts, touched, content, r)
      /\ artifacts \in Seq(Artifact) /\ content \in [FileSet -> Nat]
      /\ InPlace(artifacts) /\ Len(artifacts) \in Nat
  BY Before DEF CreateInv
<1>2. k \in 1..Len(artifacts) /\ r.off < Parts /\ r.off \in Nat
  BY <1>1, LocalsFields DEF Good, Sending
<1>3. r.todo # <<>> /\ r.todo \in Seq(FileSet) /\ File(p) \in FileSet
  <2>1. r.todo # <<>> /\ r.todo \in Seq(FileSet)
    BY <1>1, LocalsFields DEF Good
  <2> QED
    BY <2>1, FirstOf DEF File
<1>4. Read(p, n) \in Part /\ Read(p, n).part = n
  <2>1. content[File(p)] \in Nat /\ n \in Nat
    BY <1>1, <1>2, <1>3 DEF Cut
  <2> QED
    BY <2>1 DEF Read, Part
<1>5. a \in Artifact /\ a.data \in Seq(Part) /\ a.file \in FileSet
  BY <1>1, <1>2, ArtifactFields
<1>6. Len(a.data) = r.off
  BY DEF Stored
<1> DEFINE d == Append(a.data, Read(p, n))
           b == [a EXCEPT !.data = d]
<1>7. /\ d \in Seq(Part) /\ Len(d) = r.off + 1 /\ d[r.off + 1] = Read(p, n)
      /\ \A i \in 1..Len(a.data) : d[i] = a.data[i]
  BY <1>4, <1>5, <1>6, AppendProperties
<1>8. artifacts' = more
  BY DEF Store
<1>9. more = [artifacts EXCEPT ![k] = b]
  OBVIOUS
<1> HIDE DEF d, more, r
<1>10. b \in Artifact /\ b.file = a.file /\ b.data = d
  BY <1>5, <1>7 DEF Artifact
<1> HIDE DEF b
<1>11. /\ more \in Seq(Artifact) /\ Len(more) = Len(artifacts)
       /\ \A i \in 1..Len(artifacts) : more[i] = IF i = k THEN b ELSE artifacts[i]
  <2>1. /\ more \in Seq(Artifact) /\ Len(more) = Len(artifacts)
        /\ \A i \in 1..Len(artifacts) : more[i] = IF i = k THEN b ELSE artifacts[i]
    BY <1>1, <1>2, <1>9, <1>10, ExceptSeq
  <2> QED
    BY <2>1
<1>12. Len(a.data) <= Len(b.data) /\ Len(b.data) <= Parts
  BY <1>2, <1>6, <1>7, <1>10, FilesAreFiles
<1>13. Grows(artifacts, more)
  <2>1. Len(artifacts) <= Len(more)
    BY <1>1, <1>11
  <2> SUFFICES ASSUME NEW j \in 1..Len(artifacts)
               PROVE  /\ more[j].file = artifacts[j].file
                      /\ Len(artifacts[j].data) <= Len(more[j].data)
                      /\ \A i \in 1..Len(artifacts[j].data) :
                           more[j].data[i] = artifacts[j].data[i]
    BY <2>1 DEF Grows
  <2>2. CASE j = k
    BY <1>7, <1>10, <1>11, <1>12, <2>2
  <2>3. CASE j # k
    <3>1. more[j] = artifacts[j] /\ Len(artifacts[j].data) \in Nat
      BY <1>1, <1>11, <2>3, ArtifactFields
    <3> QED
      BY <3>1
  <2> QED
    BY <2>2, <2>3
<1>14. InPlace(more)
  <2> SUFFICES ASSUME NEW j \in 1..Len(artifacts)
               PROVE  /\ Len(more[j].data) <= Parts
                      /\ \A i \in 1..Len(more[j].data) :
                           more[j].data[i].part \in {Cut, i}
    BY <1>11 DEF InPlace
  <2>1. CASE j = k
    <3>1. more[j] = b
      BY <1>11, <2>1
    <3>2. ASSUME NEW i \in 1..Len(b.data) PROVE b.data[i].part \in {Cut, i}
      <4>1. CASE i \in 1..Len(a.data)
        BY <1>1, <1>2, <1>7, <1>10, <4>1 DEF InPlace
      <4>2. CASE i = r.off + 1
        BY <1>4, <1>7, <1>10, <4>2 DEF r
      <4> QED
        BY <1>2, <1>6, <1>7, <1>10, <4>1, <4>2
    <3> QED
      BY <1>12, <3>1, <3>2
  <2>2. CASE j # k
    BY <1>1, <1>11, <2>2 DEF InPlace
  <2> QED
    BY <2>1, <2>2
<1>15. artifacts'[k] = b
  BY <1>2, <1>8, <1>11
<1> QED
  BY <1>2, <1>6, <1>7, <1>8, <1>10, <1>11, <1>13, <1>14, <1>15 DEF r

\* The rest of a step that changes artifacts only.
LEMMA ArtifactStep ==
  ASSUME CreateInv, NEW p \in Procs, NEW l \in Locals, Step(p, l),
         content' = content, touched' = touched, meta' = meta,
         collection' = collection,
         artifacts' \in Seq(Artifact), Grows(artifacts, artifacts'),
         InPlace(artifacts'), Good(artifacts', touched, content, l)
  PROVE  CreateInv'
<1>1. /\ artifacts \in Seq(Artifact)
      /\ meta \in [FileSet -> [hash: Nat, art: Nat]]
      /\ \A f \in FileSet : meta[f] # None =>
           Sound(artifacts, touched, f, meta[f].hash, meta[f].art)
      /\ collection \in Seq(Entry) /\ Entries(artifacts, touched, collection)
      /\ collection # <<>> => Len(collection) = Len(Files)
  BY DEF CreateInv, Types
<1>2. \A f \in FileSet : meta'[f] # None =>
        Sound(artifacts', touched, f, meta'[f].hash, meta'[f].art)
  BY <1>1, SoundGrows
<1>3. Entries(artifacts', touched, collection')
  BY <1>1, EntriesGrow
<1>4. /\ meta' \in [FileSet -> [hash: Nat, art: Nat]]
      /\ collection' \in Seq(Entry)
      /\ collection' # <<>> => Len(collection') = Len(Files)
  BY <1>1
<1> QED
  BY <1>2, <1>3, <1>4, StepInv

\* A PATCH that was cut leaves no part out of its place, and no command
\* behind that would rely on it.
LEMMA SendPartFailsInv ==
  ASSUME CreateInv, NEW p \in Procs, SendPartFails(p)
  PROVE  CreateInv'
<1>1. /\ proc[p].pc = "data" /\ proc[p].off = Stored(p) /\ Store(p, Cut)
      /\ Step(p, Stopped) /\ content' = content /\ touched' = touched
      /\ meta' = meta /\ collection' = collection
  BY DEF SendPartFails, Disk
<1>2. /\ artifacts' \in Seq(Artifact) /\ Grows(artifacts, artifacts')
      /\ InPlace(artifacts')
  BY <1>1, StoreGrows
<1>3. Stopped \in Locals /\ Good(artifacts', touched, content, Stopped)
  BY StoppedFields, StoppedIsGood
<1> QED
  BY <1>1, <1>2, <1>3, ArtifactStep

\* A part of the hashed content is added to the parts before it; after the
\* last one the artifact is the file.
LEMMA SendPartInv ==
  ASSUME CreateInv, NEW p \in Procs, SendPart(p)
  PROVE  CreateInv'
<1> DEFINE r == proc[p]
           a == artifacts[r.art]
           b == artifacts'[r.art]
           on == [r EXCEPT !.off = @ + 1, !.pos = @ + 1]
           end == [r EXCEPT !.pc = "status", !.off = 0, !.pos = 0]
<1>1. /\ r \in Locals /\ Good(artifacts, touched, content, r)
      /\ artifacts \in Seq(Artifact) /\ r.pc = "data" /\ HasLocals(r)
  BY Before, LocalsFields DEF SendPart
<1>2. /\ content' = content /\ touched' = touched /\ meta' = meta
      /\ collection' = collection /\ r.off = Stored(p)
      /\ Store(p, r.pos + 1) /\ Step(p, PartSent(r))
  BY DEF SendPart, Disk
<1>3. /\ r.off < Parts /\ r.pos = r.off /\ r.off \in Nat /\ r.art \in Nat
      /\ r.pos \in Nat /\ r.off + 1 \in Nat
  BY <1>1, LocalsFields DEF Good, Sending
<1>4. /\ artifacts' \in Seq(Artifact) /\ Grows(artifacts, artifacts')
      /\ InPlace(artifacts') /\ Len(artifacts') = Len(artifacts)
      /\ r.art \in 1..Len(artifacts) /\ b.file = a.file
      /\ Len(a.data) = r.off /\ Len(b.data) = r.off + 1
      /\ \A i \in 1..Len(a.data) : b.data[i] = a.data[i]
      /\ b.data[r.off + 1] = Read(p, r.off + 1)
  BY <1>1, <1>2, <1>3, StoreGrows
<1>5. Read(p, r.off + 1) = [of |-> content[r.todo[1]], part |-> r.off + 1]
  <2>1. r.todo \in Seq(FileSet) /\ r.todo # <<>>
    BY <1>1, LocalsFields DEF Good
  <2> QED
    BY <2>1, FirstOf DEF Read, File
<1>6. PartSent(r) = IF r.off + 1 < Parts THEN on ELSE end
  BY DEF PartSent
<1> HIDE DEF r, a, b
<1>7. /\ on.pc = r.pc /\ on.off = r.off + 1 /\ on.pos = r.pos + 1 /\ on.cmd = r.cmd
      /\ on.force = r.force /\ on.todo = r.todo /\ on.hash = r.hash
      /\ on.art = r.art /\ on.done = r.done /\ HasLocals(on)
  <2>1. HasLocals(on)
    BY <1>1, ChangedFields
  <2> QED
    BY <1>1, <2>1 DEF HasLocals
<1>8. /\ end.pc = "status" /\ end.off = 0 /\ end.pos = 0 /\ end.cmd = r.cmd
      /\ end.force = r.force /\ end.todo = r.todo /\ end.hash = r.hash
      /\ end.art = r.art /\ end.done = r.done /\ HasLocals(end)
  <2>1. HasLocals(end)
    BY <1>1, ChangedFields
  <2> QED
    BY <1>1, <2>1 DEF HasLocals
<1> HIDE DEF on, end
<1>9. on \in Locals /\ end \in Locals
  BY <1>1, <1>3, <1>7, <1>8, LocalsFields
<1>10. /\ r.cmd # "upload" => b.file = r.todo[1]
       /\ r.cmd # "upload" /\ r.todo[1] \notin touched =>
            Holds(b, r.hash, r.off + 1)
  <2>1. r.todo # <<>>
    BY <1>1 DEF Good
  <2>2. r.cmd # "upload" => b.file = r.todo[1]
    BY <1>1, <1>4, <2>1 DEF Good, Sending, a
  <2>3. ASSUME r.cmd # "upload", r.todo[1] \notin touched
        PROVE  Holds(b, r.hash, r.off + 1)
    <3>1. Holds(a, r.hash, r.off)
      BY <1>1, <2>1, <2>3 DEF Good, Sending, a
    <3>2. r.hash = content[r.todo[1]]
      BY <1>1, <2>3 DEF Good, Hashed
    <3>3. ASSUME NEW i \in 1..(r.off + 1)
          PROVE  b.data[i] = [of |-> r.hash, part |-> i]
      <4>1. CASE i = r.off + 1
        BY <1>4, <1>5, <3>2, <4>1
      <4>2. CASE i \in 1..r.off
        BY <1>4, <3>1, <4>2 DEF Holds
      <4> QED
        BY <1>3, <4>1, <4>2
    <3>4. r.off + 1 <= Len(b.data)
      BY <1>3, <1>4
    <3> QED
      BY <3>3, <3>4 DEF Holds
  <2> QED
    BY <2>2, <2>3
<1>11. r.art \in 1..Len(artifacts')
  BY <1>4
<1>12. CASE r.off + 1 < Parts
  <2>1. Sending(artifacts', touched, on)
    BY <1>1, <1>3, <1>7, <1>10, <1>11, <1>12 DEF Sending, b
  <2>2. Hashed(touched, content, on)
    BY <1>1, <1>7 DEF Good, Hashed
  <2>3. Good(artifacts', touched, content, on)
    BY <1>1, <1>4, <1>7, <1>9, <2>1, <2>2, SameJob
  <2>4. Step(p, on)
    BY <1>2, <1>6, <1>12
  <2> QED
    BY <1>2, <1>4, <1>9, <2>3, <2>4, ArtifactStep
<1>13. CASE ~(r.off + 1 < Parts)
  <2>1. r.off + 1 = Parts
    BY <1>3, <1>13, FilesAreFiles
  <2>2. Sending(artifacts', touched, end)
    <3>1. end.cmd # "upload" => artifacts'[end.art].file = end.todo[1]
      BY <1>8, <1>10 DEF b
    <3>2. end.cmd # "upload" =>
            Sound(artifacts', touched, end.todo[1], end.hash, end.art)
      BY <1>8, <1>10, <1>11, <2>1 DEF b, Sound
    <3> QED
      BY <1>8, <1>11, <3>1, <3>2 DEF Sending
  <2>3. Hashed(touched, content, end)
    BY <1>8 DEF Hashed
  <2>4. Good(artifacts', touched, content, end)
    BY <1>1, <1>4, <1>8, <1>9, <2>2, <2>3, SameJob
  <2>5. Step(p, end)
    BY <1>2, <1>6, <1>13
  <2> QED
    BY <1>2, <1>4, <1>9, <2>4, <2>5, ArtifactStep
<1> QED
  BY <1>12, <1>13

\* A new artifact, and one left over from a lost reply, are empty.
LEMMA CreateRecordInv ==
  ASSUME CreateInv, NEW p \in Procs, CreateRecord(p)
  PROVE  CreateInv'
<1> DEFINE r == proc[p]
           new == [file |-> File(p), data |-> <<>>]
<1>1. /\ r \in Locals /\ Good(artifacts, touched, content, r)
      /\ artifacts \in Seq(Artifact) /\ Len(artifacts) \in Nat
      /\ InPlace(artifacts) /\ r.pc = "create" /\ HasLocals(r)
  BY Before, LocalsFields DEF CreateRecord, CreateInv
<1>2. PICK lost \in 0..1 :
        /\ artifacts' = artifacts \o [i \in 1..(lost + 1) |-> new]
        /\ Step(p, [r EXCEPT !.pc = "data", !.art = Len(artifacts) + lost + 1])
  BY DEF CreateRecord
<1>3. /\ content' = content /\ touched' = touched /\ meta' = meta
      /\ collection' = collection
  BY DEF CreateRecord, Disk
<1>4. /\ r.todo \in Seq(FileSet) /\ r.todo # <<>> /\ r.cmd # "upload"
      /\ r.off = 0 /\ r.pos = 0
  BY <1>1, LocalsFields DEF Good
<1>5. File(p) = r.todo[1] /\ r.todo[1] \in FileSet
  BY <1>4, FirstOf DEF File
<1> DEFINE m == lost + 1
           k == Len(artifacts) + lost + 1
           more == [i \in 1..m |-> new]
           l == [r EXCEPT !.pc = "data", !.art = k]
<1>6. m \in Nat /\ k = Len(artifacts) + m /\ m >= 1 /\ k \in Nat
  BY <1>1
<1>7. new \in Artifact /\ new.file = r.todo[1] /\ new.data = <<>>
  <2>1. <<>> \in Seq(Part)
    BY EmptySeq
  <2> QED
    BY <1>5, <2>1 DEF Artifact
<1> HIDE DEF r, new, m, k
<1>8. more \in Seq(Artifact) /\ Len(more) = m /\ \A i \in 1..m : more[i] = new
  <2>1. more \in [1..m -> Artifact]
    BY <1>7
  <2>2. more \in Seq(Artifact)
    BY <1>6, <2>1, SeqDef
  <2>3. DOMAIN more = 1..m
    OBVIOUS
  <2>4. Len(more) = m
    BY <1>6, <2>2, <2>3, LenProperties
  <2> QED
    BY <2>2, <2>4
<1>9. artifacts' = artifacts \o more /\ Step(p, l)
  BY <1>2 DEF m, k
<1>10. /\ l.pc = "data" /\ l.off = 0 /\ l.pos = 0 /\ l.cmd = r.cmd
       /\ l.force = r.force /\ l.todo = r.todo /\ l.hash = r.hash
       /\ l.art = k /\ l.done = r.done /\ HasLocals(l)
  <2>1. HasLocals(l)
    BY <1>1, ChangedFields
  <2> QED
    BY <1>1, <1>4, <2>1 DEF HasLocals
<1> HIDE DEF l, more
<1>11. /\ artifacts' \in Seq(Artifact) /\ Len(artifacts') = Len(artifacts) + m
       /\ \A i \in 1..Len(artifacts) : artifacts'[i] = artifacts[i]
       /\ \A i \in 1..m : artifacts'[Len(artifacts) + i] = new
  <2>1. /\ artifacts \o more \in Seq(Artifact)
        /\ Len(artifacts \o more) = Len(artifacts) + Len(more)
        /\ \A i \in 1..(Len(artifacts) + Len(more)) : (artifacts \o more)[i] =
             IF i <= Len(artifacts) THEN artifacts[i] ELSE more[i - Len(artifacts)]
    BY <1>1, <1>8, ConcatProperties
  <2>2. ASSUME NEW i \in 1..Len(artifacts) PROVE artifacts'[i] = artifacts[i]
    BY <1>1, <1>6, <1>8, <1>9, <2>1
  <2>3. ASSUME NEW i \in 1..m PROVE artifacts'[Len(artifacts) + i] = new
    <3>1. /\ Len(artifacts) + i \in 1..(Len(artifacts) + m)
          /\ ~(Len(artifacts) + i <= Len(artifacts))
          /\ (Len(artifacts) + i) - Len(artifacts) = i
      BY <1>1, <1>6
    <3> QED
      BY <1>8, <1>9, <2>1, <3>1
  <2> QED
    BY <1>8, <1>9, <2>1, <2>2, <2>3
<1>12. Grows(artifacts, artifacts')
  <2>1. \A i \in 1..Len(artifacts) : Len(artifacts[i].data) \in Nat
    BY <1>1, ArtifactFields
  <2> QED
    BY <1>1, <1>6, <1>11, <2>1 DEF Grows
<1>13. Len(<<>>) = 0 /\ Len(new.data) = 0
  BY <1>7, EmptySeq
<1>14. InPlace(artifacts')
  <2> SUFFICES ASSUME NEW j \in 1..(Len(artifacts) + m)
               PROVE  /\ Len(artifacts'[j].data) <= Parts
                      /\ \A i \in 1..Len(artifacts'[j].data) :
                           artifacts'[j].data[i].part \in {Cut, i}
    BY <1>11 DEF InPlace
  <2>1. CASE j \in 1..Len(artifacts)
    BY <1>1, <1>11, <2>1 DEF InPlace
  <2>2. CASE j \notin 1..Len(artifacts)
    <3>1. j - Len(artifacts) \in 1..m /\ Len(artifacts) + (j - Len(artifacts)) = j
      BY <1>1, <1>6, <2>2
    <3>2. artifacts'[j] = new
      BY <1>11, <3>1
    <3> QED
      BY <1>13, <3>2, FilesAreFiles
  <2> QED
    BY <2>1, <2>2
<1>15. k \in 1..Len(artifacts') /\ artifacts'[k] = new
  <2>1. m \in 1..m
    BY <1>6
  <2>2. artifacts'[Len(artifacts) + m] = new
    BY <1>11, <2>1
  <2>3. k \in 1..(Len(artifacts) + m)
    BY <1>1, <1>6
  <2> QED
    BY <1>6, <1>11, <2>2, <2>3
<1>16. l \in Locals
  BY <1>1, <1>6, <1>10, LocalsFields, <1>4
<1>17. Holds(new, r.hash, 0)
  BY <1>13 DEF Holds
<1>18. Sending(artifacts', touched, l)
  BY <1>7, <1>10, <1>15, <1>17, FilesAreFiles DEF Sending
<1>19. Hashed(touched, content, l)
  BY <1>1, <1>10 DEF Good, Hashed
<1>20. Good(artifacts', touched, content, l)
  BY <1>1, <1>10, <1>11, <1>12, <1>16, <1>18, <1>19, SameJob
<1> QED
  BY <1>3, <1>9, <1>11, <1>12, <1>14, <1>16, <1>20, ArtifactStep

\* The meta file names the artifact that was just uploaded.
LEMMA WriteMetaInv ==
  ASSUME CreateInv, NEW p \in Procs, WriteMeta(p)
  PROVE  CreateInv'
<1> DEFINE r == proc[p]
           f == File(p)
           e == [hash |-> r.hash, art |-> r.art]
           l == NextFile(r, r.art)
<1>1. /\ r \in Locals /\ Good(artifacts, touched, content, r)
      /\ artifacts \in Seq(Artifact) /\ Grows(artifacts, artifacts)
      /\ meta \in [FileSet -> [hash: Nat, art: Nat]] /\ r.pc = "meta"
  BY Before, GrowsSelf DEF WriteMeta
<1>2. /\ content' = content /\ touched' = touched /\ artifacts' = artifacts
      /\ collection' = collection /\ meta' = [meta EXCEPT ![f] = e]
      /\ Step(p, l)
  BY DEF WriteMeta, Disk
<1>3. /\ r.todo \in Seq(FileSet) /\ r.todo # <<>> /\ r.cmd # "upload"
      /\ r.hash \in Nat /\ r.art \in Nat /\ Entries(artifacts, touched, r.done)
      /\ OnTheWay(r)
  BY <1>1, LocalsFields DEF Good
<1>4. f = r.todo[1] /\ f \in FileSet
  BY <1>3, FirstOf DEF File
<1>5. Sound(artifacts, touched, r.todo[1], r.hash, r.art)
  BY <1>1, <1>3 DEF Good, Sending
<1>6. l \in Locals /\ Good(artifacts, touched, content, l)
  BY <1>1, <1>3, <1>5, NextFileIsGood
<1>7. e \in [hash: Nat, art: Nat] /\ e.hash = r.hash /\ e.art = r.art
  BY <1>3
<1> HIDE DEF r, f, e, l
<1>8. meta' \in [FileSet -> [hash: Nat, art: Nat]]
  BY <1>1, <1>2, <1>7
<1>9. ASSUME NEW g \in FileSet, meta'[g] # None
      PROVE  Sound(artifacts, touched, g, meta'[g].hash, meta'[g].art)
  <2>1. CASE g = f
    BY <1>1, <1>2, <1>4, <1>5, <1>7, <2>1
  <2>2. CASE g # f
    BY <1>1, <1>2, <1>9, <2>2 DEF CreateInv
  <2> QED
    BY <2>1, <2>2
<1>10. /\ InPlace(artifacts) /\ collection \in Seq(Entry)
       /\ Entries(artifacts, touched, collection)
       /\ collection # <<>> => Len(collection) = Len(Files)
  BY DEF CreateInv, Types
<1>11. /\ artifacts' \in Seq(Artifact) /\ Grows(artifacts, artifacts')
       /\ InPlace(artifacts') /\ collection' \in Seq(Entry)
       /\ Entries(artifacts', touched, collection')
       /\ collection' # <<>> => Len(collection') = Len(Files)
       /\ Good(artifacts', touched, content, l)
  BY <1>1, <1>2, <1>6, <1>10
<1>12. \A g \in FileSet : meta'[g] # None =>
         Sound(artifacts', touched, g, meta'[g].hash, meta'[g].art)
  BY <1>2, <1>9
<1> QED
  BY <1>2, <1>6, <1>8, <1>11, <1>12, StepInv

\* An unreadable meta file says nothing, and a cut one names no artifact.
LEMMA WriteMetaFailsInv ==
  ASSUME CreateInv, NEW p \in Procs, WriteMetaFails(p)
  PROVE  CreateInv'
<1> DEFINE f == File(p)
           half == [hash |-> proc[p].hash, art |-> 0]
<1>1. /\ artifacts \in Seq(Artifact) /\ Grows(artifacts, artifacts)
      /\ meta \in [FileSet -> [hash: Nat, art: Nat]]
  BY Before, GrowsSelf
<1>2. /\ content' = content /\ touched' = touched /\ artifacts' = artifacts
      /\ collection' = collection /\ Step(p, Stopped)
      /\ meta' = [meta EXCEPT ![f] = None] \/ meta' = [meta EXCEPT ![f] = half]
  BY DEF WriteMetaFails
<1>3. None \in [hash: Nat, art: Nat] /\ half \in [hash: Nat, art: Nat] /\ half.art = 0
  BY Before, LocalsFields DEF None
<1> HIDE DEF f, half
<1>4. meta' \in [FileSet -> [hash: Nat, art: Nat]]
  BY <1>1, <1>2, <1>3
<1>5. ASSUME NEW g \in FileSet, meta'[g] # None
      PROVE  Sound(artifacts', touched, g, meta'[g].hash, meta'[g].art)
  <2>1. meta'[g] = meta[g] \/ meta'[g].art = 0
    BY <1>1, <1>2, <1>3, <1>5
  <2> QED
    BY <1>2, <1>5, <2>1 DEF CreateInv, Sound
<1>6. /\ InPlace(artifacts) /\ collection \in Seq(Entry)
      /\ Entries(artifacts, touched, collection)
      /\ collection # <<>> => Len(collection) = Len(Files)
  BY DEF CreateInv, Types
<1>7. /\ artifacts' \in Seq(Artifact) /\ Grows(artifacts, artifacts')
      /\ InPlace(artifacts') /\ collection' \in Seq(Entry)
      /\ Entries(artifacts', touched, collection')
      /\ collection' # <<>> => Len(collection') = Len(Files)
  BY <1>1, <1>2, <1>6
<1>8. Stopped \in Locals /\ Good(artifacts', touched, content, Stopped)
  BY StoppedFields, StoppedIsGood
<1> QED
  BY <1>2, <1>4, <1>5, <1>7, <1>8, StepInv

\* A collection is written when nothing is left to do.
LEMMA WriteCollectionInv ==
  ASSUME CreateInv, NEW p \in Procs, WriteCollection(p)
  PROVE  CreateInv'
<1> DEFINE r == proc[p]
<1>1. /\ r \in Locals /\ Good(artifacts, touched, content, r)
      /\ artifacts \in Seq(Artifact) /\ Grows(artifacts, artifacts)
      /\ r.pc = "collect"
  BY Before, GrowsSelf DEF WriteCollection
<1>2. /\ content' = content /\ touched' = touched /\ artifacts' = artifacts
      /\ meta' = meta /\ collection' = r.done /\ Step(p, Stopped)
  BY DEF WriteCollection, Disk
<1> HIDE DEF r
<1>3. /\ r.done \in Seq(Entry) /\ Entries(artifacts, touched, r.done)
      /\ r.todo = <<>> /\ r.cmd = "collection"
  BY <1>1, LocalsFields DEF Good
<1>4. Len(r.done) + Len(r.todo) = Len(Files)
  BY <1>1, <1>3 DEF Good, OnTheWay
<1>5. Len(r.done) \in Nat /\ Len(r.todo) = 0
  BY <1>3, LenProperties, EmptySeq
<1>6. Len(r.done) = Len(Files)
  BY <1>4, <1>5, FilesAreFiles
<1>7. /\ InPlace(artifacts) /\ meta \in [FileSet -> [hash: Nat, art: Nat]]
      /\ \A f \in FileSet : meta[f] # None =>
           Sound(artifacts, touched, f, meta[f].hash, meta[f].art)
  BY DEF CreateInv, Types
<1>8. /\ artifacts' \in Seq(Artifact) /\ Grows(artifacts, artifacts')
      /\ InPlace(artifacts') /\ collection' \in Seq(Entry)
      /\ meta' \in [FileSet -> [hash: Nat, art: Nat]]
      /\ Entries(artifacts', touched, collection')
      /\ collection' # <<>> => Len(collection') = Len(Files)
  BY <1>1, <1>2, <1>3, <1>6, <1>7
<1>9. \A f \in FileSet : meta'[f] # None =>
        Sound(artifacts', touched, f, meta'[f].hash, meta'[f].art)
  BY <1>2, <1>7
<1>10. Stopped \in Locals /\ Good(artifacts', touched, content, Stopped)
  BY StoppedFields, StoppedIsGood
<1> QED
  BY <1>2, <1>8, <1>9, <1>10, StepInv

\* A command that fails takes what it knows with it.
LEMMA FailInv ==
  ASSUME CreateInv, NEW p \in Procs, Fail(p)
  PROVE  CreateInv'
<1>1. /\ Step(p, Stopped) /\ content' = content /\ touched' = touched
      /\ artifacts' = artifacts /\ meta' = meta /\ collection' = collection
  BY DEF Fail, Stop, Disk
<1> QED
  BY <1>1, EndStep

\* A file that changes under its upload is known to have changed.
LEMMA ChangeInv ==
  ASSUME CreateInv, NEW f \in FileSet, Change(f)
  PROVE  CreateInv'
<1> DEFINE hit == {g \in {f} : \E p \in Procs :
                     /\ proc[p].pc \in {"create", "data"}
                     /\ proc[p].cmd # "upload"
                     /\ File(p) = g}
<1>1. /\ content' = [content EXCEPT ![f] = content[f] + Len(Files)]
      /\ touched' = touched \cup hit
      /\ meta' = meta /\ artifacts' = artifacts /\ collection' = collection
      /\ proc' = proc
  BY DEF Change
<1>2. /\ artifacts \in Seq(Artifact) /\ Grows(artifacts, artifacts)
      /\ content \in [FileSet -> Nat] /\ touched \subseteq touched'
  BY <1>1, GrowsSelf DEF CreateInv, Types
<1>3. content' \in [FileSet -> Nat]
  BY <1>1, <1>2, FilesAreFiles
<1>4. Types'
  BY <1>1, <1>3 DEF CreateInv, Types
<1>5. InPlace(artifacts')
  BY <1>1 DEF CreateInv
<1>6. ASSUME NEW g \in FileSet, meta'[g] # None
      PROVE  Sound(artifacts', touched', g, meta'[g].hash, meta'[g].art)
  <2>1. Sound(artifacts, touched, g, meta[g].hash, meta[g].art)
    BY <1>1, <1>6 DEF CreateInv
  <2>2. Sound(artifacts, touched', g, meta[g].hash, meta[g].art)
    BY <1>2, <2>1, SoundGrows
  <2> QED
    BY <1>1, <2>2
<1>7. Entries(artifacts', touched', collection')
  <2>1. Entries(artifacts, touched, collection)
    BY DEF CreateInv
  <2>2. Entries(artifacts, touched', collection)
    BY <1>2, <2>1, EntriesGrow
  <2> QED
    BY <1>1, <2>2
<1>8. collection' # <<>> => Len(collection') = Len(Files)
  BY <1>1 DEF CreateInv
<1>9. ASSUME NEW p \in Procs
      PROVE  Good(artifacts', touched', content', proc'[p])
  <2> DEFINE r == proc[p]
  <2>1. r \in Locals /\ Good(artifacts, touched, content, r)
    BY Before
  <2>2. r.todo \in Seq(FileSet)
    BY <2>1, LocalsFields
  <2>3. Hashed(touched', content', r)
    <3> SUFFICES ASSUME r.pc \in {"create", "data"}, r.cmd # "upload",
                        r.todo[1] \notin touched'
                 PROVE  r.hash = content'[r.todo[1]]
      BY DEF Hashed
    <3>1. r.todo # <<>>
      BY <2>1 DEF Good
    <3>2. File(p) = r.todo[1] /\ r.todo[1] \in FileSet
      BY <2>2, <3>1, FirstOf DEF File
    <3>3. r.todo[1] # f
      <4> SUFFICES ASSUME r.todo[1] = f PROVE FALSE
        OBVIOUS
      <4>1. f \in hit
        BY <3>2
      <4> QED
        BY <1>1, <4>1
    <3>4. r.todo[1] \notin touched
      BY <1>2
    <3>5. r.hash = content[r.todo[1]]
      BY <2>1, <3>4 DEF Good, Hashed
    <3> QED
      BY <1>1, <1>2, <3>2, <3>3, <3>5
  <2> HIDE DEF r
  <2>4. Good(artifacts, touched', content', r)
    BY <1>2, <2>1, <2>3, GoodGrows
  <2> QED
    BY <1>1, <2>4 DEF r
<1> QED
  BY <1>4, <1>5, <1>6, <1>7, <1>8, <1>9 DEF CreateInv

-----------------------------------------------------------------------------
(* The invariant, and what follows from it                                 *)

\* The invariant holds at first.
LEMMA CreateInit == Init => CreateInv
<1> SUFFICES ASSUME Init PROVE CreateInv
  OBVIOUS
<1>1. <<>> \in Seq(Artifact) /\ <<>> \in Seq(Entry) /\ Len(<<>>) = 0
  BY EmptySeq
<1>2. content \in [FileSet -> Nat]
  <2> SUFFICES ASSUME NEW f \in FileSet
               PROVE  (CHOOSE i \in DOMAIN Files : Files[i] = f) \in Nat
    BY DEF Init
  <2>1. \E i \in DOMAIN Files : Files[i] = f
    BY DEF FileSet, Range
  <2>2. (CHOOSE i \in DOMAIN Files : Files[i] = f) \in DOMAIN Files
    BY <2>1
  <2> QED
    BY <2>2, FilesAreFiles
<1>3. None \in [hash: Nat, art: Nat]
  BY DEF None
<1>4. meta \in [FileSet -> [hash: Nat, art: Nat]] /\ \A f \in FileSet : meta[f] = None
  BY <1>3 DEF Init
<1>5. proc \in [Procs -> Locals] /\ \A p \in Procs : proc[p] = Stopped
  BY StoppedFields DEF Init
<1>6. Types
  BY <1>1, <1>2, <1>4, <1>5 DEF Init, Types
<1>7. InPlace(artifacts)
  BY <1>1 DEF Init, InPlace
<1>8. Entries(artifacts, touched, collection)
  BY <1>1 DEF Init, Entries
<1>9. \A p \in Procs : Good(artifacts, touched, content, proc[p])
  BY <1>5, StoppedIsGood
<1>10. collection = <<>>
  BY DEF Init
<1> QED
  BY <1>4, <1>6, <1>7, <1>8, <1>9, <1>10 DEF CreateInv

\* Every step preserves it.
LEMMA CreateNext == CreateInv /\ [Next]_vars => CreateInv'
<1> SUFFICES ASSUME CreateInv, [Next]_vars PROVE CreateInv'
  OBVIOUS
<1>1. ASSUME NEW p \in Procs, NEW f \in FileSet, NEW force \in BOOLEAN,
             Begin(p, "create", force, <<f>>)
      PROVE  CreateInv'
  <2>1. <<f>> \in Seq(FileSet) /\ <<f>> # <<>>
    OBVIOUS
  <2> QED
    BY <1>1, <2>1, BeginInv
<1>2. ASSUME NEW p \in Procs, Begin(p, "collection", FALSE, Files)
      PROVE  CreateInv'
  BY <1>2, FilesAreFiles, BeginInv
<1>3. ASSUME NEW p \in Procs, Scan(p) PROVE CreateInv'
  <2>1. LookUp(p, FALSE, "hash") /\ proc[p].pc = "scan"
    BY <1>3 DEF Scan
  <2> QED
    BY <2>1, LookUpInv
<1>4. ASSUME NEW p \in Procs, LookUpMeta(p) PROVE CreateInv'
  <2>1. LookUp(p, proc[p].force, "create") /\ proc[p].pc = "hash"
    BY <1>4 DEF LookUpMeta
  <2>2. proc[p].force \in BOOLEAN
    BY Before, LocalsFields
  <2> QED
    BY <2>1, <2>2, LookUpInv
<1>5. ASSUME NEW p \in Procs, CreateRecord(p) PROVE CreateInv'
  BY <1>5, CreateRecordInv
<1>6. ASSUME NEW p \in Procs, NEW art \in DOMAIN artifacts, NEW f \in FileSet,
             BeginUpload(p, art, f)
      PROVE  CreateInv'
  BY <1>6, BeginUploadInv
<1>7. ASSUME NEW p \in Procs, AskOffset(p) PROVE CreateInv'
  BY <1>7, AskOffsetInv
<1>8. ASSUME NEW p \in Procs, SkipStored(p) PROVE CreateInv'
  BY <1>8, SkipStoredInv
<1>9. ASSUME NEW p \in Procs, SendPart(p) PROVE CreateInv'
  BY <1>9, SendPartInv
<1>10. ASSUME NEW p \in Procs, SendPartFails(p) PROVE CreateInv'
  BY <1>10, SendPartFailsInv
<1>11. ASSUME NEW p \in Procs, ReadStatus(p) PROVE CreateInv'
  BY <1>11, ReadStatusInv
<1>12. ASSUME NEW p \in Procs, WriteMeta(p) PROVE CreateInv'
  BY <1>12, WriteMetaInv
<1>13. ASSUME NEW p \in Procs, WriteMetaFails(p) PROVE CreateInv'
  BY <1>13, WriteMetaFailsInv
<1>14. ASSUME NEW p \in Procs, WriteCollection(p) PROVE CreateInv'
  BY <1>14, WriteCollectionInv
<1>15. ASSUME NEW p \in Procs, Fail(p) PROVE CreateInv'
  BY <1>15, FailInv
<1>16. ASSUME NEW f \in FileSet, Change(f) PROVE CreateInv'
  BY <1>16, ChangeInv
<1>17. CASE UNCHANGED vars
  BY <1>17 DEF vars, CreateInv, Types
<1> QED
  BY <1>1, <1>2, <1>3, <1>4, <1>5, <1>6, <1>7, <1>8, <1>9, <1>10, <1>11, <1>12,
     <1>13, <1>14, <1>15, <1>16, <1>17 DEF Next

-----------------------------------------------------------------------------
(* Ids that name no artifact                                               *)

\* The first file of what is left to do.
LEMMA FileAt ==
  ASSUME CreateInv, NEW p \in Procs, proc[p].pc \notin {"idle", "collect"}
  PROVE  File(p) = proc[p].todo[1] /\ File(p) \in FileSet
<1>1. proc[p].todo \in Seq(FileSet) /\ proc[p].todo # <<>>
  BY Before, LocalsFields DEF Good
<1> QED
  BY <1>1, FirstOf DEF File

\* A step of a process that takes no entry from nowhere.
LEMMA TornStep ==
  ASSUME CreateInv, TornInv, NEW p \in Procs, NEW l, Step(p, l),
         torn \subseteq torn', Explained(torn', l.done),
         collection' = collection \/ collection' = proc[p].done,
         \A f \in FileSet :
           meta'[f] = meta[f] \/ (meta'[f].art = 0 => meta'[f] = None \/ f \in torn')
  PROVE  TornInv'
<1>1. proc'[p] = l /\ \A q \in Procs : q # p => proc'[q] = proc[q]
  BY DEF CreateInv, Types, Step
<1>2. \A q \in Procs : Explained(torn', proc'[q].done)
  BY <1>1 DEF TornInv, Explained
<1>3. Explained(torn', collection')
  BY DEF TornInv, Explained
<1>4. \A f \in FileSet : meta'[f] # None /\ meta'[f].art = 0 => f \in torn'
  BY DEF TornInv
<1> QED
  BY <1>2, <1>3, <1>4 DEF TornInv

\* A step that only goes on with the file, or ends the command.
LEMMA TornQuiet ==
  ASSUME CreateInv, TornInv, NEW p \in Procs, NEW l, Step(p, l),
         torn' = torn, meta' = meta, collection' = collection,
         l.done = proc[p].done \/ l.done = <<>>
  PROVE  TornInv'
<1>1. Explained(torn', proc[p].done) /\ Explained(torn', <<>>)
  BY DEF TornInv, Explained
<1>2. Explained(torn', l.done)
  BY <1>1
<1> QED
  BY <1>2, TornStep

\* The next entry, if it is explained.
LEMMA NextFileExplained ==
  ASSUME NEW l \in Locals, l.todo # <<>>, NEW cut, NEW k \in Nat,
         Explained(cut, l.done), k = 0 => l.todo[1] \in cut
  PROVE  Explained(cut, NextFile(l, k).done)
<1>1. CASE l.cmd = "create"
  BY <1>1, StoppedFields DEF NextFile, Explained
<1>2. CASE l.cmd # "create"
  <2> DEFINE e == [file |-> Head(l.todo), hash |-> l.hash, art |-> k]
             d == NextFile(l, k).done
  <2>1. /\ l.todo \in Seq(FileSet) /\ l.hash \in Nat /\ l.done \in Seq(Entry)
        /\ Len(l.done) \in Nat
    BY LocalsFields, LenProperties
  <2>2. Head(l.todo) = l.todo[1] /\ l.todo[1] \in FileSet
    BY <2>1, FirstOf
  <2>3. e \in Entry /\ e.file = l.todo[1] /\ e.art = k
    BY <2>1, <2>2 DEF Entry
  <2>4. d = Append(l.done, e)
    BY <1>2, StoppedFields DEF NextFile, HasLocals
  <2> HIDE DEF e, d
  <2>5. /\ Len(d) = Len(l.done) + 1
        /\ \A i \in 1..Len(l.done) : d[i] = l.done[i]
        /\ d[Len(l.done) + 1] = e
    BY <2>1, <2>3, <2>4, AppendProperties
  <2>6. ASSUME NEW i \in 1..Len(d), d[i].art = 0 PROVE d[i].file \in cut
    <3>1. CASE i \in 1..Len(l.done)
      BY <2>5, <2>6, <3>1 DEF Explained
    <3>2. CASE i = Len(l.done) + 1
      BY <2>3, <2>5, <2>6, <3>2
    <3> QED
      BY <2>1, <2>5, <3>1, <3>2
  <2> QED
    BY <2>6 DEF Explained, d
<1> QED
  BY <1>1, <1>2

LEMMA TornInit == Init => TornInv
<1> SUFFICES ASSUME Init PROVE TornInv
  OBVIOUS
<1>1. \A f \in FileSet : meta[f] = None
  BY DEF Init
<1>2. collection = <<>> /\ \A p \in Procs : proc[p].done = <<>>
  BY StoppedFields DEF Init
<1> QED
  BY <1>1, <1>2 DEF TornInv, Explained

\* A command begins with no entries.
LEMMA TornBegin ==
  ASSUME CreateInv, TornInv, NEW p \in Procs,
         \/ \E cmd, force, todo : Begin(p, cmd, force, todo)
         \/ \E art, f : BeginUpload(p, art, f)
  PROVE  TornInv'
<1>1. PICK l : /\ Step(p, l) /\ l.done = <<>>
               /\ torn' = torn /\ meta' = meta /\ collection' = collection
  <2>1. ASSUME NEW cmd, NEW force, NEW todo, Begin(p, cmd, force, todo)
        PROVE  \E l : /\ Step(p, l) /\ l.done = <<>>
                      /\ torn' = torn /\ meta' = meta /\ collection' = collection
    BY <2>1, StoppedFields DEF Begin, Disk, HasLocals
  <2>2. ASSUME NEW art, NEW f, BeginUpload(p, art, f)
        PROVE  \E l : /\ Step(p, l) /\ l.done = <<>>
                      /\ torn' = torn /\ meta' = meta /\ collection' = collection
    BY <2>2, StoppedFields DEF BeginUpload, Disk, HasLocals
  <2> QED
    BY <2>1, <2>2
<1> QED
  BY <1>1, TornQuiet

\* A file on record is passed over under the id its meta file holds.
LEMMA TornLookUp ==
  ASSUME CreateInv, TornInv, NEW p \in Procs, NEW force, NEW pc,
         LookUp(p, force, pc), proc[p].pc \in {"scan", "hash"}
  PROVE  TornInv'
<1> DEFINE f == File(p)
           r == proc[p]
           h == [proc[p] EXCEPT !.hash = content[f]]
           n == [h EXCEPT !.pc = pc]
           m == NextFile(h, meta[f].art)
<1>1. /\ torn' = torn /\ meta' = meta /\ collection' = collection
      /\ Step(p, IF IsRecorded(f) /\ ~force THEN m ELSE n)
  BY DEF LookUp, Disk
<1>2. /\ r \in Locals /\ r.todo # <<>> /\ f = r.todo[1] /\ f \in FileSet
      /\ meta[f].art \in Nat /\ content[f] \in Nat
  BY Before, FileAt DEF Good
<1>3. HasLocals(r)
  BY <1>2, LocalsFields
<1>4. /\ h.pc = r.pc /\ h.cmd = r.cmd /\ h.force = r.force /\ h.todo = r.todo
      /\ h.hash = content[f] /\ h.art = r.art /\ h.off = r.off /\ h.pos = r.pos
      /\ h.done = r.done /\ HasLocals(h)
  BY <1>3 DEF HasLocals
<1>5. n.done = r.done
  BY <1>3 DEF HasLocals
<1>6. Explained(torn, r.done)
  BY DEF TornInv
<1> HIDE DEF r, h, n, m
<1>7. CASE IsRecorded(f) /\ ~force
  <2>1. h \in Locals
    BY <1>2, <1>4, LocalsFields
  <2>2. meta[f].art = 0 => f \in torn
    BY <1>2, <1>7 DEF TornInv, IsRecorded
  <2> HIDE DEF f
  <2>3. Explained(torn, m.done)
    BY <1>2, <1>4, <1>6, <2>1, <2>2, NextFileExplained DEF m
  <2>4. Step(p, m)
    BY <1>1, <1>7
  <2> QED
    BY <1>1, <2>3, <2>4, TornStep
<1>8. CASE ~(IsRecorded(f) /\ ~force)
  <2>1. Step(p, n)
    BY <1>1, <1>8
  <2> QED
    BY <1>1, <1>5, <2>1, TornQuiet DEF r
<1> QED
  BY <1>7, <1>8

\* The steps between the look at the meta file and its being written.
LEMMA TornGoesOn ==
  ASSUME CreateInv, TornInv, NEW p \in Procs,
         \/ CreateRecord(p) \/ AskOffset(p) \/ SkipStored(p) \/ SendPart(p)
         \/ SendPartFails(p) \/ ReadStatus(p) \/ Fail(p)
  PROVE  TornInv'
<1>1. HasLocals(proc[p])
  BY Before, LocalsFields
<1>2. /\ torn' = torn /\ meta' = meta /\ collection' = collection
      /\ \E l : Step(p, l) /\ (l.done = proc[p].done \/ l.done = <<>>)
  <2>1. CASE CreateRecord(p)
    <3>1. PICK lost \in 0..1 :
            Step(p, [proc[p] EXCEPT !.pc = "data", !.art = Len(artifacts) + lost + 1])
      BY <2>1 DEF CreateRecord
    <3> DEFINE l == [proc[p] EXCEPT !.pc = "data", !.art = Len(artifacts) + lost + 1]
    <3>2. l.done = proc[p].done
      BY <1>1 DEF HasLocals
    <3> QED
      BY <2>1, <3>1, <3>2 DEF CreateRecord, Disk
  <2>2. CASE AskOffset(p)
    BY <1>1, <2>2, StoppedFields DEF AskOffset, Disk, HasLocals
  <2>3. CASE SkipStored(p)
    <3> DEFINE l == [proc[p] EXCEPT !.pc = "data", !.pos = proc[p].off]
    <3>1. l.done = proc[p].done
      BY <1>1 DEF HasLocals
    <3> QED
      BY <2>3, <3>1 DEF SkipStored, Disk
  <2>4. CASE SendPart(p)
    <3> DEFINE l == PartSent(proc[p])
    <3>1. l.done = proc[p].done
      BY <1>1 DEF PartSent, HasLocals
    <3> QED
      BY <2>4, <3>1 DEF SendPart, Disk
  <2>5. CASE SendPartFails(p)
    BY <2>5, StoppedFields DEF SendPartFails, Disk
  <2>6. CASE ReadStatus(p)
    BY <1>1, <2>6, StoppedFields DEF ReadStatus, Disk, HasLocals
  <2>7. CASE Fail(p)
    BY <2>7, StoppedFields DEF Fail, Stop, Disk
  <2> QED
    BY <2>1, <2>2, <2>3, <2>4, <2>5, <2>6, <2>7
<1> QED
  BY <1>2, TornQuiet

\* What was uploaded has an id, which the meta file and the entry name.
LEMMA TornWriteMeta ==
  ASSUME CreateInv, TornInv, NEW p \in Procs, WriteMeta(p)
  PROVE  TornInv'
<1> DEFINE r == proc[p]
           l == NextFile(r, r.art)
<1>1. /\ torn' = torn /\ collection' = collection /\ Step(p, l) /\ r.pc = "meta"
      /\ meta' = [meta EXCEPT ![File(p)] = [hash |-> r.hash, art |-> r.art]]
  BY DEF WriteMeta, Disk
<1>2. /\ r \in Locals /\ r.todo # <<>> /\ r.art \in 1..Len(artifacts)
      /\ Len(artifacts) \in Nat /\ File(p) \in FileSet
      /\ meta \in [FileSet -> [hash: Nat, art: Nat]]
  BY <1>1, Before, FileAt DEF Good, Sending
<1>3. r.art \in Nat /\ r.art # 0
  BY <1>2
<1> HIDE DEF r
<1>4. Explained(torn, l.done)
  <2>1. Explained(torn, r.done)
    BY DEF TornInv, r
  <2> QED
    BY <1>2, <1>3, <2>1, NextFileExplained
<1>5. \A f \in FileSet : meta'[f] = meta[f] \/ meta'[f].art # 0
  BY <1>1, <1>2, <1>3
<1> HIDE DEF l
<1> QED
  BY <1>1, <1>4, <1>5, TornStep

\* A meta file that is cut is known to be.
LEMMA TornWriteMetaFails ==
  ASSUME CreateInv, TornInv, NEW p \in Procs, WriteMetaFails(p)
  PROVE  TornInv'
<1> DEFINE half == [hash |-> proc[p].hash, art |-> 0]
<1>1. /\ collection' = collection /\ Step(p, Stopped) /\ torn \subseteq torn'
      /\ \/ meta' = [meta EXCEPT ![File(p)] = None]
         \/ meta' = [meta EXCEPT ![File(p)] = half] /\ File(p) \in torn'
  BY DEF WriteMetaFails
<1>2. meta \in [FileSet -> [hash: Nat, art: Nat]]
  BY Before
<1> HIDE DEF half
<1>3. \A f \in FileSet : meta'[f] = meta[f] \/ meta'[f] = None \/ f \in torn'
  BY <1>1, <1>2
<1>4. Explained(torn', Stopped.done)
  BY StoppedFields DEF Explained
<1> QED
  BY <1>1, <1>3, <1>4, TornStep

LEMMA TornNext == CreateInv /\ TornInv /\ [Next]_vars => TornInv'
<1> SUFFICES ASSUME CreateInv, TornInv, [Next]_vars PROVE TornInv'
  OBVIOUS
<1>1. ASSUME NEW p \in Procs, NEW f \in FileSet, NEW force \in BOOLEAN,
             Begin(p, "create", force, <<f>>)
      PROVE  TornInv'
  BY <1>1, TornBegin
<1>2. ASSUME NEW p \in Procs, Begin(p, "collection", FALSE, Files) PROVE TornInv'
  BY <1>2, TornBegin
<1>3. ASSUME NEW p \in Procs, NEW art \in DOMAIN artifacts, NEW f \in FileSet,
             BeginUpload(p, art, f)
      PROVE  TornInv'
  BY <1>3, TornBegin
<1>4. ASSUME NEW p \in Procs, Scan(p) \/ LookUpMeta(p) PROVE TornInv'
  <2>1. CASE Scan(p)
    <3>1. LookUp(p, FALSE, "hash") /\ proc[p].pc = "scan"
      BY <2>1 DEF Scan
    <3> QED
      BY <3>1, TornLookUp
  <2>2. CASE LookUpMeta(p)
    <3>1. LookUp(p, proc[p].force, "create") /\ proc[p].pc = "hash"
      BY <2>2 DEF LookUpMeta
    <3> QED
      BY <3>1, TornLookUp
  <2> QED
    BY <1>4, <2>1, <2>2
<1>5. ASSUME NEW p \in Procs,
             \/ CreateRecord(p) \/ AskOffset(p) \/ SkipStored(p) \/ SendPart(p)
             \/ SendPartFails(p) \/ ReadStatus(p) \/ Fail(p)
      PROVE  TornInv'
  BY <1>5, TornGoesOn
<1>6. ASSUME NEW p \in Procs, WriteMeta(p) \/ WriteMetaFails(p) PROVE TornInv'
  BY <1>6, TornWriteMeta, TornWriteMetaFails
<1>7. ASSUME NEW p \in Procs, WriteCollection(p) PROVE TornInv'
  <2>1. /\ torn' = torn /\ meta' = meta /\ collection' = proc[p].done
        /\ Step(p, Stopped)
    BY <1>7 DEF WriteCollection, Disk
  <2>2. Explained(torn', Stopped.done)
    BY StoppedFields DEF Explained
  <2> QED
    BY <2>1, <2>2, TornStep
<1>8. ASSUME NEW f \in FileSet, Change(f) PROVE TornInv'
  <2>1. UNCHANGED <<meta, collection, proc, torn>>
    BY <1>8 DEF Change
  <2> QED
    BY <2>1 DEF TornInv, Explained
<1>9. CASE UNCHANGED vars
  BY <1>9 DEF vars, TornInv, Explained
<1> QED
  BY <1>1, <1>2, <1>3, <1>4, <1>5, <1>6, <1>7, <1>8, <1>9 DEF Next

\* An artifact of all the parts, and no more, is a copy.
LEMMA CopyOf ==
  ASSUME NEW a \in Artifact, Len(a.data) <= Parts, NEW c, Holds(a, c, Parts)
  PROVE  IsCopy(a, c)
<1>1. a.data \in Seq(Part)
  BY DEF Artifact
<1>2. Len(a.data) = Parts
  BY <1>1, LenProperties, FilesAreFiles DEF Holds
<1>3. a.data = [i \in 1..Len(a.data) |-> a.data[i]]
  BY <1>1, LenProperties
<1>4. \A i \in 1..Parts : a.data[i] = [of |-> c, part |-> i]
  BY DEF Holds
<1> QED
  BY <1>2, <1>3, <1>4 DEF IsCopy

\* The invariants imply ArtifactsExact.
LEMMA ExactFromInv == CreateInv /\ TornInv => ArtifactsExact
<1> SUFFICES ASSUME CreateInv, TornInv PROVE ArtifactsExact
  OBVIOUS
<1>1. artifacts \in Seq(Artifact) /\ InPlace(artifacts)
      /\ DOMAIN artifacts = 1..Len(artifacts)
  BY LenProperties DEF CreateInv, Types
<1>2. ASSUME NEW a \in Range(artifacts), NEW i \in DOMAIN a.data
      PROVE  a.data[i].part \in {Cut, i}
  <2>1. PICK k \in 1..Len(artifacts) : a = artifacts[k]
    BY <1>1 DEF Range
  <2>2. DOMAIN a.data = 1..Len(a.data)
    BY <1>1, <2>1, ArtifactFields, LenProperties
  <2> QED
    BY <1>1, <2>1, <2>2 DEF InPlace
<1>3. ASSUME NEW f \in FileSet \ touched, meta[f] # None, meta[f].art # 0
      PROVE  /\ artifacts[meta[f].art].file = f
             /\ IsCopy(artifacts[meta[f].art], meta[f].hash)
  <2> DEFINE k == meta[f].art
             a == artifacts[k]
  <2>1. k \in 1..Len(artifacts) /\ a.file = f /\ Holds(a, meta[f].hash, Parts)
    BY <1>3 DEF CreateInv, Sound
  <2>2. a \in Artifact /\ Len(a.data) <= Parts
    BY <1>1, <2>1, ArtifactFields DEF InPlace
  <2> HIDE DEF a
  <2>3. IsCopy(a, meta[f].hash)
    BY <2>1, <2>2, CopyOf
  <2> QED
    BY <2>1, <2>3 DEF a
<1>4. \A f \in FileSet : meta[f] # None /\ meta[f].art = 0 => f \in torn
  BY DEF TornInv
<1> QED
  BY <1>2, <1>3, <1>4 DEF ArtifactsExact

\* They imply CollectionExact.
LEMMA CollectionFromInv == CreateInv /\ TornInv => CollectionExact
<1> SUFFICES ASSUME CreateInv, TornInv PROVE CollectionExact
  OBVIOUS
<1>1. /\ artifacts \in Seq(Artifact) /\ InPlace(artifacts)
      /\ collection \in Seq(Entry) /\ Entries(artifacts, touched, collection)
      /\ DOMAIN collection = 1..Len(collection)
      /\ collection # <<>> => Len(collection) = Len(Files)
  BY LenProperties DEF CreateInv, Types
<1>2. ASSUME collection # <<>>
      PROVE  [i \in DOMAIN collection |-> collection[i].file] = Files
  <2>1. DOMAIN collection = DOMAIN Files
    BY <1>1, <1>2, FilesAreFiles
  <2>2. Files = [i \in DOMAIN Files |-> Files[i]]
    BY FilesAreFiles
  <2>3. \A i \in DOMAIN collection : collection[i].file = Files[i]
    BY <1>1 DEF Entries
  <2> QED
    BY <2>1, <2>2, <2>3
<1>3. ASSUME NEW i \in DOMAIN collection, collection[i].file \notin touched,
             collection[i].art # 0
      PROVE  /\ artifacts[collection[i].art].file = collection[i].file
             /\ IsCopy(artifacts[collection[i].art], collection[i].hash)
  <2> DEFINE e == collection[i]
             a == artifacts[e.art]
  <2>1. /\ e.art \in 1..Len(artifacts) /\ a.file = e.file
        /\ Holds(a, e.hash, Parts)
    BY <1>1, <1>3 DEF Entries, Sound
  <2>2. a \in Artifact /\ Len(a.data) <= Parts
    BY <1>1, <2>1, ArtifactFields DEF InPlace
  <2> HIDE DEF a, e
  <2>3. IsCopy(a, e.hash)
    BY <2>1, <2>2, CopyOf
  <2> QED
    BY <2>1, <2>3 DEF a, e
<1>4. \A i \in DOMAIN collection :
        collection[i].art = 0 => collection[i].file \in torn
  BY <1>1 DEF TornInv, Explained
<1> QED
  BY <1>2, <1>3, <1>4 DEF CollectionExact

\* The inductive invariant: what each command knows of the file and of the
\* artifact it is at work on, and where ids that name no artifact come from.
THEOREM CreateInductive == Spec => [](CreateInv /\ TornInv)
<1>1. Init => CreateInv /\ TornInv
  BY CreateInit, TornInit
<1>2. CreateInv /\ TornInv /\ [Next]_vars => (CreateInv /\ TornInv)'
  BY CreateNext, TornNext
<1> QED
  BY <1>1, <1>2, PTL DEF Spec

\* Whatever commands run at once, the parts of every artifact are in their
\* places, and a meta file names an artifact that is a copy of its file; it
\* names none only where one of that file was once cut.
THEOREM MetaNamesCopy == Spec => []ArtifactsExact
BY CreateInductive, ExactFromInv, PTL

\* A collection is written with all files of the directory, in order, and each
\* entry is a copy of the file, or of a file whose meta file was once cut.
THEOREM CollectionIsDirectory == Spec => []CollectionExact
BY CreateInductive, CollectionFromInv, PTL

-----------------------------------------------------------------------------
(* Nothing is uploaded twice                                               *)

\* Artifact k is complete, and its file never changed under an upload.
Full(k) ==
  /\ k \in 1..Len(artifacts)
  /\ Len(artifacts[k].data) = Parts
  /\ artifacts[k].file \notin touched

\* The content its first part is of; for Current ones the file's.
Origin(k)  == artifacts[k].data[1].of
Current(k) == Full(k) /\ Origin(k) = content[artifacts[k].file]

\* No upload and no force; an artifact that is being sent to has as many parts
\* as were sent.
Plain(arts, l) ==
  /\ l.pc # "idle" => l.cmd # "upload" /\ ~l.force
  /\ l.pc = "data" => Len(arts[l.art].data) = l.off

\* A command with locals l has found f not to be on record, and did not yet
\* put it there.
Sends(l, f) == l.pc \in {"create", "data", "status", "meta"} /\ l.todo[1] = f

\* Artifact k is what such a command has sent, or else it is on record.
Known(k) ==
  LET f == artifacts[k].file
  IN  /\ \A p \in Procs : Sends(proc[p], f) =>
           proc[p].pc \in {"status", "meta"} /\ proc[p].art = k
      /\ (\A p \in Procs : ~Sends(proc[p], f)) => IsRecorded(f)

Distinct ==
  \A j, k : /\ Full(j) /\ Full(k)
            /\ artifacts[j].file = artifacts[k].file /\ Origin(j) = Origin(k)
            => j = k

Orderly ==
  /\ \A p, q \in Procs : proc[p].pc # "idle" /\ proc[q].pc # "idle" => p = q
  /\ \A p \in Procs : Plain(artifacts, proc[p])
  /\ \A k : Full(k) => Origin(k) <= content[artifacts[k].file]
  /\ \A k : Current(k) => Known(k)
  /\ Distinct

OnceInv == ~mishap => Orderly

-----------------------------------------------------------------------------
(* OnceInv is inductive relative to CreateInv                              *)

\* What is known of artifact k by a process that is the only one.
KnownBy(l, k) ==
  LET f == artifacts[k].file
  IN  /\ Sends(l, f) => l.pc \in {"status", "meta"} /\ l.art = k
      /\ ~Sends(l, f) => IsRecorded(f)

\* A command that runs alone knows what there is of every file.
LEMMA AloneKnows ==
  ASSUME Orderly, NEW p \in Procs, proc[p].pc # "idle", NEW k, Current(k)
  PROVE  KnownBy(proc[p], k)
<1>1. \A q \in Procs : q # p => proc[q].pc = "idle"
  BY DEF Orderly
<1>2. \A q \in Procs : q # p => \A f : ~Sends(proc[q], f)
  BY <1>1 DEF Sends
<1> QED
  BY <1>2 DEF Orderly, Known, KnownBy

\* A step of the process that runs.
LEMMA OrderlyStep ==
  ASSUME CreateInv, Orderly, NEW p \in Procs, proc[p].pc # "idle",
         NEW l \in Locals, Step(p, l), Plain(artifacts', l),
         \A k : Full(k)' => Origin(k)' <= content'[artifacts'[k].file],
         \A k : Current(k)' =>
           /\ Sends(l, artifacts'[k].file) => l.pc \in {"status", "meta"} /\ l.art = k
           /\ ~Sends(l, artifacts'[k].file) => IsRecorded(artifacts[k].file)',
         Distinct'
  PROVE  Orderly'
<1>1. proc'[p] = l /\ \A q \in Procs : q # p => proc'[q] = proc[q]
  BY DEF CreateInv, Types, Step
<1>2. \A q \in Procs : q # p => proc'[q].pc = "idle"
  BY <1>1 DEF Orderly
<1>3. \A q \in Procs : Plain(artifacts', proc'[q])
  BY <1>1, <1>2 DEF Plain
<1>4. \A q \in Procs : q # p => \A f : ~Sends(proc'[q], f)
  BY <1>2 DEF Sends
<1>5. \A k : Current(k)' => Known(k)'
  BY <1>1, <1>4 DEF Known
<1> QED
  BY <1>2, <1>3, <1>5 DEF Orderly

\* A step that only changes what the process knows.
LEMMA OrderlyLocal ==
  ASSUME CreateInv, Orderly, NEW p \in Procs, proc[p].pc # "idle",
         NEW l \in Locals, Step(p, l), Plain(artifacts, l),
         UNCHANGED <<content, touched, artifacts, meta>>,
         \A k : Current(k) /\ KnownBy(proc[p], k) => KnownBy(l, k)
  PROVE  Orderly'
<1>1. \A k : (Full(k)' <=> Full(k)) /\ (Current(k)' <=> Current(k)) /\ Origin(k)' = Origin(k)
  BY DEF Full, Current, Origin
<1>2. \A k : IsRecorded(artifacts[k].file)' <=> IsRecorded(artifacts[k].file)
  BY DEF IsRecorded
<1>3. \A k : Current(k) => KnownBy(l, k)
  BY AloneKnows
<1>4. \A k : Current(k)' =>
        /\ Sends(l, artifacts'[k].file) => l.pc \in {"status", "meta"} /\ l.art = k
        /\ ~Sends(l, artifacts'[k].file) => IsRecorded(artifacts[k].file)'
  BY <1>1, <1>2, <1>3 DEF KnownBy
<1>5. Distinct' /\ \A k : Full(k)' => Origin(k)' <= content'[artifacts'[k].file]
  BY <1>1 DEF Orderly, Distinct
<1>6. Plain(artifacts', l)
  OBVIOUS
<1> QED
  BY <1>4, <1>5, <1>6, OrderlyStep

\* A command that begins while no other runs has sent nothing.
LEMMA BeginOnce ==
  ASSUME CreateInv, OnceInv, NEW p \in Procs, NEW cmd \in {"create", "collection"},
         NEW force \in BOOLEAN, NEW todo, Begin(p, cmd, force, todo)
  PROVE  OnceInv'
<1> DEFINE first == IF cmd = "create" THEN "hash" ELSE "scan"
           l == [Stopped EXCEPT !.pc = first, !.cmd = cmd, !.force = force,
                                !.todo = todo]
<1>1. /\ Step(p, l) /\ UNCHANGED <<content, touched, artifacts, meta>>
      /\ mishap' = (mishap \/ force \/ \E q \in Procs : proc[q].pc # "idle")
  BY DEF Begin, Disk
<1> SUFFICES ASSUME ~mishap' PROVE Orderly'
  BY DEF OnceInv
<1>2. ~mishap /\ ~force /\ \A q \in Procs : proc[q].pc = "idle"
  <2> DEFINE others == \E q \in Procs : proc[q].pc # "idle"
  <2> SUFFICES ~mishap /\ ~force /\ ~others
    OBVIOUS
  <2>1. mishap' = (mishap \/ force \/ others)
    BY <1>1
  <2> HIDE DEF others
  <2> QED
    BY <2>1, Zenon
<1>3. Orderly
  BY <1>2 DEF OnceInv
<1>4. first \in {"hash", "scan"}
  OBVIOUS
<1> HIDE DEF first
<1>5. l.pc = first /\ l.cmd = cmd /\ l.force = force
  BY StoppedFields DEF HasLocals
<1>6. proc'[p] = l /\ \A q \in Procs : q # p => proc'[q] = proc[q]
  BY <1>1 DEF CreateInv, Types, Step
<1> HIDE DEF l
<1>7. \A q \in Procs : Plain(artifacts', proc'[q])
  BY <1>2, <1>4, <1>5, <1>6 DEF Plain
<1>8. \A q \in Procs : \A f : ~Sends(proc[q], f) /\ ~Sends(proc'[q], f)
  BY <1>2, <1>4, <1>5, <1>6 DEF Sends
<1>9. \A k : (Full(k)' <=> Full(k)) /\ (Current(k)' <=> Current(k)) /\ Origin(k)' = Origin(k)
  BY <1>1 DEF Full, Current, Origin
<1>10. \A k : Known(k) => Known(k)'
  BY <1>1, <1>8 DEF Known, IsRecorded
<1>11. Distinct' /\ \A k : Full(k)' => Origin(k)' <= content'[artifacts'[k].file]
  BY <1>1, <1>3, <1>9 DEF Orderly, Distinct
<1> QED
  BY <1>2, <1>3, <1>6, <1>7, <1>9, <1>10, <1>11 DEF Orderly

\* The locals that go on to the next file send nothing.
LEMMA NextFilePasses ==
  ASSUME NEW l \in Locals, l.cmd # "upload", NEW k
  PROVE  NextFile(l, k).pc \in {"idle", "collect", "scan"}
         /\ Plain({}, NextFile(l, k)) /\ \A f : ~Sends(NextFile(l, k), f)
<1> DEFINE m == NextFile(l, k)
<1>1. CASE l.cmd = "create"
  BY <1>1, StoppedFields DEF NextFile, Plain, Sends
<1>2. CASE l.cmd = "collection"
  <2>1. /\ m.pc \in {"collect", "scan"} /\ m.cmd = l.cmd /\ m.force = FALSE
    BY <1>2, StoppedFields DEF NextFile, HasLocals
  <2> HIDE DEF m
  <2>2. Plain({}, m) /\ \A f : ~Sends(m, f)
    BY <1>2, <2>1 DEF Plain, Sends
  <2> QED
    BY <2>1, <2>2 DEF m
<1> QED
  BY <1>1, <1>2, LocalsFields

\* A file that is not on record has no artifact of its present content.
LEMMA LookUpOnce ==
  ASSUME CreateInv, CreateInv', OnceInv, NEW p \in Procs, NEW force \in BOOLEAN,
         NEW pc \in {"hash", "create"}, LookUp(p, force, pc),
         proc[p].pc \in {"scan", "hash"}, force => proc[p].force
  PROVE  OnceInv'
<1> DEFINE f == File(p)
           r == proc[p]
           h == [proc[p] EXCEPT !.hash = content[f]]
           n == [h EXCEPT !.pc = pc]
           l == IF IsRecorded(f) /\ ~force THEN NextFile(h, meta[f].art) ELSE n
<1>1. /\ Step(p, l) /\ mishap' = mishap
      /\ UNCHANGED <<content, touched, artifacts, meta>>
  BY DEF LookUp, Disk
<1> SUFFICES ASSUME ~mishap PROVE Orderly'
  BY <1>1 DEF OnceInv
<1>2. Orderly
  BY DEF OnceInv
<1>3. /\ r.pc \in {"scan", "hash"} /\ r.pc # "idle"
      /\ r.cmd # "upload" /\ ~r.force /\ f = r.todo[1] /\ HasLocals(r)
  BY <1>2, FileAt, Before, LocalsFields DEF Orderly, Plain
<1>4. proc'[p] = l
  BY <1>1 DEF CreateInv, Types, Step
<1>5. l \in Locals
  BY <1>4 DEF CreateInv, Types
<1>6. h \in Locals /\ h.cmd # "upload"
  <2>1. content[f] \in Nat
    BY <1>3, FileAt DEF CreateInv, Types
  <2>2. r \in Locals
    BY Before
  <2> HIDE DEF f, r
  <2>3. /\ h.pc = r.pc /\ h.cmd = r.cmd /\ h.force = r.force /\ h.todo = r.todo
        /\ h.hash = content[f] /\ h.art = r.art /\ h.off = r.off /\ h.pos = r.pos
        /\ h.done = r.done /\ HasLocals(h)
    BY <1>3 DEF HasLocals, r
  <2> HIDE DEF h
  <2>4. h \in Locals
    BY <2>1, <2>2, <2>3, LocalsFields
  <2> QED
    BY <1>3, <2>3, <2>4 DEF r
<1>7. n.pc = pc /\ n.cmd = r.cmd /\ n.force = r.force /\ n.todo = r.todo
  BY <1>3 DEF HasLocals
<1>8. \A k : ~Sends(r, artifacts[k].file)
  BY <1>3 DEF Sends
<1>9. CASE IsRecorded(f) /\ ~force
  <2> DEFINE m == NextFile(h, meta[f].art)
  <2>1. /\ m.pc \in {"idle", "collect", "scan"} /\ Plain({}, m)
        /\ \A g : ~Sends(m, g)
    BY <1>6, NextFilePasses
  <2>2. l = m
    BY <1>9
  <2> HIDE DEF m, l
  <2>3. Plain(artifacts, l)
    BY <2>1, <2>2 DEF Plain
  <2>4. \A k : KnownBy(r, k) => KnownBy(l, k)
    BY <1>8, <2>1, <2>2 DEF KnownBy
  <2> QED
    BY <1>1, <1>2, <1>3, <1>5, <2>3, <2>4, OrderlyLocal
<1>10. CASE ~IsRecorded(f)
  <2>1. l = n
    BY <1>10
  <2> HIDE DEF n, l
  <2>2. Plain(artifacts, l)
    BY <1>3, <1>7, <2>1 DEF Plain
  <2>3. ASSUME NEW k, KnownBy(r, k) PROVE KnownBy(l, k)
    <3>1. IsRecorded(artifacts[k].file)
      BY <1>8, <2>3 DEF KnownBy
    <3>2. artifacts[k].file # f
      BY <1>10, <3>1
    <3>3. ~Sends(l, artifacts[k].file)
      BY <1>3, <1>7, <2>1, <3>2 DEF Sends
    <3> QED
      BY <3>1, <3>3 DEF KnownBy
  <2> QED
    BY <1>1, <1>2, <1>3, <1>5, <2>2, <2>3, OrderlyLocal
<1> QED
  BY <1>3, <1>9, <1>10

\* The status tells nothing new.
LEMMA ReadStatusOnce ==
  ASSUME CreateInv, CreateInv', OnceInv, NEW p \in Procs, ReadStatus(p)
  PROVE  OnceInv'
<1> DEFINE r == proc[p]
           l == [r EXCEPT !.pc = "meta"]
<1>1. mishap' = mishap /\ r.pc = "status"
      /\ UNCHANGED <<content, touched, artifacts, meta>>
      /\ Step(p, IF r.cmd = "upload" THEN Stopped ELSE l)
  BY DEF ReadStatus, Disk
<1> SUFFICES ASSUME ~mishap PROVE Orderly'
  BY <1>1 DEF OnceInv
<1>2. Orderly
  BY DEF OnceInv
<1>3. r.cmd # "upload" /\ ~r.force /\ HasLocals(r)
  BY <1>1, <1>2, Before, LocalsFields DEF Orderly, Plain
<1>4. Step(p, l)
  BY <1>1, <1>3
<1>5. l \in Locals
  BY <1>4 DEF CreateInv, Types, Step
<1>6. /\ l.pc = "meta" /\ l.cmd = r.cmd /\ l.force = r.force /\ l.todo = r.todo
      /\ l.art = r.art
  BY <1>3 DEF HasLocals
<1> HIDE DEF l
<1>7. Plain(artifacts, l)
  BY <1>3, <1>6 DEF Plain
<1>8. \A k : KnownBy(r, k) => KnownBy(l, k)
  BY <1>1, <1>6 DEF KnownBy, Sends
<1> QED
  BY <1>1, <1>2, <1>4, <1>5, <1>7, <1>8, OrderlyLocal

\* The collection is no artifact.
LEMMA WriteCollectionOnce ==
  ASSUME CreateInv, OnceInv, NEW p \in Procs, WriteCollection(p)
  PROVE  OnceInv'
<1>1. /\ mishap' = mishap /\ proc[p].pc = "collect" /\ Step(p, Stopped)
      /\ UNCHANGED <<content, touched, artifacts, meta>>
  BY DEF WriteCollection, Disk
<1>2. Plain(artifacts, Stopped) /\ \A f : ~Sends(Stopped, f) /\ ~Sends(proc[p], f)
  BY <1>1, StoppedFields DEF Plain, Sends
<1>3. \A k : KnownBy(proc[p], k) => KnownBy(Stopped, k)
  BY <1>2 DEF KnownBy
<1> QED
  BY <1>1, <1>2, <1>3, StoppedFields, OrderlyLocal DEF OnceInv

\* The artifact that is recorded is the one of the file's content, if there is
\* one.
LEMMA WriteMetaOnceOnly ==
  ASSUME CreateInv, CreateInv', OnceInv, NEW p \in Procs, WriteMeta(p)
  PROVE  OnceInv'
<1> DEFINE r == proc[p]
           f == File(p)
           e == [hash |-> r.hash, art |-> r.art]
           l == NextFile(r, r.art)
<1>1. /\ mishap' = mishap /\ r.pc = "meta" /\ Step(p, l)
      /\ UNCHANGED <<content, touched, artifacts>>
      /\ meta' = [meta EXCEPT ![f] = e]
  BY DEF WriteMeta, Disk
<1> SUFFICES ASSUME ~mishap PROVE Orderly'
  BY <1>1 DEF OnceInv
<1>2. Orderly
  BY DEF OnceInv
<1>3. /\ r \in Locals /\ Good(artifacts, touched, content, r) /\ r.cmd # "upload"
      /\ f = r.todo[1] /\ f \in FileSet
  BY <1>1, <1>2, Before, FileAt DEF Orderly, Plain
<1>4. /\ l.pc \in {"idle", "collect", "scan"} /\ Plain({}, l) /\ \A g : ~Sends(l, g)
  BY <1>3, NextFilePasses
<1>5. l \in Locals
  BY <1>1 DEF CreateInv, Types, Step
<1>6. /\ \A g \in FileSet : g # f => meta'[g] = meta[g]
      /\ meta'[f] = e
  BY <1>1, <1>3 DEF CreateInv, Types
<1>7. r.todo # <<>> /\ Sound(artifacts, touched, f, r.hash, r.art)
  BY <1>1, <1>3 DEF Good, Sending
<1> HIDE DEF l
<1>8. \A k : (Full(k)' <=> Full(k)) /\ (Current(k)' <=> Current(k)) /\ Origin(k)' = Origin(k)
  BY <1>1 DEF Full, Current, Origin
<1>9. ASSUME NEW k, Current(k) PROVE IsRecorded(artifacts[k].file)'
  <2> DEFINE g == artifacts[k].file
  <2>1. KnownBy(r, k) /\ k \in 1..Len(artifacts)
    BY <1>1, <1>2, <1>9, AloneKnows DEF Current, Full
  <2>2. CASE g = f
    <3>1. r.art = k
      BY <1>1, <1>3, <2>1, <2>2 DEF KnownBy, Sends
    <3>2. f \notin touched /\ Origin(k) = content[f]
      BY <1>9, <2>2 DEF Current, Full
    <3>3. Holds(artifacts[k], r.hash, Parts) /\ 1 \in 1..Parts
      <4>1. k # 0
        BY <2>1, Before
      <4> QED
        BY <1>7, <3>1, <3>2, <4>1, FilesAreFiles DEF Sound
    <3>4. Origin(k) = r.hash
      <4>1. \A i \in 1..Parts : artifacts[k].data[i] = [of |-> r.hash, part |-> i]
        BY <3>3 DEF Holds
      <4>2. artifacts[k].data[1] = [of |-> r.hash, part |-> 1]
        BY <3>3, <4>1
      <4> QED
        BY <4>2 DEF Origin
    <3>5. e # None /\ e.hash = content[f]
      <4>1. k # 0
        BY <2>1, Before
      <4> QED
        BY <3>1, <3>2, <3>4, <4>1 DEF None
    <3>6. meta'[f] # None /\ meta'[f].hash = content'[f]
      BY <1>1, <1>6, <3>5
    <3> QED
      BY <1>1, <2>2, <3>6 DEF IsRecorded
  <2>3. CASE g # f
    <3>1. IsRecorded(g)
      BY <1>3, <2>1, <2>3 DEF KnownBy, Sends
    <3>2. g \in FileSet
      BY <2>1, ArtifactFields, Before
    <3> QED
      BY <1>1, <1>6, <2>3, <3>1, <3>2 DEF IsRecorded
  <2> QED
    BY <2>2, <2>3
<1>10. Distinct' /\ \A k : Full(k)' => Origin(k)' <= content'[artifacts'[k].file]
  BY <1>1, <1>2, <1>8 DEF Orderly, Distinct
<1>11. Plain(artifacts', l)
  BY <1>4 DEF Plain
<1>12. \A k : Current(k)' =>
        /\ Sends(l, artifacts'[k].file) => l.pc \in {"status", "meta"} /\ l.art = k
        /\ ~Sends(l, artifacts'[k].file) => IsRecorded(artifacts[k].file)'
  BY <1>4, <1>8, <1>9
<1> QED
  BY <1>1, <1>2, <1>5, <1>10, <1>11, <1>12, OrderlyStep

\* New artifacts are empty, and there is none of the file's content.
LEMMA CreateRecordOnce ==
  ASSUME CreateInv, CreateInv', OnceInv, NEW p \in Procs, CreateRecord(p)
  PROVE  OnceInv'
<1> DEFINE r   == proc[p]
           new == [file |-> File(p), data |-> <<>>]
<1>1. PICK lost \in 0..1 :
        /\ artifacts' = artifacts \o [i \in 1..(lost + 1) |-> new]
        /\ Step(p, [r EXCEPT !.pc = "data", !.art = Len(artifacts) + lost + 1])
  BY DEF CreateRecord
<1>2. /\ mishap' = mishap /\ r.pc = "create"
      /\ UNCHANGED <<content, touched, meta>>
  BY DEF CreateRecord, Disk
<1> SUFFICES ASSUME ~mishap PROVE Orderly'
  BY <1>2 DEF OnceInv
<1>3. Orderly
  BY DEF OnceInv
<1>4. /\ HasLocals(r) /\ Good(artifacts, touched, content, r) /\ File(p) = r.todo[1]
      /\ File(p) \in FileSet /\ r.cmd # "upload" /\ ~r.force /\ r.off = 0
      /\ artifacts \in Seq(Artifact) /\ Len(artifacts) \in Nat
  BY <1>2, <1>3, Before, LocalsFields, FileAt DEF Orderly, Plain, Good
<1> DEFINE l     == [r EXCEPT !.pc = "data", !.art = Len(artifacts) + lost + 1]
           added == [i \in 1..(lost + 1) |-> new]
<1>5. l \in Locals
  BY <1>1 DEF CreateInv, Types, Step
<1>6. /\ l.pc = "data" /\ l.cmd = r.cmd /\ l.force = r.force /\ l.todo = r.todo
      /\ l.art = Len(artifacts) + lost + 1 /\ l.off = 0
  BY <1>4 DEF HasLocals
<1>7. new \in Artifact /\ Len(new.data) = 0 /\ Len(new.data) # Parts
  <2>1. <<>> \in Seq(Part) /\ Len(<<>>) = 0
    BY EmptySeq
  <2>2. Parts # 0
    BY FilesAreFiles
  <2> QED
    BY <1>4, <2>1, <2>2 DEF Artifact
<1>8. added \in Seq(Artifact) /\ Len(added) = lost + 1
  <2>1. lost + 1 \in Nat
    OBVIOUS
  <2> HIDE DEF new
  <2>2. added \in [1..(lost + 1) -> Artifact]
    BY <1>7
  <2> HIDE DEF added
  <2>3. added \in Seq(Artifact)
    BY <2>1, <2>2, SeqDef
  <2>4. DOMAIN added = 1..(lost + 1) /\ DOMAIN added = 1..Len(added) /\ Len(added) \in Nat
    BY <2>2, <2>3, LenProperties
  <2>5. \A a, b \in Nat : a >= 1 /\ 1..a = 1..b => a = b
    OBVIOUS
  <2>6. lost + 1 >= 1
    OBVIOUS
  <2> QED
    BY <2>1, <2>3, <2>4, <2>5, <2>6
<1>9. /\ \A k \in 1..(lost + 1) : added[k] = new
      /\ lost + 1 \in Nat
  OBVIOUS
<1> HIDE DEF new, added, l
<1>10. /\ Len(artifacts') = Len(artifacts) + (lost + 1)
       /\ \A k \in 1..Len(artifacts) : artifacts'[k] = artifacts[k]
       /\ \A k \in (Len(artifacts) + 1)..(Len(artifacts) + (lost + 1)) : artifacts'[k] = new
  <2>1. artifacts' = artifacts \o added
    BY <1>1 DEF added, new
  <2>2. /\ Len(artifacts \o added) = Len(artifacts) + Len(added)
        /\ \A i \in 1..Len(artifacts) + Len(added) :
             (artifacts \o added)[i] = IF i <= Len(artifacts) THEN artifacts[i]
                                       ELSE added[i - Len(artifacts)]
    BY <1>4, <1>8, ConcatProperties, Zenon
  <2>3. \A k \in (Len(artifacts) + 1)..(Len(artifacts) + (lost + 1)) :
          /\ k \in 1..Len(artifacts) + (lost + 1) /\ ~(k <= Len(artifacts))
          /\ k - Len(artifacts) \in 1..(lost + 1)
    BY <1>4, <1>9
  <2>4. \A k \in 1..Len(artifacts) : k \in 1..Len(artifacts) + (lost + 1) /\ k <= Len(artifacts)
    BY <1>4, <1>9
  <2> QED
    BY <1>8, <1>9, <2>1, <2>2, <2>3, <2>4
<1>11. \A k : /\ Full(k)' <=> Full(k)
              /\ Full(k) => artifacts'[k] = artifacts[k]
  <2> SUFFICES ASSUME NEW k
               PROVE  /\ Full(k)' <=> Full(k)
                      /\ Full(k) => artifacts'[k] = artifacts[k]
    OBVIOUS
  <2>1. CASE k \in 1..Len(artifacts)
    <3>1. k \in 1..Len(artifacts')
      BY <1>4, <1>9, <1>10, <2>1
    <3> QED
      BY <1>2, <1>10, <2>1, <3>1 DEF Full
  <2>2. CASE k \notin 1..Len(artifacts)
    <3>1. ASSUME Full(k)' PROVE FALSE
      <4>1. k \in 1..Len(artifacts') /\ Len(artifacts'[k].data) = Parts
        BY <3>1 DEF Full
      <4>2. k \in (Len(artifacts) + 1)..(Len(artifacts) + (lost + 1))
        BY <1>4, <1>9, <1>10, <2>2, <4>1
      <4> QED
        BY <1>7, <1>10, <4>1, <4>2
    <3> QED
      BY <2>2, <3>1 DEF Full
  <2> QED
    BY <2>1, <2>2
<1>12. \A k : Full(k) => Origin(k)' = Origin(k) /\ (Current(k)' <=> Current(k))
  BY <1>2, <1>11 DEF Origin, Current
<1>13. Plain(artifacts', l)
  <2>1. l.art \in (Len(artifacts) + 1)..(Len(artifacts) + (lost + 1))
    BY <1>4, <1>6, <1>9
  <2>2. Len(artifacts'[l.art].data) = l.off
    BY <1>6, <1>7, <1>10, <2>1
  <2> QED
    BY <1>4, <1>6, <2>2 DEF Plain
<1>14. \A k : Full(k)' => Origin(k)' <= content'[artifacts'[k].file]
  BY <1>2, <1>3, <1>11, <1>12 DEF Orderly
<1>15. ASSUME NEW k, Current(k)'
       PROVE  /\ Sends(l, artifacts'[k].file) => l.pc \in {"status", "meta"} /\ l.art = k
              /\ ~Sends(l, artifacts'[k].file) => IsRecorded(artifacts[k].file)'
  <2>1. Full(k) /\ Current(k) /\ artifacts'[k].file = artifacts[k].file
    BY <1>11, <1>12, <1>15 DEF Current
  <2>2. KnownBy(r, k)
    BY <1>2, <1>3, <2>1, AloneKnows
  <2>3. ~Sends(r, artifacts[k].file) /\ IsRecorded(artifacts[k].file)
    BY <1>2, <2>2 DEF KnownBy
  <2>4. ~Sends(l, artifacts[k].file)
    BY <1>2, <1>6, <2>3 DEF Sends
  <2> QED
    BY <1>2, <2>1, <2>3, <2>4 DEF IsRecorded
<1>16. Distinct'
  BY <1>3, <1>11, <1>12 DEF Orderly, Distinct
<1> QED
  BY <1>1, <1>2, <1>3, <1>5, <1>13, <1>14, <1>15, <1>16, OrderlyStep DEF l

\* The last part makes the artifact one of the content that was hashed, and
\* there was none before.
LEMMA SendPartOnce ==
  ASSUME CreateInv, CreateInv', OnceInv, NEW p \in Procs, SendPart(p)
  PROVE  OnceInv'
<1> PICK r : r = proc[p]
  OBVIOUS
<1> DEFINE a == artifacts[r.art]
           b == artifacts'[r.art]
           on == [r EXCEPT !.off = @ + 1, !.pos = @ + 1]
           end == [r EXCEPT !.pc = "status", !.off = 0, !.pos = 0]
           l == PartSent(r)
<1>1. /\ mishap' = mishap /\ UNCHANGED <<content, touched, meta>>
      /\ r.pc = "data" /\ r.off = Stored(p) /\ Store(p, r.pos + 1) /\ Step(p, l)
  BY DEF SendPart, Disk
<1> SUFFICES ASSUME ~mishap PROVE Orderly'
  BY <1>1 DEF OnceInv
<1>2. Orderly
  BY DEF OnceInv
<1>3. /\ r \in Locals /\ HasLocals(r) /\ Good(artifacts, touched, content, r)
      /\ r.cmd # "upload" /\ ~r.force /\ artifacts \in Seq(Artifact)
  BY <1>1, <1>2, Before, LocalsFields DEF Orderly, Plain
<1>4. /\ r.off < Parts /\ r.pos = r.off /\ r.off \in Nat /\ r.off + 1 \in Nat
  BY <1>1, <1>3, LocalsFields DEF Good, Sending
<1>5. /\ Len(artifacts') = Len(artifacts)
      /\ r.art \in 1..Len(artifacts) /\ b.file = a.file
      /\ Len(a.data) = r.off /\ Len(b.data) = r.off + 1
  BY <1>1, <1>4, StoreGrows
<1>6. \A k \in 1..Len(artifacts) : k # r.art => artifacts'[k] = artifacts[k]
  BY <1>1, <1>3, <1>5, ExceptSeq DEF Store
<1>7. l \in Locals
  BY <1>1 DEF CreateInv, Types, Step
<1>8. l = IF r.off + 1 < Parts THEN on ELSE end
  BY DEF PartSent
<1>9. r.todo # <<>> /\ a.file = r.todo[1]
  BY <1>1, <1>3 DEF Good, Sending
<1>10. /\ \A k : k # r.art => /\ Full(k)' <=> Full(k)
                              /\ Full(k) => artifacts'[k] = artifacts[k]
                              /\ Full(k) => Origin(k)' = Origin(k)
                              /\ Current(k)' <=> Current(k)
       /\ ~Full(r.art)
  <2>1. ~Full(r.art)
    <3>1. r.off # Parts
      BY <1>4, FilesAreFiles
    <3> QED
      BY <1>5, <3>1 DEF Full
  <2> HIDE DEF a, b
  <2>2. \A k : k # r.art => (Full(k)' <=> Full(k))
    BY <1>1, <1>5, <1>6 DEF Full
  <2>3. \A k : k # r.art /\ Full(k) => artifacts'[k] = artifacts[k]
    BY <1>6 DEF Full
  <2>4. \A k : k # r.art /\ Full(k) => Origin(k)' = Origin(k)
    BY <2>3 DEF Origin
  <2>5. \A k : k # r.art => (Current(k)' <=> Current(k))
    BY <1>1, <2>2, <2>3, <2>4 DEF Current
  <2> QED
    BY <2>1, <2>2, <2>3, <2>4, <2>5
<1>11. \A k : Current(k) => artifacts[k].file # r.todo[1] /\ IsRecorded(artifacts[k].file)
  <2> SUFFICES ASSUME NEW k, Current(k)
               PROVE  artifacts[k].file # r.todo[1] /\ IsRecorded(artifacts[k].file)
    OBVIOUS
  <2>1. KnownBy(r, k)
    BY <1>1, <1>2, AloneKnows
  <2> QED
    BY <1>1, <2>1 DEF KnownBy, Sends
<1> HIDE DEF a, b, on, end, l
<1>12. CASE r.off + 1 < Parts
  <2>1. l = on
    BY <1>8, <1>12
  <2>2. /\ l.pc = "data" /\ l.off = r.off + 1 /\ l.cmd = r.cmd
        /\ l.force = r.force /\ l.todo = r.todo /\ l.art = r.art
    BY <1>1, <1>3, <2>1 DEF HasLocals, on
  <2>3. ~Full(r.art)'
    <3>1. r.off + 1 # Parts
      BY <1>4, <1>12, FilesAreFiles
    <3>2. Len(artifacts'[r.art].data) # Parts
      BY <1>5, <3>1 DEF b
    <3> QED
      BY <3>2 DEF Full
  <2>4. \A k : Full(k)' => Full(k) /\ k # r.art /\ artifacts'[k] = artifacts[k]
                           /\ Origin(k)' = Origin(k) /\ (Current(k)' <=> Current(k))
    BY <1>10, <2>3
  <2>5. Plain(artifacts', l)
    BY <1>3, <1>5, <2>2 DEF Plain, b
  <2>6. \A k : Full(k)' => Origin(k)' <= content'[artifacts'[k].file]
    BY <1>1, <1>2, <2>4 DEF Orderly
  <2>7. ASSUME NEW k, Current(k)'
        PROVE  /\ Sends(l, artifacts'[k].file) => l.pc \in {"status", "meta"} /\ l.art = k
               /\ ~Sends(l, artifacts'[k].file) => IsRecorded(artifacts[k].file)'
    <3>1. Full(k)'
      BY <2>7 DEF Current
    <3>2. Current(k) /\ artifacts'[k].file = artifacts[k].file
      BY <2>4, <2>7, <3>1
    <3>3. artifacts[k].file # r.todo[1] /\ IsRecorded(artifacts[k].file)
      BY <1>11, <3>2
    <3> QED
      BY <1>1, <2>2, <3>2, <3>3 DEF Sends, IsRecorded
  <2>8. Distinct'
    BY <1>2, <2>4 DEF Orderly, Distinct
  <2> QED
    BY <1>1, <1>2, <1>7, <2>5, <2>6, <2>7, <2>8, OrderlyStep
<1>13. CASE ~(r.off + 1 < Parts)
  <2>1. l = end
    BY <1>8, <1>13
  <2>2. /\ l.pc = "status" /\ l.cmd = r.cmd /\ l.force = r.force
        /\ l.todo = r.todo /\ l.art = r.art /\ l.hash = r.hash
    BY <1>3, <2>1 DEF HasLocals, end
  <2>3. Good(artifacts', touched', content', l)
    BY <1>1 DEF CreateInv, Types, Step
  <2>4. /\ l.todo # <<>> /\ b.file = l.todo[1]
        /\ Sound(artifacts', touched', l.todo[1], l.hash, l.art)
    BY <1>3, <1>5, <1>9, <2>2, <2>3 DEF Good, Sending
  <2>5. r.todo[1] \notin touched => r.hash = content[r.todo[1]]
    BY <1>1, <1>3 DEF Good, Hashed
  <2>6. Full(r.art)' => Origin(r.art)' = content[r.todo[1]] /\ b.file = r.todo[1]
    <3> SUFFICES ASSUME Full(r.art)' PROVE Origin(r.art)' = content[r.todo[1]]
      BY <2>2, <2>4
    <3>1. r.todo[1] \notin touched'
      BY <2>2, <2>4 DEF Full, b
    <3>2. Holds(artifacts'[r.art], r.hash, Parts) /\ 1 \in 1..Parts
      <4>1. l.art # 0
        BY <1>1, <2>2, Before DEF Good, Sending
      <4> QED
        BY <2>2, <2>4, <3>1, <4>1, FilesAreFiles DEF Sound
    <3>3. \A i \in 1..Parts : artifacts'[r.art].data[i] = [of |-> r.hash, part |-> i]
      BY <3>2 DEF Holds
    <3>4. artifacts'[r.art].data[1] = [of |-> r.hash, part |-> 1]
      BY <3>2, <3>3
    <3>5. artifacts'[r.art].data[1].of = r.hash
      BY <3>4
    <3> QED
      BY <1>1, <2>5, <3>1, <3>5 DEF Origin
  <2>7. Plain(artifacts', l)
    BY <1>3, <2>2 DEF Plain
  <2>8. \A k : Full(k)' => Origin(k)' <= content'[artifacts'[k].file]
    <3> SUFFICES ASSUME NEW k, Full(k)' PROVE Origin(k)' <= content'[artifacts'[k].file]
      OBVIOUS
    <3>1. CASE k # r.art
      BY <1>1, <1>2, <1>10, <3>1 DEF Orderly
    <3>2. CASE k = r.art
      <4>1. Origin(k)' = content[r.todo[1]] /\ artifacts'[k].file = r.todo[1]
        BY <2>6, <3>2 DEF b
      <4>2. r.todo[1] \in FileSet
        BY <1>1, <1>9, FileAt
      <4>3. content[r.todo[1]] \in Nat
        BY <4>2, Before
      <4> QED
        BY <1>1, <4>1, <4>3
    <3> QED
      BY <3>1, <3>2
  <2>9. ASSUME NEW k, Current(k)'
        PROVE  /\ Sends(l, artifacts'[k].file) => l.pc \in {"status", "meta"} /\ l.art = k
               /\ ~Sends(l, artifacts'[k].file) => IsRecorded(artifacts[k].file)'
    <3>1. CASE k # r.art
      <4>1. Current(k) /\ Full(k)
        BY <1>10, <2>9, <3>1 DEF Current
      <4>2. artifacts'[k].file = artifacts[k].file
        BY <1>10, <3>1, <4>1
      <4>3. artifacts[k].file # r.todo[1] /\ IsRecorded(artifacts[k].file)
        BY <1>11, <4>1
      <4> QED
        BY <1>1, <2>2, <4>2, <4>3 DEF Sends, IsRecorded
    <3>2. CASE k = r.art
      <4>1. artifacts'[k].file = r.todo[1]
        BY <2>2, <2>4, <3>2 DEF b
      <4> QED
        BY <2>2, <3>2, <4>1 DEF Sends
    <3> QED
      BY <3>1, <3>2
  <2>10. Distinct'
    <3>1. ASSUME NEW k, k # r.art, Full(k)', Full(r.art)',
                 artifacts'[k].file = artifacts'[r.art].file, Origin(k)' = Origin(r.art)'
          PROVE  FALSE
      <4>1. Full(k) /\ artifacts'[k] = artifacts[k] /\ Origin(k)' = Origin(k)
        BY <1>10, <3>1
      <4>2. artifacts[k].file = r.todo[1] /\ Origin(k) = content[r.todo[1]]
        BY <2>6, <3>1, <4>1 DEF b
      <4>3. Current(k)
        BY <4>1, <4>2 DEF Current
      <4> QED
        BY <1>11, <4>2, <4>3
    <3>2. ASSUME NEW j, NEW k, j # r.art, k # r.art, Full(j)', Full(k)',
                 artifacts'[j].file = artifacts'[k].file, Origin(j)' = Origin(k)'
          PROVE  j = k
      <4>1. /\ Full(j) /\ artifacts'[j] = artifacts[j] /\ Origin(j)' = Origin(j)
            /\ Full(k) /\ artifacts'[k] = artifacts[k] /\ Origin(k)' = Origin(k)
        BY <1>10, <3>2
      <4> QED
        BY <1>2, <3>2, <4>1 DEF Orderly, Distinct
    <3> QED
      BY <3>1, <3>2 DEF Distinct
  <2> QED
    BY <1>1, <1>2, <1>7, <2>7, <2>8, <2>9, <2>10, OrderlyStep
<1> QED
  BY <1>12, <1>13

\* A changed file has no artifact of what it is now.
LEMMA ChangeOnce ==
  ASSUME CreateInv, OnceInv, NEW f \in FileSet, Change(f)
  PROVE  OnceInv'
<1>1. /\ mishap' = mishap /\ UNCHANGED <<artifacts, meta, proc>>
      /\ content' = [content EXCEPT ![f] = @ + Len(Files)]
      /\ \A g : g \in touched => g \in touched'
  BY DEF Change
<1> SUFFICES ASSUME ~mishap PROVE Orderly'
  BY <1>1 DEF OnceInv
<1>2. Orderly
  BY DEF OnceInv
<1>3. Len(Files) \in Nat /\ Len(Files) >= 1
  BY FilesAreFiles, FirstOf
<1>4. content \in [FileSet -> Nat] /\ artifacts \in Seq(Artifact)
  BY DEF CreateInv, Types
<1>5. \A k : Full(k)' => Full(k)
  BY <1>1 DEF Full
<1>6. \A k : Origin(k)' = Origin(k)
  BY <1>1 DEF Origin
<1>7. ASSUME NEW k, Full(k)
      PROVE  artifacts[k].file \in FileSet /\ Origin(k) \in Nat
  <2>1. artifacts[k].file \in FileSet /\ artifacts[k].data \in Seq(Part)
    BY <1>4, <1>7, ArtifactFields DEF Full
  <2>2. 1 \in 1..Len(artifacts[k].data)
    BY <1>7, FilesAreFiles DEF Full
  <2>3. artifacts[k].data[1] \in Part
    BY <2>1, <2>2, LenProperties
  <2> QED
    BY <2>1, <2>3 DEF Part, Origin
<1>8. ASSUME NEW k, Full(k)'
      PROVE  /\ Origin(k)' <= content'[artifacts'[k].file]
             /\ Current(k)' => Current(k) /\ artifacts[k].file # f
  <2> DEFINE g == artifacts[k].file
  <2>1. g \in FileSet /\ Origin(k) \in Nat /\ Origin(k) <= content[g] /\ Full(k)
    BY <1>2, <1>5, <1>7, <1>8 DEF Orderly
  <2>2. content[g] \in Nat /\ artifacts'[k].file = g
    BY <1>1, <1>4, <2>1
  <2>3. content'[g] = IF g = f THEN content[g] + Len(Files) ELSE content[g]
    BY <1>1, <1>4, <2>1
  <2>4. Current(k)' => Origin(k) = content'[g]
    BY <1>6, <2>2 DEF Current
  <2>5. Full(k) /\ Origin(k) = content[g] => Current(k)
    BY DEF Current
  <2> HIDE DEF g
  <2>6. CASE g = f
    <3>1. content'[g] = content[g] + Len(Files)
      BY <2>3, <2>6
    <3>2. Origin(k) < content'[g]
      BY <1>3, <2>1, <2>2, <3>1
    <3>3. Origin(k) # content'[g] /\ Origin(k) <= content'[g]
      BY <1>3, <2>1, <2>2, <3>1, <3>2
    <3> QED
      BY <1>6, <2>2, <2>4, <3>3
  <2>7. CASE g # f
    <3>1. content'[g] = content[g]
      BY <2>3, <2>7
    <3> QED
      BY <1>6, <2>1, <2>2, <2>4, <2>5, <2>7, <3>1 DEF g
  <2> QED
    BY <2>6, <2>7
<1>9. ASSUME NEW k, Current(k)' PROVE Known(k)'
  <2>1. Full(k)'
    BY <1>9 DEF Current
  <2>2. Current(k) /\ artifacts[k].file # f
    BY <1>8, <1>9, <2>1
  <2>3. Known(k) /\ artifacts[k].file \in FileSet
    BY <1>2, <1>7, <2>2 DEF Orderly, Current
  <2>4. content'[artifacts[k].file] = content[artifacts[k].file]
    BY <1>1, <1>4, <2>2, <2>3
  <2> QED
    BY <1>1, <2>3, <2>4 DEF Known, IsRecorded
<1>10. Distinct'
  BY <1>1, <1>2, <1>5, <1>6 DEF Orderly, Distinct
<1>11. \A p \in Procs : Plain(artifacts', proc'[p])
  BY <1>1, <1>2 DEF Orderly
<1> QED
  BY <1>1, <1>2, <1>8, <1>9, <1>10, <1>11 DEF Orderly

\* OnceInv is inductive relative to CreateInv: the initial states,
LEMMA OnceInit == Init => OnceInv
<1> SUFFICES ASSUME Init PROVE Orderly
  BY DEF OnceInv
<1>1. \A p \in Procs : proc[p].pc = "idle"
  BY StoppedFields DEF Init
<1>2. \A k : ~Full(k)
  BY EmptySeq DEF Init, Full
<1> QED
  BY <1>1, <1>2 DEF Orderly, Plain, Current, Distinct

\* and every step.
LEMMA OnceNext == CreateInv /\ CreateInv' /\ OnceInv /\ [Next]_vars => OnceInv'
<1> SUFFICES ASSUME CreateInv, CreateInv', OnceInv, [Next]_vars PROVE OnceInv'
  OBVIOUS
<1>1. ASSUME mishap' PROVE OnceInv'
  BY <1>1 DEF OnceInv
<1>2. ASSUME NEW p \in Procs, NEW f \in FileSet, NEW force \in BOOLEAN,
             Begin(p, "create", force, <<f>>)
      PROVE  OnceInv'
  BY <1>2, BeginOnce
<1>3. ASSUME NEW p \in Procs, Begin(p, "collection", FALSE, Files)
      PROVE  OnceInv'
  BY <1>3, BeginOnce
<1>4. ASSUME NEW p \in Procs, Scan(p) PROVE OnceInv'
  <2>1. LookUp(p, FALSE, "hash") /\ proc[p].pc = "scan"
    BY <1>4 DEF Scan
  <2> QED
    BY <2>1, LookUpOnce
<1>5. ASSUME NEW p \in Procs, LookUpMeta(p) PROVE OnceInv'
  <2>1. LookUp(p, proc[p].force, "create") /\ proc[p].pc = "hash"
    BY <1>5 DEF LookUpMeta
  <2>2. proc[p].force \in BOOLEAN
    BY Before, LocalsFields
  <2> QED
    BY <2>1, <2>2, LookUpOnce
<1>6. ASSUME NEW p \in Procs, AskOffset(p) \/ SkipStored(p) PROVE OnceInv'
  <2>1. proc[p].pc \in {"head", "skip"} /\ mishap' = mishap
    BY <1>6 DEF AskOffset, SkipStored
  <2>2. proc[p].cmd = "upload"
    BY <2>1, Before DEF Good
  <2>3. ~Orderly
    BY <2>1, <2>2 DEF Orderly, Plain
  <2> QED
    BY <2>1, <2>3 DEF OnceInv
<1>7. ASSUME NEW p \in Procs,
             \/ SendPartFails(p) \/ WriteMetaFails(p) \/ Fail(p)
             \/ \E art \in DOMAIN artifacts, f \in FileSet : BeginUpload(p, art, f)
      PROVE  OnceInv'
  <2>1. mishap'
    BY <1>7 DEF SendPartFails, WriteMetaFails, Fail, Stop, BeginUpload
  <2> QED
    BY <1>1, <2>1
<1>8. ASSUME NEW p \in Procs,
             CreateRecord(p) \/ SendPart(p) \/ ReadStatus(p) \/ WriteMeta(p)
             \/ WriteCollection(p)
      PROVE  OnceInv'
  BY <1>8, CreateRecordOnce, SendPartOnce, ReadStatusOnce, WriteMetaOnceOnly,
     WriteCollectionOnce
<1>9. ASSUME NEW f \in FileSet, Change(f) PROVE OnceInv'
  BY <1>9, ChangeOnce
<1>10. CASE UNCHANGED vars
  <2>1. mishap' = mishap /\ (Orderly' <=> Orderly)
    BY <1>10 DEF vars, Orderly, Plain, Full, Current, Origin, Known, Sends,
       IsRecorded, Distinct
  <2> QED
    BY <2>1 DEF OnceInv
<1> QED
  BY <1>2, <1>3, <1>4, <1>5, <1>6, <1>7, <1>8, <1>9, <1>10 DEF Next

\* It implies UploadedOnce.
LEMMA OnceFromInv == CreateInv /\ OnceInv => UploadedOnce
<1> SUFFICES ASSUME CreateInv, OnceInv, ~mishap,
                    NEW i \in DOMAIN artifacts, NEW j \in DOMAIN artifacts,
                    Len(artifacts[i].data) = Parts, artifacts[i] = artifacts[j],
                    artifacts[i].file \notin touched
             PROVE  i = j
  BY DEF UploadedOnce
<1>1. DOMAIN artifacts = 1..Len(artifacts)
  BY LenProperties DEF CreateInv, Types
<1>2. Full(i) /\ Full(j) /\ Origin(i) = Origin(j)
  BY <1>1 DEF Full, Origin
<1> QED
  BY <1>2 DEF OnceInv, Orderly, Distinct

\* Commands that run one after the other to their ends, without --force, never
\* upload the same content of a file twice.
THEOREM NothingTwice == Spec => []UploadedOnce
<1>1. Spec => []OnceInv
  <2>1. Init => CreateInv /\ OnceInv
    BY CreateInit, OnceInit
  <2>2. CreateInv /\ OnceInv /\ [Next]_vars => (CreateInv /\ OnceInv)'
    BY CreateNext, OnceNext
  <2> QED
    BY <2>1, <2>2, PTL DEF Spec
<1> QED
  BY <1>1, CreateInductive, OnceFromInv, PTL
=============================================================================
