--------------------------- MODULE ArtifactCreate ---------------------------
(***************************************************************************)
(* uploadArtifact (cmd/artifact.go) and `ivcap collection create`          *)
(* (cmd/collection.go): files become artifacts once, because a meta file   *)
(* beside each file remembers the file's hash and the artifact, and        *)
(* `ivcap artifact upload`, which goes on with an artifact that was not    *)
(* completed.  A PATCH that returns without error has stored its part at   *)
(* its offset, as TusUpload shows.                                         *)
(*                                                                         *)
(* A file's content is a number, which also stands for its hash.           *)
(***************************************************************************)
EXTENDS Naturals, Sequences, Functions

CONSTANTS
  Procs,          \* processes
  Files,          \* the files of the collection's directory, in order; at least one
  Parts,          \* PATCHes it takes to upload a file
  MaxCommands,    \* bound: commands begun
  MaxArtifacts,   \* bound: artifacts created
  MaxChanges      \* bound: changes of files

ASSUME CreateAssumption ==
  /\ Files \in Seq(Range(Files)) \ {<<>>} /\ IsInjective(Files)
  /\ Parts \in Nat \ {0}
  /\ MaxCommands \in Nat /\ MaxArtifacts \in Nat /\ MaxChanges \in Nat

VARIABLES
  content,     \* of each file; contents of different files differ
  changes,     \* changes made so far
  meta,        \* the meta file of each file: None, or a hash and an artifact;
               \* 0 for an id that was cut and names none
  artifacts,   \* service: the artifacts, by number
  collection,  \* service: the collection written last, and what it was to be
  proc,        \* locals of each process
  commands,    \* commands begun
  touched,     \* files that changed between hashing and the upload's end
  torn,        \* files whose meta file was once cut behind the hash
  mishap       \* two commands overlapped, one did not run to its end, or a
               \* second copy was asked for

vars == <<content, changes, meta, artifacts, collection, proc, commands,
          touched, torn, mishap>>

FileSet  == Range(Files)
None     == [hash |-> 0, art |-> 0]
Entry    == [file: FileSet, hash: Nat, art: Nat]

\* What was read of a file: the content it had, and which part it is; 0 for
\* what a PATCH leaves that was cut and repeated.
Cut      == 0
Part     == [of: Nat, part: Nat]
Artifact == [file: FileSet, data: Seq(Part)]

\* "scan" is the collection's own look at the meta file, "hash" that of
\* uploadArtifact; pos is the part the reader is at, off the part the next
\* PATCH is for; done holds the entries of the collection so far.
Locals ==
  [pc: {"idle", "scan", "hash", "create", "head", "skip", "data", "status",
        "meta", "collect"},
   cmd: {"create", "upload", "collection"}, force: BOOLEAN,
   todo: Seq(FileSet), hash: Nat, art: Nat, off: Nat, pos: Nat,
   done: Seq(Entry)]

TypeOK ==
  /\ content \in [FileSet -> Nat]
  /\ changes \in 0..MaxChanges
  /\ meta \in [FileSet -> [hash: Nat, art: 0..Len(artifacts)]]
  /\ artifacts \in Seq(Artifact) /\ Len(artifacts) <= MaxArtifacts
  /\ collection \in Seq(Entry)
  /\ proc \in [Procs -> Locals]
  /\ commands \in 0..MaxCommands
  /\ touched \subseteq FileSet /\ torn \subseteq FileSet
  /\ mishap \in BOOLEAN

Stopped == [pc |-> "idle", cmd |-> "create", force |-> FALSE, todo |-> <<>>,
            hash |-> 0, art |-> 0, off |-> 0, pos |-> 0, done |-> <<>>]

Init ==
  /\ content = [f \in FileSet |-> CHOOSE i \in DOMAIN Files : Files[i] = f]
  /\ changes = 0
  /\ meta = [f \in FileSet |-> None]
  /\ artifacts = <<>>
  /\ collection = <<>>
  /\ proc = [p \in Procs |-> Stopped]
  /\ commands = 0
  /\ touched = {}
  /\ torn = {}
  /\ mishap = FALSE

Disk == <<content, changes, touched, torn>>

Step(p, locals) ==
  proc' = [proc EXCEPT ![p] = locals]

\* Exit with an error, after which the command has to be repeated.
Stop(p) ==
  /\ Step(p, Stopped)
  /\ mishap' = TRUE
  /\ UNCHANGED <<Disk, meta, artifacts, collection, commands>>

File(p) == Head(proc[p].todo)

-----------------------------------------------------------------------------

Begin(p, cmd, force, todo) ==
  /\ proc[p].pc = "idle"
  /\ commands < MaxCommands
  /\ commands' = commands + 1
  /\ Step(p, [Stopped EXCEPT !.pc = IF cmd = "create" THEN "hash" ELSE "scan",
                             !.cmd = cmd, !.force = force, !.todo = todo])
  /\ mishap' = (mishap \/ force \/ \E q \in Procs : proc[q].pc # "idle")
  /\ UNCHANGED <<Disk, meta, artifacts, collection>>

\* `artifact upload`: any artifact and any file; the hash is not taken, and
\* the meta file neither read nor written.
BeginUpload(p, art, f) ==
  /\ proc[p].pc = "idle"
  /\ commands < MaxCommands
  /\ commands' = commands + 1
  /\ Step(p, [Stopped EXCEPT !.pc = "head", !.cmd = "upload", !.art = art,
                             !.todo = <<f>>])
  /\ mishap' = TRUE
  /\ UNCHANGED <<Disk, meta, artifacts, collection>>

\* The file is the artifact art: on to the next file, or to the collection.
NextFile(l, art) ==
  IF l.cmd = "create" THEN Stopped
  ELSE [Stopped EXCEPT
          !.pc = IF Len(l.todo) = 1 THEN "collect" ELSE "scan",
          !.cmd = l.cmd, !.todo = Tail(l.todo),
          !.done = Append(l.done, [file |-> Head(l.todo), hash |-> l.hash,
                                   art |-> art])]

\* Mutant: the hash in the meta file is not compared.
IsRecordedAtAll(f) == meta[f] # None

\* getFileHash, getArtifactMetaFileFor and getArtifactIdFromMeta.
IsRecorded(f) == meta[f] # None /\ meta[f].hash = content[f]

LookUp(p, force, pc) ==
  LET f      == File(p)
      hashed == [proc[p] EXCEPT !.hash = content[f]]
  IN  /\ Step(p, IF IsRecorded(f) /\ ~force
                 THEN NextFile(hashed, meta[f].art)
                 ELSE [hashed EXCEPT !.pc = pc])
      /\ UNCHANGED <<Disk, meta, artifacts, collection, commands, mishap>>

\* A collection skips what is on record, and calls uploadArtifact otherwise.
Scan(p) == proc[p].pc = "scan" /\ LookUp(p, FALSE, "hash")

LookUpMeta(p) == proc[p].pc = "hash" /\ LookUp(p, proc[p].force, "create")

\* CreateArtifact: the record exists, but a lost reply may have made another.
CreateRecord(p) ==
  /\ proc[p].pc = "create"
  /\ \E lost \in 0..1 :
       /\ Len(artifacts) + lost < MaxArtifacts
       /\ LET new == [file |-> File(p), data |-> <<>>]
          IN  artifacts' = artifacts \o [i \in 1..(lost + 1) |-> new]
       /\ Step(p, [proc[p] EXCEPT !.pc = "data",
                                  !.art = Len(artifacts) + lost + 1])
  /\ UNCHANGED <<Disk, meta, collection, commands, mishap>>

Stored(p) == Len(artifacts[proc[p].art].data)

\* The offset at the server; an artifact that is complete is left alone.
AskOffset(p) ==
  /\ proc[p].pc = "head"
  /\ Step(p, IF Stored(p) >= Parts THEN Stopped
             ELSE [proc[p] EXCEPT !.pc = "skip", !.off = Stored(p)])
  /\ UNCHANGED <<Disk, meta, artifacts, collection, commands, mishap>>

\* Mutant: what the server has already is not skipped.
SkipNothing(p) ==
  /\ proc[p].pc = "skip"
  /\ Step(p, [proc[p] EXCEPT !.pc = "data"])
  /\ UNCHANGED <<Disk, meta, artifacts, collection, commands, mishap>>

\* UploadArtifact from an offset: the reader cannot seek, and what the server
\* has already is read and dropped.
SkipStored(p) ==
  /\ proc[p].pc = "skip"
  /\ Step(p, [proc[p] EXCEPT !.pc = "data", !.pos = proc[p].off])
  /\ UNCHANGED <<Disk, meta, artifacts, collection, commands, mishap>>

Read(p, part) == [of |-> content[File(p)], part |-> part]

Store(p, part) ==
  artifacts' = [artifacts EXCEPT ![proc[p].art].data =
                  Append(@, Read(p, part))]

\* On to the next part; after the last one UploadArtifact returns nil.
PartSent(l) ==
  IF l.off + 1 < Parts THEN [l EXCEPT !.off = @ + 1, !.pos = @ + 1]
  ELSE [l EXCEPT !.pc = "status", !.off = 0, !.pos = 0]

\* Mutant: the error of upload is only reported.
SendPartAnyway(p) ==
  /\ proc[p].pc = "data"
  /\ \/ proc[p].off = Stored(p) /\ Store(p, proc[p].pos + 1)
     \/ UNCHANGED artifacts
  /\ Step(p, PartSent(proc[p]))
  /\ UNCHANGED <<Disk, meta, collection, commands, mishap>>

\* A part is read off the file as it is now, and stored if the artifact ends
\* at its offset.
SendPart(p) ==
  /\ proc[p].pc = "data"
  /\ proc[p].off = Stored(p)
  /\ Store(p, proc[p].pos + 1)
  /\ Step(p, PartSent(proc[p]))
  /\ UNCHANGED <<Disk, meta, collection, commands, mishap>>

\* A PATCH that was cut is repeated from where the reader is by then, until
\* the upload fails: something else than the part is at its place.
SendPartFails(p) ==
  /\ proc[p].pc = "data"
  /\ proc[p].off = Stored(p)
  /\ Store(p, Cut)
  /\ Step(p, Stopped)
  /\ mishap' = TRUE
  /\ UNCHANGED <<Disk, meta, collection, commands>>

\* The status of the artifact is read and printed, except with --silent.
ReadStatus(p) ==
  /\ proc[p].pc = "status"
  /\ Step(p, IF proc[p].cmd = "upload" THEN Stopped
             ELSE [proc[p] EXCEPT !.pc = "meta"])
  /\ UNCHANGED <<Disk, meta, artifacts, collection, commands, mishap>>

\* Mutant: an existing meta file is left alone.
WriteMetaOnce(p) ==
  /\ proc[p].pc = "meta"
  /\ meta' = IF meta[File(p)] # None THEN meta
             ELSE [meta EXCEPT ![File(p)] =
                     [hash |-> proc[p].hash, art |-> proc[p].art]]
  /\ Step(p, NextFile(proc[p], proc[p].art))
  /\ UNCHANGED <<Disk, artifacts, collection, commands, mishap>>

WriteMeta(p) ==
  /\ proc[p].pc = "meta"
  /\ meta' = [meta EXCEPT ![File(p)] =
                [hash |-> proc[p].hash, art |-> proc[p].art]]
  /\ Step(p, NextFile(proc[p], proc[p].art))
  /\ UNCHANGED <<Disk, artifacts, collection, commands, mishap>>

\* Killed or out of space in the middle: the meta file is unreadable, or, cut
\* behind the '|', reads as a record of the file with what there is of the id.
WriteMetaFails(p) ==
  /\ proc[p].pc = "meta"
  /\ \/ /\ meta' = [meta EXCEPT ![File(p)] = None]
        /\ UNCHANGED torn
     \/ /\ meta' = [meta EXCEPT ![File(p)] = [hash |-> proc[p].hash, art |-> 0]]
        /\ torn' = torn \cup {File(p)}
  /\ Step(p, Stopped)
  /\ mishap' = TRUE
  /\ UNCHANGED <<content, changes, touched, artifacts, collection, commands>>

\* AddUpdateAspect replaces the collection.
WriteCollection(p) ==
  /\ proc[p].pc = "collect"
  /\ collection' = proc[p].done
  /\ Step(p, Stopped)
  /\ UNCHANGED <<Disk, meta, artifacts, commands, mishap>>

\* An error of any step (cobra.CheckErr), or the process is killed.
Fail(p) == proc[p].pc # "idle" /\ Stop(p)

Change(f) ==
  /\ changes < MaxChanges
  /\ changes' = changes + 1
  /\ content' = [content EXCEPT ![f] = @ + Len(Files)]
  /\ touched' = touched \cup
       {g \in {f} : \E p \in Procs :
          /\ proc[p].pc \in {"create", "data"}
          /\ proc[p].cmd # "upload"
          /\ File(p) = g}
  /\ UNCHANGED <<meta, artifacts, collection, proc, commands, torn, mishap>>

Next ==
  \/ \E p \in Procs :
       \/ \E f \in FileSet, force \in BOOLEAN : Begin(p, "create", force, <<f>>)
       \/ Begin(p, "collection", FALSE, Files)
       \/ Scan(p)
       \/ LookUpMeta(p)
       \/ CreateRecord(p)
       \/ \E art \in DOMAIN artifacts, f \in FileSet : BeginUpload(p, art, f)
       \/ AskOffset(p)
       \/ SkipStored(p)
       \/ SendPart(p)
       \/ SendPartFails(p)
       \/ ReadStatus(p)
       \/ WriteMeta(p)
       \/ WriteMetaFails(p)
       \/ WriteCollection(p)
       \/ Fail(p)
  \/ \E f \in FileSet : Change(f)

Spec == Init /\ [][Next]_vars

-----------------------------------------------------------------------------

IsCopy(a, c) == a.data = [i \in 1..Parts |-> [of |-> c, part |-> i]]

\* Whoever sent them, one after another or at once, the parts of an artifact
\* stand in their places, but for those that were cut; and a meta file names
\* an artifact that is a copy of the file with the hash it holds, whatever
\* other command, failure or later change of the file came in between, unless
\* the file changed under the upload.  It may name no artifact only where the
\* writing of that file's meta file was once cut.
ArtifactsExact ==
  /\ \A a \in Range(artifacts) : \A i \in DOMAIN a.data : a.data[i].part \in {Cut, i}
  /\ \A f \in FileSet : meta[f] # None =>
       IF meta[f].art = 0 THEN f \in torn
       ELSE f \notin touched =>
              LET a == artifacts[meta[f].art]
              IN  a.file = f /\ IsCopy(a, meta[f].hash)

\* Each file of a collection is a copy of what the file was when the
\* collection was made, the skipped ones included; an entry may name no
\* artifact only where the file's meta file was once cut.
CollectionExact ==
  /\ collection # <<>> =>
       [i \in DOMAIN collection |-> collection[i].file] = Files
  /\ \A i \in DOMAIN collection :
       LET e == collection[i]
       IN  IF e.art = 0 THEN e.file \in torn
           ELSE e.file \notin touched =>
                  /\ artifacts[e.art].file = e.file
                  /\ IsCopy(artifacts[e.art], e.hash)

\* Commands that run one after the other to their ends, without --force, never
\* upload the same content of an otherwise unchanged file twice.
UploadedOnce ==
  ~mishap => \A i, j \in DOMAIN artifacts :
    /\ Len(artifacts[i].data) = Parts
    /\ artifacts[i] = artifacts[j]
    /\ artifacts[i].file \notin touched
    => i = j
=============================================================================
