--------------------------- MODULE NextflowPublish ---------------------------
(***************************************************************************)
(* Publishing a pipeline as a service: `nextflow create` and `update`      *)
(* (cmd/nextflow.go) upload an archive of the disk and may resume what an  *)
(* earlier run began, the tool nextflow_create (pkg/mcp/nextflow.go) packs *)
(* one from its sources.  Both read the tool's header in it, and describe  *)
(* the service by PUT, or POST if there is nothing to replace.             *)
(*                                                                         *)
(* Data are stored by halves, each the archive it was read from, or cut;   *)
(* what the chunks of a half go through is the matter of ArchiveResume.    *)
(* Any other request is served when it is sent or not at all; its reply    *)
(* may be lost.                                                            *)
(***************************************************************************)
EXTENDS ToolHeader

CONSTANTS
  Publishers, Services,
  Archives,       \* versions of the archive on disk, sequences of [path, data]
  SourceLists,    \* sequences of sources [path, type, data, inner]
  Library,        \* parts of the archive that sources of type "artifact" name
  MaxRuns, MaxFaults, MaxChanges

ASSUME LimitsAssumption == /\ MaxRuns \in Nat
                           /\ MaxFaults \in Nat
                           /\ MaxChanges \in Nat

ASSUME FilesAssumption ==
  \A files \in Archives \cup SourceLists \cup {Library} :
    /\ files \in Seq(ToSet(files))
    /\ \A i \in DOMAIN files :
         /\ files[i].path \in Seq(STRING)
         /\ files[i].data.kind = "simple" => files[i].data.samples \in Seq(STRING)

VARIABLES
  disk,        \* [archive, mtime], the archive given with -f
  meta,        \* its UploadMeta file, <<>> or <<[artifact, mtime]>>
  artifacts,   \* the artifacts created, each the sequence of its halves
  library,     \* halves stored of the artifact that sources name
  catalog,     \* active descriptions of each service, [rid, artifact, schema, sure]
  pub,         \* locals of the publishers
  serial,      \* record ids given out
  faults, runs,
  mishap       \* services described by a repeated POST, or by two at once

\* A half that holds the bytes of no archive; no archive with a header is empty.
Cut == <<>>

vars == <<disk, meta, artifacts, library, catalog, pub, serial, faults, runs, mishap>>

NoTool == [result |-> "absent", schema |-> NoSchema]

Locals(pc, result) ==
  [pc |-> pc, result |-> result, tool |-> "cli", service |-> "none",
   sources |-> <<>>, early |-> {}, archive |-> <<>>, header |-> NoTool,
   mtime |-> 0, artifact |-> 0, offset |-> 0, posted |-> FALSE, sure |-> TRUE]

Init ==
  /\ \E a \in Archives : disk = [archive |-> a, mtime |-> 0]
  /\ meta = <<>> /\ artifacts = <<>> /\ library = 0
  /\ catalog = [s \in Services |-> {}]
  /\ pub = [p \in Publishers |-> Locals("idle", "none")]
  /\ serial = 0 /\ faults = 0 /\ runs = 0 /\ mishap = {}

Step(p, new) == pub' = [pub EXCEPT ![p] = new]
At(p, pc) == pub[p].pc = pc
Working(p) == pub[p].pc # "idle"

\* Errors and kills; the locals are gone.
End(p, result) == Step(p, Locals("idle", result))

Fault == faults < MaxFaults /\ faults' = faults + 1

-----------------------------------------------------------------------------
(* `nextflow create` and `update`                                          *)

\* runNextflowCreateOrUpdate: the header is read before anything is sent.
BeginUpdate(p, s) ==
  /\ ~Working(p) /\ runs < MaxRuns
  /\ \E header \in LoadToolHeader(disk.archive) :
       IF header.result = "found"
       THEN Step(p, [Locals("stat", "none") EXCEPT !.service = s, !.header = header])
       ELSE End(p, "failed")
  /\ runs' = runs + 1
  /\ UNCHANGED <<disk, meta, artifacts, library, catalog, serial, faults, mishap>>

\* Mutant: the recorded artifact is resumed for whatever archive there is.
RecordedEver(mtime) == meta # <<>>

\* ReadUploadMeta
Recorded(mtime) == meta # <<>> /\ meta[1].mtime = mtime

\* UploadArchiveAsArtifact: the size and time of the file, and its record.
Stat(p) ==
  /\ At(p, "stat")
  /\ Step(p, [pub[p] EXCEPT
       !.mtime = disk.mtime,
       !.pc = IF Recorded(disk.mtime) THEN "open" ELSE "create",
       !.artifact = IF Recorded(disk.mtime) THEN meta[1].artifact ELSE 0])
  /\ UNCHANGED <<disk, meta, artifacts, library, catalog, serial, faults, runs, mishap>>

\* WriteUploadMeta: errors are ignored, and half a file is none.
WriteMeta(p) ==
  /\ At(p, "meta")
  /\ \/ /\ meta' = <<[artifact |-> pub[p].artifact, mtime |-> pub[p].mtime]>>
        /\ UNCHANGED faults
     \/ Fault /\ meta' \in {<<>>, meta}
  /\ Step(p, [pub[p] EXCEPT !.pc = "open"])
  /\ UNCHANGED <<disk, artifacts, library, catalog, serial, runs, mishap>>

-----------------------------------------------------------------------------
(* nextflow_create                                                         *)

BeginCreate(p, s, sources) ==
  /\ ~Working(p) /\ runs < MaxRuns
  /\ Step(p, [Locals("pack", "none") EXCEPT
       !.tool = "mcp", !.service = s, !.sources = sources])
  /\ runs' = runs + 1
  /\ UNCHANGED <<disk, meta, artifacts, library, catalog, serial, faults, mishap>>

LibraryPart(n) == SubSeq(Library, 1, (n * Len(Library)) \div 2)

\* sourceToBytes; an artifact is fetched as it is, and a file that is not in
\* it is an empty one.
SourceData(src) ==
  LET inner == FindFile(LibraryPart(library), library # 1, TrimSlash(src.inner))
  IN  CASE src.type \in {"text", "base64", "url"} -> Found(src.data)
        [] src.type = "artifact" /\ src.inner = EmptyPath ->
             Found([kind |-> "copy", halves |-> library])
        [] src.type = "artifact" /\ src.inner # EmptyPath ->
             IF inner.result = "error" THEN Failed ELSE Found(inner.data)
        [] OTHER -> Failed

\* Mutant: paths are compared as they are written.
TakenAsWritten(p, path) ==
  \E i \in 1..Len(pub[p].archive) : pub[p].sources[i].path = path

\* A path that is refused, the manifest's, or one that is taken.
Taken(p, path) ==
  \/ path \in {NoPath, Manifest}
  \/ \E i \in DOMAIN pub[p].archive : pub[p].archive[i].path = path

\* TarGzFromSources, the next file.
Pack(p) ==
  LET i == Len(pub[p].archive) + 1
      src == pub[p].sources[i]
      path == SanitizeTarPath(src.path)
      found == SourceData(src)
  IN  /\ At(p, "pack") /\ i <= Len(pub[p].sources)
      /\ IF Taken(p, path) \/ found.result # "found"
         THEN End(p, "failed")
         ELSE Step(p, [pub[p] EXCEPT
                !.archive = Append(@, [path |-> path, data |-> found.data]),
                !.early = IF library < 2 THEN @ \cup {i} ELSE @])
      /\ UNCHANGED <<disk, meta, artifacts, library, catalog, serial, faults, runs, mishap>>

\* The manifest goes last, then the header is read from the bytes.
PackReturns(p) ==
  LET archive == Append(pub[p].archive,
                        [path |-> Manifest, data |-> [kind |-> "manifest"]])
  IN  /\ At(p, "pack") /\ Len(pub[p].archive) = Len(pub[p].sources)
      /\ \E header \in LoadToolHeader(archive) :
           IF header.result = "found"
           THEN Step(p, [pub[p] EXCEPT
                  !.archive = archive, !.header = header, !.pc = "create"])
           ELSE End(p, "failed")
      /\ UNCHANGED <<disk, meta, artifacts, library, catalog, serial, faults, runs, mishap>>

-----------------------------------------------------------------------------
(* The artifact                                                            *)

\* CreateArtifact; when the reply is lost the request is sent again, and the
\* first record stays empty.
CreateRecord(p) ==
  /\ At(p, "create")
  /\ artifacts' = Append(artifacts, <<>>)
  /\ \/ /\ Step(p, [pub[p] EXCEPT
             !.artifact = Len(artifacts) + 1,
             !.pc = IF pub[p].tool = "cli" THEN "meta" ELSE "open"])
        /\ UNCHANGED faults
     \/ Fault /\ UNCHANGED pub
  /\ UNCHANGED <<disk, meta, library, catalog, serial, runs, mishap>>

Stored(p) == Len(artifacts[pub[p].artifact])

\* tusUploadWithResume asks for the offset and opens the file, each time
\* anew; nextflow_create has its bytes in memory.
OpenArchive(p) ==
  /\ At(p, "open")
  /\ Step(p, [pub[p] EXCEPT
       !.offset = Stored(p),
       !.archive = IF pub[p].tool = "cli" THEN disk.archive ELSE @,
       !.pc = IF Stored(p) = 2 THEN "put" ELSE "send"])
  /\ UNCHANGED <<disk, meta, artifacts, library, catalog, serial, faults, runs, mishap>>

StoreHalf(p) ==
  /\ At(p, "send") /\ pub[p].offset < 2 /\ pub[p].offset = Stored(p)
  /\ artifacts' = [artifacts EXCEPT ![pub[p].artifact] = Append(@, pub[p].archive)]
  /\ Step(p, [pub[p] EXCEPT !.offset = @ + 1])
  /\ UNCHANGED <<disk, meta, library, catalog, serial, faults, runs, mishap>>

\* The attempt at a chunk is cut and the next one sends the rest of the chunk
\* under the same offset (ArchiveResume).  The upload fails, and `nextflow
\* create` goes on from the offset it is told, over the wrong bytes.  For
\* nextflow_create it is one more failure: its artifact is never described.
StoreCut(p) ==
  /\ At(p, "send") /\ pub[p].tool = "cli"
  /\ pub[p].offset < 2 /\ pub[p].offset = Stored(p)
  /\ Fault
  /\ artifacts' = [artifacts EXCEPT ![pub[p].artifact] = Append(@, Cut)]
  /\ Step(p, [pub[p] EXCEPT !.pc = "open"])
  /\ UNCHANGED <<disk, meta, library, catalog, serial, runs, mishap>>

\* Mutant: what the upload returned is not looked at.
UploadReturnsAnyhow(p) ==
  /\ At(p, "send")
  /\ Step(p, [pub[p] EXCEPT !.pc = "put"])
  /\ UNCHANGED <<disk, meta, artifacts, library, catalog, serial, faults, runs, mishap>>

UploadReturns(p) ==
  /\ At(p, "send") /\ pub[p].offset = 2
  /\ Step(p, [pub[p] EXCEPT !.pc = "put"])
  /\ UNCHANGED <<disk, meta, artifacts, library, catalog, serial, faults, runs, mishap>>

\* An exchange breaks down, or another publisher of the same file was faster:
\* `nextflow create` asks for the offset again, the tool gives up.
UploadFails(p) ==
  /\ At(p, "send")
  /\ \/ Fault
     \/ pub[p].offset < Stored(p) /\ UNCHANGED faults
  /\ IF pub[p].tool = "cli" THEN Step(p, [pub[p] EXCEPT !.pc = "open"])
                            ELSE End(p, "failed")
  /\ UNCHANGED <<disk, meta, artifacts, library, catalog, serial, runs, mishap>>

-----------------------------------------------------------------------------
(* The description, UpsertServiceDescriptionAspect                         *)

\* BuildServiceDescription; `sure` remembers whether the archive stayed as it
\* was since the run began.
Description(p) ==
  [rid |-> serial + 1, artifact |-> pub[p].artifact,
   schema |-> pub[p].header.schema, sure |-> pub[p].sure]

\* The reply comes, or the request is sent again.
Answered(p, again) ==
  \/ End(p, "ok") /\ UNCHANGED faults
  \/ Fault /\ Step(p, again)

\* PUT replaces the only record there is.
PutReplaces(p) ==
  LET s == pub[p].service
  IN  /\ At(p, "put") /\ Cardinality(catalog[s]) = 1
      /\ catalog' = [catalog EXCEPT ![s] = {Description(p)}]
      /\ serial' = serial + 1
      /\ Answered(p, pub[p])
      /\ UNCHANGED <<disk, meta, artifacts, library, runs, mishap>>

Racing(p, s) == \E q \in Publishers \ {p} : At(q, "post") /\ pub[q].service = s

\* Mutant: any error of PUT leads to POST.
PutFailsThenPost(p) ==
  /\ At(p, "put")
  /\ Step(p, [pub[p] EXCEPT !.pc = "post"])
  /\ mishap' = IF Racing(p, pub[p].service) THEN mishap \cup {pub[p].service} ELSE mishap
  /\ UNCHANGED <<disk, meta, artifacts, library, catalog, serial, faults, runs>>

\* Nothing to replace: 404.
PutNotFound(p) ==
  LET s == pub[p].service
  IN  /\ At(p, "put") /\ catalog[s] = {}
      /\ Step(p, [pub[p] EXCEPT !.pc = "post"])
      /\ mishap' = IF Racing(p, s) THEN mishap \cup {s} ELSE mishap
      /\ UNCHANGED <<disk, meta, artifacts, library, catalog, serial, faults, runs>>

\* The service replaces a record only if it is the one active record
\* (cmd/datafabric.go:87).
PutRefused(p) ==
  /\ At(p, "put") /\ Cardinality(catalog[pub[p].service]) > 1
  /\ End(p, "failed")
  /\ UNCHANGED <<disk, meta, artifacts, library, catalog, serial, faults, runs, mishap>>

Post(p) ==
  LET s == pub[p].service
  IN  /\ At(p, "post")
      /\ catalog' = [catalog EXCEPT ![s] = @ \cup {Description(p)}]
      /\ serial' = serial + 1
      /\ mishap' = IF pub[p].posted THEN mishap \cup {s} ELSE mishap
      /\ Answered(p, [pub[p] EXCEPT !.posted = TRUE])
      /\ UNCHANGED <<disk, meta, artifacts, library, runs>>

-----------------------------------------------------------------------------
(* Errors, kills and the world                                             *)

Fail(p) ==
  /\ Working(p)
  /\ End(p, "failed")
  /\ UNCHANGED <<disk, meta, artifacts, library, catalog, serial, faults, runs, mishap>>

\* The archive is built again.
Change ==
  /\ disk.mtime < MaxChanges
  /\ \E a \in Archives \ {disk.archive} :
       disk' = [archive |-> a, mtime |-> disk.mtime + 1]
  /\ pub' = [p \in Publishers |->
       [pub[p] EXCEPT !.sure = @ /\ (pub[p].pc = "idle" \/ pub[p].tool # "cli")]]
  /\ UNCHANGED <<meta, artifacts, library, catalog, serial, faults, runs, mishap>>

\* Seen only by those who pack.
LibraryGrows ==
  /\ \E p \in Publishers : At(p, "pack")
  /\ library < 2 /\ library' = library + 1
  /\ UNCHANGED <<disk, meta, artifacts, catalog, pub, serial, faults, runs, mishap>>

Packing(p) ==
  \/ \E s \in Services, sources \in SourceLists : BeginCreate(p, s, sources)
  \/ Pack(p) \/ PackReturns(p)

Uploading(p) ==
  \/ Stat(p) \/ CreateRecord(p) \/ WriteMeta(p) \/ OpenArchive(p)
  \/ StoreHalf(p) \/ StoreCut(p) \/ UploadReturns(p) \/ UploadFails(p)

Describing(p) ==
  \/ PutReplaces(p) \/ PutNotFound(p) \/ PutRefused(p) \/ Post(p)

Next ==
  \/ \E p \in Publishers :
       \/ \E s \in Services : BeginUpdate(p, s)
       \/ Packing(p) \/ Uploading(p) \/ Describing(p) \/ Fail(p)
  \/ Change \/ LibraryGrows

Spec == Init /\ [][Next]_vars

-----------------------------------------------------------------------------
(* Properties                                                              *)

\* What publishing promises (nextflow.go, UploadArchiveAsArtifact and
\* UpsertServiceDescriptionAspect together): descriptions name artifacts that are
\* stored to their full length (their bytes may be wrong, see Cut), none is
\* lost, and a publisher that reports success has just described its service,
\* across kills, lost replies and resumed uploads.
Catalog == INSTANCE ServiceCatalog WITH
  catalog  <- [s \in Services |->
                 {[rid |-> r.rid, artifact |-> r.artifact] : r \in catalog[s]}],
  complete <- {a \in DOMAIN artifacts : Len(artifacts[a]) = 2},
  status   <- [p \in Publishers |->
                 IF Working(p) THEN "working" ELSE pub[p].result]

ImplementsCatalog == Catalog!CatalogSpec

\* The file that describes the tool, as nextflow.go says of its two names:
\* ivcap.yaml if it is there, at the top or as the only one further down.
HeaderFile(parts) ==
  LET Named(n) == {i \in DOMAIN parts : Last(Clean(TrimSlash(parts[i].path))) = n}
      n == IF Named(SimpleToolFileName) # {} THEN SimpleToolFileName ELSE ToolFileName
      top == {i \in Named(n) : Clean(TrimSlash(parts[i].path)) = <<n>>}
  IN  parts[IF top # {} THEN Min(top) ELSE CHOOSE i \in Named(n) : TRUE].data

\* Whether that file accepts a request with these parameters and sample row.
Documented(data, given, row) ==
  IF data.kind = "simple"
  THEN /\ \A p \in ToSet(data.params) : p.optional \/ p.name \in given
       /\ data.samples = <<>> \/ row = Len(data.samples)
  ELSE Admits(data.fn, given, row)

\* A service whose archive did not change under the run that published it
\* takes exactly the requests that the archive it runs documents, although the
\* header was read from the file (LoadToolHeaderFromArchivePath) before the
\* upload opened it, perhaps to resume what another run began.  It says nothing
\* of a half of which a chunk was cut: a service can be described by a corrupt
\* archive, but its other half is the archive that documents those requests.
SchemaOfItsArchive ==
  \A s \in Services : \A r \in catalog[s] : r.sure =>
    LET halves == artifacts[r.artifact]
        whole == {i \in DOMAIN halves : halves[i] # Cut}
    IN  /\ Len(halves) = 2
        /\ \A i, j \in whole : halves[i] = halves[j]
        /\ \A i \in whole, given \in SUBSET {"p", "q"}, row \in 0..2 :
             Admits(r.schema, given, row) = Documented(HeaderFile(halves[i]), given, row)

\* A service is described once, whatever was killed or tried again, unless a
\* POST had to be repeated or two publishers both found nothing to replace
\* (UpsertServiceDescriptionAspect): after that every PUT is refused.
OneDescription ==
  \A s \in Services \ mishap : Cardinality(catalog[s]) <= 1

\* What a source names in the finished library.
Meant(src) ==
  IF src.type # "artifact" THEN src.data
  ELSE IF src.inner = EmptyPath THEN [kind |-> "copy", halves |-> 2]
  ELSE FindFile(Library, TRUE, TrimSlash(src.inner)).data

\* In an archive of nextflow_create every file is found under the path its
\* source gave, with what the source names, unless the artifact it came from
\* was fetched before its upload was complete (TarGzFromSources).
PackedExact ==
  \A p \in Publishers : pub[p].tool = "mcp" /\ pub[p].pc \in {"create", "put"} =>
    \A i \in DOMAIN pub[p].sources :
      LET src == pub[p].sources[i]
      IN  (src.type = "artifact" => i \notin pub[p].early) =>
            FindFile(pub[p].archive, TRUE, SanitizeTarPath(src.path))
              = Found(Meant(src))
=============================================================================
