---------------------------- MODULE McpArtifacts ----------------------------
(***************************************************************************)
(* The MCP tools artifact_create and artifact_get (pkg/mcp): handlers that *)
(* run concurrently pack parts into an archive, create an artifact and     *)
(* upload it, or read an artifact or one file of it through the cache of   *)
(* the last archive.  One upload is that of TusUpload, here in a few steps *)
(* and without its cut chunks.                                             *)
(***************************************************************************)
EXTENDS TarPaths

CONSTANTS
  Handlers,     \* concurrent tool calls
  Contents,     \* names of the parts of a call, EmptyPath for an unnamed one
  Paths,        \* paths artifact_get may be asked for
  MaxCreates,   \* bound: calls that create
  MaxGets       \* bound: calls that get

ASSUME ArtifactsAssumption ==
  /\ \A names \in Contents : names \in Seq(Seq(STRING)) /\ Len(names) \in 1..3
  /\ Paths \subseteq Seq(STRING)
  /\ MaxCreates \in Nat /\ MaxGets \in Nat

VARIABLES
  call,        \* state of each handler
  store,       \* the service's artifacts: content, and how much is stored
  cache,       \* lastTarCache
  creates,     \* calls that create, begun
  gets,        \* calls that get, begun
  early        \* artifacts somebody downloaded before they were complete

counts == <<creates, gets>>
mcpVars == <<call, store, cache, counts, early>>

NoData == [tar |-> FALSE, parts |-> <<>>, whole |-> FALSE]

Idle == [pc |-> "idle", names |-> <<>>, id |-> 0, path |-> NoPath,
         mime |-> "none", data |-> NoData, result |-> "none"]

Part == [path : Seq(STRING), data : Nat \X Nat]
Data == [tar : BOOLEAN, parts : Seq(Part), whole : BOOLEAN]

TypeOK ==
  /\ \A h \in Handlers :
       /\ call[h].pc \in {"idle", "create", "upload", "status",
                          "lookup", "download", "fill"}
       /\ call[h].id \in 0..Len(store)
       /\ call[h].data \in Data
       /\ call[h].result \in {"none", "created", "blob", "absent", "broken",
                              "error"}
  /\ \A a \in ToSet(store) :
       /\ a.content \in Data /\ a.stored \in 0..Len(a.content.parts)
       /\ a.whole => a.stored = Len(a.content.parts)
  /\ cache.artifact \in 0..Len(store)
  /\ cache.artifact # 0 => store[cache.artifact].mime = "gzip"
  /\ creates \in 0..MaxCreates /\ gets \in 0..MaxGets
  /\ early \subseteq DOMAIN store

McpInit ==
  /\ call = [h \in Handlers |-> Idle]
  /\ store = <<>>
  /\ cache = [artifact |-> 0, raw |-> NoData]
  /\ creates = 0 /\ gets = 0
  /\ early = {}

Goto(h, pc) == call' = [call EXCEPT ![h].pc = pc]

\* artifact_create returned the artifact's id, or a tool an error.
Ends(h, result) == call' = [call EXCEPT ![h] = [Idle EXCEPT !.result = result]]

\* artifact_get found something, or found that there is nothing.
Returns(h, result, data) ==
  call' = [call EXCEPT ![h].pc = "idle", ![h].mime = "none",
                       ![h].result = result, ![h].data = data]

-----------------------------------------------------------------------------
(* artifact_create                                                         *)

\* defaultPartName
DefaultPartName(i) == <<"part-1.txt", "part-2.txt", "part-3.txt">>[i]

TarPath(names, i) ==
  SanitizeTarPath(IF names[i] = EmptyPath THEN <<DefaultPartName(i)>>
                  ELSE names[i])

\* Mutant: a name may occur twice.
ValidNamesRepeated(names) ==
  \A i \in DOMAIN names : TarPath(names, i) \notin {NoPath, Manifest}

\* What tarGzFromParts insists on.
ValidNames(names) ==
  /\ \A i \in DOMAIN names : TarPath(names, i) \notin {NoPath, Manifest}
  /\ \A i, j \in DOMAIN names : TarPath(names, i) = TarPath(names, j) => i = j

\* mcpContentToArtifactPayload: one part as it is, several in an archive with
\* the manifest at its end.  The content of a part is the call and its place.
Payload(names, create) ==
  IF Len(names) = 1
  THEN [tar |-> FALSE, whole |-> TRUE,
        parts |-> <<[path |-> NoPath, data |-> <<create, 1>>]>>]
  ELSE [tar |-> TRUE, whole |-> TRUE,
        parts |-> Append(
          [i \in DOMAIN names |-> [path |-> TarPath(names, i),
                                   data |-> <<create, i>>]],
          [path |-> Manifest, data |-> <<create, 0>>])]

BeginArtifact(h, names) ==
  /\ call[h].pc = "idle"
  /\ creates < MaxCreates
  /\ creates' = creates + 1
  /\ Len(names) > 1 => ValidNames(names)
  /\ call' = [call EXCEPT ![h] =
       [Idle EXCEPT !.pc = "create", !.names = names,
                    !.data = Payload(names, creates + 1)]]
  /\ UNCHANGED <<store, cache, gets, early>>

\* A name is refused, or the data of a part cannot be had.
CreateRefused(h) ==
  /\ call[h].pc = "idle"
  /\ Ends(h, "error")
  /\ UNCHANGED <<store, cache, counts, early>>

\* The record is made, and the reply may get lost.
CreateArtifact(h) ==
  /\ call[h].pc = "create"
  /\ store' = Append(store,
       [mime |-> IF call[h].data.tar THEN "gzip" ELSE "text",
        content |-> call[h].data, stored |-> 0, whole |-> FALSE])
  /\ \/ call' = [call EXCEPT ![h] = [Idle EXCEPT !.pc = "upload",
                                               !.id = Len(store) + 1]]
     \/ Ends(h, "error")
  /\ UNCHANGED <<cache, counts, early>>

UploadSome(h) ==
  /\ call[h].pc = "upload"
  /\ LET a == store[call[h].id]
         all == Len(a.content.parts)
     IN /\ ~a.whole
        /\ \E n \in a.stored..all, whole \in BOOLEAN :
             /\ n > a.stored \/ whole
             /\ whole => n = all
             /\ store' = [store EXCEPT ![call[h].id].stored = n,
                                               ![call[h].id].whole = whole]
  /\ UNCHANGED <<call, cache, counts, early>>

UploadDone(h) ==
  /\ call[h].pc = "upload"
  /\ store[call[h].id].whole
  /\ Goto(h, "status")
  /\ UNCHANGED <<store, cache, counts, early>>

\* The record or the upload fails.
CreateFails(h) ==
  /\ call[h].pc \in {"create", "upload"}
  /\ Ends(h, "error")
  /\ UNCHANGED <<store, cache, counts, early>>

\* Whether or not the status can be read, the call reports the artifact.
ReadStatus(h) ==
  /\ call[h].pc = "status"
  /\ Ends(h, "created")
  /\ UNCHANGED <<store, cache, counts, early>>

-----------------------------------------------------------------------------
(* artifact_get                                                            *)

\* Reads the record: its MIME type may be missing.
BeginGet(h, id, path) ==
  /\ call[h].pc = "idle"
  /\ gets < MaxGets
  /\ gets' = gets + 1
  /\ \E mime \in {store[id].mime, "none"} :
       call' = [call EXCEPT ![h] =
         [Idle EXCEPT !.pc = IF path = NoPath THEN "download" ELSE "lookup",
                      !.id = id, !.path = path, !.mime = mime]]
  /\ UNCHANGED <<store, cache, creates, early>>

\* The gzip magic tells an archive, or the MIME type.
LooksLikeTar(mime, data) ==
  \/ mime = "gzip"
  \/ data.tar /\ (data.whole \/ data.parts # <<>>)

\* What the call returns once it has the bytes of the artifact.
Answer(h, data) ==
  LET found == Extract(data, call[h].path)
  IN IF call[h].path = NoPath THEN Returns(h, "blob", data)
     ELSE IF ~LooksLikeTar(call[h].mime, data) \/ found.result = "refused"
       THEN Ends(h, "error")
     ELSE Returns(h, found.result, [NoData EXCEPT !.parts = found.parts])

\* Mutant: the cache is not asked whose archive it holds.
CachedAny(id) == cache.artifact # 0

Cached(id) == cache.artifact = id

LookUpHit(h) ==
  /\ call[h].pc = "lookup"
  /\ Cached(call[h].id)
  /\ Answer(h, cache.raw)
  /\ UNCHANGED <<store, cache, counts, early>>

LookUpMiss(h) ==
  /\ call[h].pc = "lookup"
  /\ ~Cached(call[h].id)
  /\ Goto(h, "download")
  /\ UNCHANGED <<store, cache, counts, early>>

\* Mutant: what was read before the download broke off is kept.
DownloadPart(h) ==
  /\ call[h].pc = "download"
  /\ LET a == store[call[h].id]
     IN \E n \in 0..a.stored :
          /\ call' = [call EXCEPT ![h].pc = "fill",
               ![h].data = [tar |-> a.content.tar,
                            parts |-> SubSeq(a.content.parts, 1, n),
                            whole |-> a.whole /\ n = a.stored]]
          /\ early' = IF a.whole THEN early ELSE early \cup {call[h].id}
  /\ UNCHANGED <<store, cache, counts>>

\* downloadArtifactBytes: what the service has stored at this time.
Download(h) ==
  /\ call[h].pc = "download"
  /\ LET a == store[call[h].id]
     IN /\ call' = [call EXCEPT ![h].pc = "fill",
             ![h].data = [tar |-> a.content.tar,
                          parts |-> SubSeq(a.content.parts, 1, a.stored),
                          whole |-> a.whole]]
        /\ early' = IF a.whole THEN early ELSE early \cup {call[h].id}
  /\ UNCHANGED <<store, cache, counts>>

MaybeUpdateTarCache(h) ==
  cache' = IF LooksLikeTar(call[h].mime, call[h].data)
           THEN [artifact |-> call[h].id, raw |-> call[h].data]
           ELSE cache

Fill(h) ==
  /\ call[h].pc = "fill"
  /\ MaybeUpdateTarCache(h)
  /\ Answer(h, call[h].data)
  /\ UNCHANGED <<store, counts, early>>

\* The record cannot be read or has no data, or the download fails.
GetFails(h) ==
  /\ call[h].pc \in {"lookup", "download"}
  /\ Ends(h, "error")
  /\ UNCHANGED <<store, cache, counts, early>>

-----------------------------------------------------------------------------

CreateStep(h) ==
  \/ \E names \in Contents : BeginArtifact(h, names)
  \/ CreateRefused(h)
  \/ CreateArtifact(h)
  \/ UploadSome(h)
  \/ UploadDone(h)
  \/ CreateFails(h)
  \/ ReadStatus(h)

GetStep(h) ==
  \/ \E id \in DOMAIN store, path \in Paths \cup {NoPath} :
       BeginGet(h, id, path)
  \/ LookUpHit(h)
  \/ LookUpMiss(h)
  \/ Download(h)
  \/ Fill(h)
  \/ GetFails(h)

McpNext == \E h \in Handlers : CreateStep(h) \/ GetStep(h)

McpSpec == McpInit /\ [][McpNext]_mcpVars

-----------------------------------------------------------------------------

\* Names that create and get spell alike: no backslash, no "..", at most one
\* slash in front.
IsPlain(name) ==
  /\ name # EmptyPath
  /\ {"..", "\\"} \cap ToSet(name) = {}
  /\ ~IsRooted(TrimSlash(name))

\* Whatever archive is packed, each part is found under its tar path and, if it
\* has a plain name, under that: no part hides another or the manifest.
PartsRetrievable ==
  \A h \in Handlers :
    LET c == call[h] IN
    c.pc = "create" /\ c.data.tar =>
      /\ Extract(c.data, Manifest).parts = <<Last(c.data.parts)>>
      /\ \A i \in DOMAIN c.names :
           /\ Extract(c.data, TarPath(c.names, i)).parts = <<c.data.parts[i]>>
           /\ IsPlain(c.names[i]) =>
                Extract(c.data, c.names[i]).parts = <<c.data.parts[i]>>

\* The part of artifact id that has this path.
PartsAt(id, path) ==
  {part \in ToSet(store[id].content.parts) : part.path = InnerPath(path)}

\* A call that returns data returns that of the artifact it was asked for: the
\* part of that name, or what was stored of the whole, whichever call filled the
\* cache.
GetExact ==
  \A h \in Handlers :
    LET c == call[h] IN
    c.result = "blob" =>
      LET full == store[c.id].content.parts IN
      IF c.path # NoPath
      THEN c.data.parts # <<>> /\ Head(c.data.parts) \in PartsAt(c.id, c.path)
      ELSE IF c.data.whole THEN c.data.parts = full
      ELSE IsPrefix(c.data.parts, full)

\* A part of an archive is missed only if somebody fetched that artifact before
\* it was complete: the cache may then serve the torso.
MissedOnlyEarly ==
  \A h \in Handlers :
    call[h].result \in {"absent", "broken"}
      /\ PartsAt(call[h].id, call[h].path) # {} => call[h].id \in early
=============================================================================
