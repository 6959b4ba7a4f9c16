# A verification of ivcap-cli

TLA+ models of the parts of `ivcap` in which the order of events decides the
outcome: uploads that are cut, retried and resumed, the REST adapter under
them, the configuration and history files that concurrent commands share, the
publishing of pipelines as services, the MCP server's sessions, queues, the
waiting for jobs and logins, and the bookkeeping of uploaded files. TLC
checks every module on small instances. TLAPS proves every safety invariant and
every refinement that the passing runs check, for all values of the constants:
for all file sizes, chunk sizes and retry budgets of an upload, for any number
of commands that rewrite the configuration, the history and the meta files, for
any number of publishers, handlers, sessions, kills and faults, and for archives
of any length with whatever paths in them. Liveness stays with TLC.

    tlc -workers 2 -config MCTusUpload.cfg MCTusUpload     # one run
    tlapm UploadProofs.tla                                 # the proofs of a module

`PROJECT.json` lists the runs, the source lines each definition stands for,
the hazards the properties are aimed at, and for each property of a passing
run a mutant: an operator with the comment `Mutant:` that replaces the
definition after it by what a plausible slip would make of it, and under which
the property fails.

## The system

`ivcap` is a command line client of a REST platform. Each command is a process
of its own; commands share files in the user's configuration directory and
beside the data they upload. `ivcap mcp` is a long-running server whose
handlers run concurrently.

| Component | State | Operations | What makes it correct |
|---|---|---|---|
| REST adapter, `pkg/adapter` | `client.Timeout`, the body of the request in flight | `Connect`, `doWithRetry` | a call returns in bounded time, retries repeat only what may be repeated |
| Upload of a file, `pkg/artifact.go` `UploadArtifact` | remaining bytes, position of the reader; the server's stored bytes | one PATCH per chunk | nil means that the artifact is the file |
| Upload of a stream, `uploadUnknownSize` | buffer, offset; the server's declared length | PATCH per buffer, a last one with the length | the declared artifact is the whole stream |
| Archive upload, `pkg/nextflow/nextflow.go` | the UploadMeta file beside the archive, the attempt counters | create, record, resume from the server's offset | a run that succeeds leaves the archive at the service; runs resume the right artifact |
| Contexts, `cmd/common.go`, `cmd/context.go` | `config.yaml`: the contexts, the active one | read, change, truncate and write, without lock | no context or token goes to the wrong place |
| Tokens, `cmd/login.go` | tokens in the contexts; the provider's valid refresh tokens | login, refresh, logout | the refresh token on file stays usable |
| Artifact commands, collections, `cmd/artifact.go`, `cmd/collection.go` | meta files `.ivcap-<name>.txt` beside the files | hash, look up, create, upload, record | a meta file names an exact copy; nothing is uploaded twice |
| Device login, `cmd/login.go` | the device code at the provider, the interval | request a code, poll for the tokens | the login ends |
| Jobs, `cmd/job.go`, `cmd/nextflow.go`, `pkg/mcp` | the job and its aspect at the service, the number of checks | submit, poll, stream | results are final, polling ends |
| Publishing a pipeline, `cmd/nextflow.go`, `pkg/nextflow`, `pkg/mcp/nextflow.go` | the archive on disk and its UploadMeta file, or a list of sources; the service's description | read the header, pack, upload or resume, PUT or POST | the service is described once, by an artifact of full length, as its archive says |
| Queues, `cmd/queue.go`, `pkg/queue.go` | the platform's queues, the file of saved messages | list, get, create, enqueue, dequeue, delete | dequeued messages are saved, none twice |
| History, `cmd/common.go`, `cmd/root.go` | the history file | print tokens, save them, look one up | `@2` is what was shown as `@2` |
| MCP server, `pkg/mcp/server.go` | per session allow-list, order and scores; tools registered for all | `select_tools`, `tools/list`, tool calls | a session sees and calls what it selected |
| MCP artifacts, `pkg/mcp/artifact_create.go`, `artifact_get.go` | the archive fetched last; the artifacts at the service | pack, create and upload; look up, download, extract | a part is found under its name; the cache serves the artifact that was asked for |
| Orders, services, secrets, aspects, packages, skills | none of their own | one request and a formatted reply | what can go wrong is in the adapter |

How they interact. Everything that talks to the platform goes through
`restAdapter.Connect`; uploads call it once per chunk, and what an upload can
survive is decided by what a retry may repeat there. Commands make their
adapter from `config.yaml` (`CreateAdapterWithTimeout`), which may refresh the
token and write the file. `artifact create`, `create-collection` and
`nextflow create` use the uploads and keep a file of their own beside the data
so that a later run need not upload again. The MCP server uses the same
libraries from concurrent handlers and is called back by mcp-go to filter each
session's list of tools.

Hard behaviours, with the lines where they bite, are the "hazards" of
`PROJECT.json`: repeated requests with a body that was partly read, replies
lost after the server acted, kills between two writes, files that change
between two looks at them, read-modify-write without a lock, providers that
rotate refresh tokens, handlers that interleave.

## The modules

**`RetryPolicy`** sorts status codes as `isRetryableStatusCode` and
`doWithRetry` do. All modules that send requests use it.

**`TusUpload`** is one call of `UploadArtifact` with `doWithRetry` inlined.
`file` and `stored` are sequences of bytes, all different, so that any
misplaced byte shows. `up` holds the locals: `remaining`, `psize`, the `N` of
the `LimitedReader`, the position of the file reader. `NextChunk` and
`UploadReturns` are the loop, `Send(k)` one `client.Do` of which the transport
reads `k` bytes before it succeeds or breaks down, the actions after it the
branches of the retry closure. `net` keeps requests the client has given up:
they are served at any later time, or never. The transport facts used are
Go's: an `io.LimitedReader` has no `GetBody`, so a retried request reads on
where the last attempt stopped, under the same `Content-Length`, and a body
that is shorter than its `Content-Length` ends the exchange with an error. The
server is a TUS server: an offset other than its own gets 409, 204 means that
all of the body is stored, and what arrived of a broken request is kept.
*Not modelled:* two writers on one request at a time. `client.Do` closes the
connection of an attempt it gives up, and the next attempt starts after a
back-off of at least 100 ms.

**`UploadContract`** is the abstract specification: data that only grows while
the call runs, one step to success that requires the data to be the file, one
to failure. `TusUpload` implements it under
`data <- stored, outcome <- ...` (`ImplementsContract`), also with requests
that arrive after the call has returned.

**`TusStream`** is `uploadUnknownSize`: `Read` may return less than fits in
the buffer, the buffer's reader can be rewound by the transport (it is a
`bytes.Reader`), the server may take less than it was sent and says so in
`Upload-Offset`, and the last PATCH declares the length.

**`ArchiveResume`** extends `TusUpload` by `UploadArchiveAsArtifact` and
`tusUploadWithResume`: a run reads or creates the artifact, writes the
UploadMeta file, asks for the offset, and calls the upload again and again.
Runs are killed (`Crash`) and begun anew, and the archive may be rebuilt at
any time with another modification time (`Modify`).

**`HttpRetry`** looks at the adapter for its own sake, for all shapes of call:
without body, with a body in memory (the transport may rewind it on a reused
connection that broke) and with a stream; with or without a deadline in the
context; and the downloads, whose response handler writes to a file
(`artifact download`), to standard output (the same, and order logs) or to
memory (the MCP server), as a whole or in part when the exchange breaks off.
An attempt can fail before anything of the body was read (dialling, TLS), while
it is read, or for want of bytes (`SendCut`), and leaves the next attempt what it
did not read (`Leftovers`): a stream may well be carried out by a later attempt.
Time is in ticks. `client.Timeout` is set by the first call without a deadline
and stays.

**`ContextStore`** is `config.yaml` under concurrent commands (`context
create`, `context set`, `login`, `login --refresh-token`, `logout`, and a call
that needs a token). A command reads the file up to four times:
for the URL, for the token's context, for the adapter of the token request,
and once more in `SetContext`, which then truncates and writes the file in two
steps. A command can be killed at each of them; an empty file parses as a
configuration without contexts. Two commands that both truncate before they
write leave the end of the longer text behind the shorter one (`Overwrite`):
whole entries of older texts (`texts`), or a file that is no YAML (not
`readable`), on which every read fails until somebody truncates it again. The
text of one command is written in one `write(2)`; that this call itself stops
half-way is left out. The provider rotates refresh tokens or not (`Rotates`), and
its answer can be lost.

**`McpTools`** is `select_tools` and the filter of `tools/list`. The
allow-list, the registry shared by all sessions and the client's notification
are updated in the code's order by handlers that interleave; the filter reads
the allow-list and its order under two separate locks. A tool's aspect may name
no service (`NoService`, `ParsedTools`): its handler then calls none and fails.

**`JobWatch`** covers `job create` and `nextflow run` (plain, `--watch`,
`--stream`) and the MCP server's tools that start a job, which wait for it
(mode "tool") or return its id (mode "start"), against a service that runs the
job at its own pace, or replies with the job at once, and lists the job's
aspect some time after it accepted it. The tools pass such a reply on without
looking at its status (`answered`), which may be that of a running job.

**`DeviceLogin`** is `ivcap login`: the device code, the polling for the tokens,
the provider that lets the code run out and gives the tokens once. `MCJobWatch`
composes it with `JobWatch`: the two loops that poll run side by side, each
with the fairness of its own process. What is done with the tokens is in
`ContextStore`.

**`ArtifactCreate`** has processes that run `artifact create` and `collection
create` over the same directory: hash, meta file, creation of the record, the
PATCHes of the upload, status, writing of the meta file, each a step, with
failures, kills and changes of the files in between. A meta file whose writing is
cut short is empty, useless, or, if the cut is behind the `|`, a record with
part of the artifact's id, which the reader takes for an id (`art = 0`,
`WriteMetaFails`); `torn` remembers the file. There is also `artifact upload`
(`BeginUpload`, `AskOffset`, `SkipStored`), which goes on with any artifact,
also one that another command is at work on, and with any file. A PATCH is one
step (`SendPart`), or leaves something else than its part (`SendPartFails`):
that these are its outcomes is the result of `TusUpload`.

**`McpArtifacts`** has the handlers of `artifact_create` and `artifact_get` run
concurrently: parts are named, packed, and uploaded piece by piece; an artifact
is fetched as it is at that time, also half-way through its upload, and goes
through the cache of the last archive, whose look-up and filling are two
critical sections with the download in between. **`TarPaths`** is the handling
of names: `SanitizeTarPath`, `path.Clean` and the search in the archive, as
operators on sequences of segments. `Walk` is what `path.Clean` does with one
segment, `Kept` takes it along the path by a recursive function.

**`ToolHeader`** is what an archive says of its tool, as functions: the search
for `ivcap.yaml` and `ivcap-tool.yaml` by path and by name
(`ExtractFileFromTarReader`), the schema made of a simplified header, and the
validation of one that is given. A schema is a record of what the validation
and a request look at. **`NextflowPublish`** uses it: publishers run `nextflow
create`/`update` on an archive on disk, which is stored in two halves, resumed
through its UploadMeta file (`Stat`, `WriteMeta`, `OpenArchive`) and may be
built again at any time. A half of which a chunk was cut and retried holds the
bytes of no archive (`StoreCut`, `Cut`), and the upload goes on behind it, as
`archive_resume_cut` shows it does. Or they run the tool `nextflow_create`, which packs sources
(`Pack`, `PackReturns`), some of them from an artifact that is still growing.
`PutReplaces`, `PutNotFound`, `PutRefused` and `Post` are the two requests of
`UpsertServiceDescriptionAspect` at a service that replaces the only record
there is. Any step can be the last (`Fail`), and `faults` bounds the exchanges
that break down. Each half of an artifact that was not cut remembers the archive
it was read from.

**`ServiceCatalog`** is the abstract specification: artifacts become complete
(in length: their bytes are the concern of `SchemaOfItsArchive`),
a description is added or replaced by one of a complete artifact, never taken
away, and a publisher reports success only by such a step. `NextflowPublish`
implements it (`ImplementsCatalog`) with the halves, the meta file, the header
and the requests hidden.

**`QueueCommands`** has terminals that run `ivcap queue ...` on shared queues.
A command resolves its `@n` when it begins (`BeginWith`), prints tokens
(`ShowList`, `ShowQueue`), and saves them when it ends in two steps
(`TruncateHistory`, `WriteHistory`), as `os.WriteFile` does; two that write at
once leave the end of the longer text behind the shorter one, or a file that
cannot be read. A listing without a token to save does not touch the file. `Dequeue` takes messages out for each request served, also for
one whose reply is lost; the reply is formatted (`FormatFails`) before the file
is emptied (`OpenFile`) and written (`SaveMessages`).

Each has a module `MC...` with its instances and one or two `.cfg` files.

## The runs

| Run | Question | Bounds, and why they are enough |
|---|---|---|
| `tus_upload` | Does nil mean an exact copy, does the call return, does it keep the contract? | 5 bytes in chunks of 3: a full and a short chunk, cuts at every byte; 3 attempts: one to be cut, one to send the rest, one to find nothing left; one permanent and one retryable code |
| `archive_resume` | Do killed and repeated runs resume the right artifact and end? | 3 bytes in chunks of 2, 2 runs of 2 attempts (20 in the code; 2 separate "once more" from "give up", as does 2 for the limit of 5 at one offset), 1 change of the archive |
| `archive_resume_cut` | Is a resumed artifact the archive? *Violated*, see the findings | one chunk, `--chunk-size -1` |
| `tus_stream` | Is a declared artifact the whole stream? | 4 bytes through a buffer of 2, short reads, 3 attempts |
| `http_retry` | What may a retry repeat, what does a repeated download leave, how long does a call last? | all shapes of 2 calls in a row on one adapter, so that the second finds the first one's timeout; a timeout of 2 ticks within a budget of 3 |
| `context_store` | Can concurrent commands corrupt `config.yaml`? | 2 processes, 2 contexts, 3 commands: two that interleave, and write over each other, and one that sees the damage |
| `mcp_tools` | Does each session see and call what it selected? | 2 sessions, 2 handlers, 2 tools, 2 services, 4 requests: two selections and a list each, overlapping in any way; tools with and without a service of their own |
| `job_watch` | Is a result that was waited for final, does polling end, for jobs and for logins? | 3 and 4 checks for the 99 and 100 of the code, kept different so that a mix-up shows; an interval of 0 or 1 that doubles up to 4 |
| `artifact_create` | Do meta files tell the truth, are parts where they belong? | 2 processes, 2 files in 2 parts of which one changes once, 3 commands, 3 artifacts: a collection and a second copy, or one left over by a lost reply; a meta file cut once is enough for a command that reads it and one that makes a collection with it |
| `mcp_artifacts` | Are packed parts found again, is the cache ever wrong? | 2 handlers, 2 creations and 2 fetches: one that fills the cache and one that meets it, of the same artifact or another; 7 contents with clashing, refused and equivalent names; 3 paths |
| `nextflow_publish` | Is a published service described once, by an artifact of full length, as its archive says? | 2 publishers of 1 service, 2 runs (one interrupted and one that resumes it, or two at once), 1 broken exchange (a lost reply, or a chunk that is cut), 1 change of the archive; 3 archives and 4 lists of sources with the header at the top, further down, twice, in both kinds, invalid, from an artifact, under equivalent paths; every request of 2 parameters and 0 to 2 samples |
| `queue_commands` | Do tokens mean what was shown, do pages cover the listing, which messages does a dequeue save? | 2 terminals, 5 commands (two listings, of nothing or of queues, and commands that make queues or use tokens), 3 queues on pages of 2, 2 messages each, 1 lost reply; `--limit` 0 and 2 |

Deadlock is checked in `mcp_artifacts` only, where a handler can always take
another call; all other models end when the command or the bounded number of
commands has ended.

The conditions in the properties are deliberate and none of them is vacuous
(the mutants violate every property under its condition):

* `ResumedCopy` excludes runs in which a chunk was cut and retried (that is
  the finding) and in which the archive changed while it was uploaded;
  `ResumedComplete` has no condition.
* `RefreshTokenUsable` and `ContextsKept` hold as long as no update of the file
  was cut short or overwritten unseen (`lossy`): the file has no lock, and
  lost updates do happen. `ActiveExists` has no condition.
* `TokensBelong` holds as long as nobody switched the active context under a
  running command (`switched`). It is about the contexts on file and about the
  URL and the token an adapter was made from.
* `CallsAnnouncedService` gives up a tool whose name another session selects,
  too: the registry has one handler per name. A call may fail for want of a
  service only if the announced tool's aspect names none.
* `ShownIsFinal` leaves out the reply that answers a submission at once: the code
  passes it on unread. `job create --watch` may show an unfinished job after its
  last check, and only then.
* `ArtifactsExact` and `CollectionExact` except files that changed between
  the hash and the end of the upload (`touched`): the code takes the hash first.
  A meta file, or an entry of a collection, may name no artifact only if that
  file's meta file was once cut (`torn`). For an artifact that `artifact upload` completed, `ArtifactsExact` promises
  the places of the parts only, and not of those that were cut and repeated: the
  command neither compares the file with the one the artifact was begun with nor
  writes the meta file.
* `OkMeansApplied` leaves out order logs: their handler never looks at the
  status and prints an error reply as if it were the log. `DownloadExact`
  promises nothing of what standard output holds before the whole body.
* `MissedOnlyEarly` is about artifacts nobody fetched before their upload was
  complete (`early`); the cache keeps what was fetched early for as long as
  it holds the entry. `PartsRetrievable` looks for a part under its tar path,
  and under the name it was given if that is plain: the reader does not turn
  `\` into `/`, and takes off only one leading slash before it cleans a path,
  so that `d\a` and `//a` can be packed and not be found as they were written.
* `UploadedOnce` is for commands that do not overlap, fail or get killed, and
  ask for no second copy (`--force`, `artifact upload`).
* `SchemaOfItsArchive` is for runs during which the archive on disk stayed as it
  was (`sure`); that an earlier run uploaded half of another archive does not
  excuse it. It cannot speak of a half of which a chunk was cut, but the other half
  must be of the archive whose header was read.
* `OneDescription` gives up a service (`mishap`) for which a POST was repeated
  after a lost reply, or which two publishers both found without description.
  The code does describe it twice then, and from then on every PUT is refused.
* `PackedExact` leaves out sources that were fetched from an artifact before its
  upload was complete (`early`). A path that is not in the artifact gives an
  empty file and no error.
* `TokensMeanShown` is for tokens whose command came to its end, as long as no
  other terminal saved or began to save tokens since (`stale`). `PagesCover` is
  for walks whose tokens are such ones. `DequeueExact` allows messages to be
  missing from the file only after a lost reply (`again`), and a damaged file
  only after the command was cut off while it wrote.

`TypeOK` of `TusUpload` is both a run's invariant and proved. The other modules
that define one (`ResumeTypeOK` in `ArchiveResume`) do so to tell what the
variables hold; it holds on the same instances, and is left out of their runs,
which ask for what could go wrong. Those of `ArchiveResume`, `TusStream`,
`HttpRetry` and `McpTools` are part of the inductive invariants; the other
proofs state only the types they need.

## Fairness

The safety properties assume none. `UploadTerminates`, `StreamTerminates` and
`RunTerminates` assume that the client goes on: weak fairness of its steps
together, which the code justifies because every `client.Do` ends, through
`client.Timeout`, which these calls set (`Patch` passes `context.Background()`),
and because `backoff.Retry` gives up after 60 s. Nothing is assumed of the
server or the network. In `HttpRetry`, where time itself is modelled, fairness
is on the client's steps, on the clock and on the firing of the timeout, not on
replies: `TimedCallReturns` is for calls whose adapter has its timeout set.
`JobWatch` assumes that the polling process runs on; the job may never finish
and an event stream may stay open for ever. `LoginEnds` assumes the same of the
login, whose requests have a time-out, and that the provider lets device codes
run out (`ExpireCode`): the loop has no limit of its own, and its comment says
that it relies on that (`cmd/login.go:314`). `NextflowPublish` and
`QueueCommands` state no liveness: each command is a sequence of requests that
ends as the adapter's calls do.

## The proofs

Every theorem of a specification has the same three parts: the initial states
satisfy an inductive invariant, every step keeps it, and it implies the property.

`UploadProofs` proves about `TusUpload`, for every `Size`, every
`ChunkSize` other than 0, every retry budget and every set of error codes
(`SizeAssumption`, `ChunkAssumption`, `TriesAssumption`, `CodesAssumption`):

* `Inductive`: `UploadSpec => []UploadInv`;
* `TypeCorrect`: the types, and that no attempt makes the artifact longer than
  the file (`NoOverrun`);
* `Exact`: `UploadedExact`, and `Fatal`: `CorruptionIsFatal`;
* `Refinement`: `UploadSpec => ImplementsContract`.

`UploadedExact` is not inductive: it says nothing of a call that has not
returned. What has to be known while it runs is the conjunction `UploadInv`:

* `RequestsInside`, `NoOverrun`: a request's bytes lie within the file behind
  its offset, so that no late request can write past its end;
* `Counters`: `remaining`, `psize`, `n` and `pos` add up in every state of the
  loop;
* `Exchange`: at most one request is live, it has the offset of the current
  chunk, and its reply is about it;
* `Clean`: as long as the chunk's attempts have read nothing of it, or all of
  it in one piece, the stored bytes are a prefix of the file;
* `WholeSent`, `WholeAccepted`: an attempt can be accepted only if it carried
  the whole chunk, and then the chunk is stored where it belongs.

The heart of the argument is why cut chunks cannot lead to success: once an
attempt has read `k > 0` bytes of a chunk and failed, no later attempt has the
chunk's `Content-Length`, so that none is answered by 204 and the call fails.
That is `CorruptionIsFatal`, and it is also why the damage is left to the
*callers* that resume (`archive_resume_cut`). The proof has a step for each
action under `[Next]_vars` and lemmas on the sequences and requests the
actions build.

`UploadProofs` also proves about `ArchiveResume`, for every archive size, chunk
size, limit of attempts and any number of runs, kills and changes of the archive
(`ResumeAssumption` and those of `TusUpload`):

* `ResumeInductive`: `ResumeSpec => []ArchiveInv`;
* `CompleteWhenOk`: `ResumedComplete`, `CopyWhenOk`: `ResumedCopy`, and
  `MetaIsOfLast`: `MetaNamesLast`.

`UploadInv` does not carry over: a run begins where an earlier one was killed,
whose requests may still arrive, and chunks may have been cut. What is left
without any condition is that no request, however late, begins behind the
artifact's end or reaches past the archive's (`Pending`), and that the client is
never ahead of the artifact (`Progress`), because a success is only given to a
request that carried its chunk (`Waiting`). From this alone follows
`ResumedComplete`. For the content the question is which archive the stored bytes
are of. `Current` says that the meta file or the run is about the archive as it
is now; while that holds and no chunk was cut, what is stored and what is on its
way is the archive's (`OfArchive`). `Versions` keeps `Current` from becoming true
again after a change: no meta file or run knows of a later modification time
than the archive's. Only a new artifact, which is empty, brings it back.

`TusStreamProofs` proves about `TusStream`, for every length of the stream and
every buffer size (`StreamAssumption`):

* `StreamInductive`: `Spec => []StreamInv`;
* `StreamExact`: `StreamedExact`, and `NoShortArtifact`: `NeverDeclaredShort`.

Here a cut chunk needs another argument: a retried request carries the whole
buffer only when the transport rewinds it, and else begins where the last
attempt stopped. The server may therefore hold wrong bytes *behind* the client's
offset, and the invariant is that it has the right ones up to it
(`Holds(up.off)`). No request, however
late, writes below the offset (`Requests`); only a complete one that carries the
buffer from its start can bring about the offset that the client compares the
reply with (`Live`, `Replied`); and the length is declared at the end of the
stream only (`Requests`, `Closed`).

`HttpRetryProofs` proves about `HttpRetry`, for every timeout, retry budget, set
of replies and number of calls (`RetryAssumption`):

* `RetryInductive`: `Spec => []RetryInv`;
* `OkApplied`: `OkMeansApplied`, `DownloadComplete`: `DownloadExact`,
  `StreamOnce`: `StreamAtMostOnce`, `Bounded`: `CallBounded`.

To the four properties the invariant adds what makes them inductive: a reply of
success is one to a request that was carried out (`Underway`), a streamed body
that nothing was read of has not been sent before, however many attempts failed
(`Unsent`), so that the one attempt that finds all of it is the only one the
service can carry out, and an attempt
begins within the budget and has used no more time than it waited (`Clock`).

`ContextStoreProofs` proves about `ContextStore`, for all sets of processes and
contexts and any number of commands and tokens (`StoreAssumption`):

* `ActiveIsContext`: `Spec => []ActiveExists`;
* `CreatedIsKept`: `Spec => []ContextsKept`;
* `TokensOfTheirContext`: `Spec => []TokensBelong`;
* `RefreshTokenIsUsable`: `Spec => []RefreshTokenUsable`.

The first two follow from `StoreInv`: what a command has read in order to write
it back is itself a sound configuration, and the context it replaces is in it or
is being created (`Named`); the same is true of every text that can still stand
behind a shorter one (`Remains`), so that a mixed file has its active context in
the part that was written last; and as long as nothing was lost, a truncated file
means that the one process about to fill it has read all that was created
(`Kept`). The third needs `TokenInv`, which holds while no switch of the active
context overlapped another command: the texts that remain hold only tokens of
their own contexts (`OwnedAll`), everything a command reads after its
context agrees with it, but for reads of an empty file (`Steady`), and the
updates under way would not change the active context under the others
(`Steadfast`). Without that condition the third read of the file, by
`getLoginInformation`, could ask another context's provider (`AskProvider`).
The fourth, that the file's refresh token is one the provider still accepts, needs
`RefreshInv`. A token is of one context wherever it is found, in the file, in a
copy read for an update or in a process's memory, and it was issued (`Traced`);
where the provider rotates tokens, one just granted is nowhere but in the memory
of the process it was granted to, and valid (`Private`). The file's tokens are then
valid unless a process holds the one to replace it (`Holds`), and while the file is
truncated the same is said of what the process about to fill it has read
(`Usable`).

`ArtifactCreateProofs` proves about `ArtifactCreate`, for all sets of processes,
directories, numbers of parts, commands and changes of files
(`CreateAssumption`):

* `CreateInductive`: `Spec => [](CreateInv /\ TornInv)`;
* `MetaNamesCopy`: `ArtifactsExact`, `CollectionIsDirectory`: `CollectionExact`,
  and `NothingTwice`: `UploadedOnce`.

Nothing keeps two commands from sending parts to the same artifact, one of them
with another file. What makes a meta file true is that artifacts only grow
(`Grows`): the parts a command has sent stay where it put them, and the last one
makes the artifact complete, so that nobody adds to it afterwards. The invariant
says of each command how much of its artifact is of the hash it took
(`Sending`), as long as the file did not change since (`Hashed`), and of a
collection in the making that its entries and what is left to do are the
directory (`Entries`, `OnTheWay`). `TornInv` says that a record without an artifact
comes from a cut meta file wherever it is met: in the meta file, in an entry of a
collection, or among the entries a command has gathered (`Explained`).

`UploadedOnce` compares two artifacts, and which of two equal ones the meta file
names does not tell why there is no second. `OnceInv` therefore numbers contents:
two whole artifacts of one file that were sent before it changed are of different
contents (`Distinct`), none of a later content than the file's; and one of the
file's *present* content is known (`Known`): the file is on record, or the one
command that runs has just sent this artifact and is about to record it. A command
that finds a file not on record hence knows that there is no artifact of its
content. This holds without `--force`, and while no command was cut short.

`ArchiveProofs` proves about `NextflowPublish`, for all sets of publishers,
services, archives and sources, whatever is killed, lost, sent again or built
anew meanwhile:

* `PublishInvariant`: `Spec => []PublishInv`;
* `CatalogRefinement`: `Spec => ImplementsCatalog`;
* `DescribedOnce`: `Spec => []OneDescription`;
* `FilesArePacked`: `Spec => []PackedExact`;
* `ArchiveDescribed`: `Spec => []SchemaOfItsArchive`.

The first three assume nothing of the archives. The last two use
`FilesAssumption`: archives, lists of sources and the library are sequences of
files, whose paths and rows of samples are sequences of strings.

Services are described by artifacts of full length because of `LocalsInv`: a
publisher knows of no more halves of its artifact than are stored (what is
stored is never taken away, `ArtifactsGrow`), a meta file names an artifact that
exists (`MetaInv`), and therefore `put` and `post` are reached with both halves
there, whoever stored them. That a description is added by exactly one step
follows from the record ids (`CatalogInv`). The lemmas go by what a step
does to the service: most steps leave it alone (`Quiet`), and `StepCases` says
that the others create a record, store a half, right or cut (`Stores`), or are
served a description.
`ServedRefines` maps the latter to `Describe` of `ServiceCatalog`.

`OneDescription` is not inductive either: a publisher that has found nothing to
replace may still add a second description. `OnceInv` adds that of a service
without mishap at most one publisher is about to POST, and that there is a
description then only if its POST was served before, so that the next one is
a repetition.

`PackedExact` follows from `PackingInv`: when `n` sources are packed, the archive
has one file for each, under the sanitized path, which no other has and which is
not the manifest's, with what the source names (`PackedPart`); `Meant` is about
the *finished* library, and a source fetched earlier is in `early`. That the file
is then found is lemma `FileFound`, which needs that the paths of such an archive
are clean and different (`CleanParts`).

`SchemaOfItsArchive` is about four pieces of state that are read at different
times: the header before the upload, the modification time in `Stat`, the bytes
while they are sent, and the description at the end. `TruthInv` ties them to the
file's modification time, which only grows. As long as the file has the time the
run saw, each half of the artifact is of that file or was cut (`HalvesAre`,
`FileTrue`); what was
packed in memory holds of its artifact without condition (`BytesTrue`); a meta
file of that time names such an artifact (`MetaTrue`). Two publishers may send
into one artifact, and each could spoil the other's; `SharingInv` says that they
share one only if both resumed what was begun at the same modification time. A
description that is `sure` then has the header of what its artifact holds
(`Described`), and `HeaderMeans` says what that header accepts: for archives of
any length, `LoadToolHeader` finds a header exactly where the documentation puts
it, and its schema admits exactly the requests `Documented` for that file.

`ArchiveProofs` also proves about `McpArtifacts`, for all sets of handlers,
contents and paths and any number of calls (`ArtifactsAssumption`: the names of
parts are sequences of strings, a call has one to three of them):

* `AllRetrievable`: `McpSpec => []PartsRetrievable`;
* `GotExactly`: `McpSpec => []GetExact`;
* `MissedEarly`: `McpSpec => []MissedOnlyEarly`.

The invariant `McpInv` says of the store that archives have clean, different
paths (`Packed`), and of everything fetched, in the cache or in a handler between
its download and the filling of the cache, that it is a prefix of what *that*
artifact will ever hold, and all of it unless somebody fetched the artifact too
early (`FetchedOf`). A handler that finds the cache filled by another one
therefore still gets what it asked for. `PartsRetrievable` is about names: a path
that `SanitizeTarPath` accepts stays as it is under `path.Clean`
(`CleanTarStays`), and a plain name is its own tar path (`PlainName`).

`path.Clean` goes along a path of any length, and what it leaves is shown by
induction. The library's induction theorems have an operator parameter; the lemma
`SetInduction` of these modules gets the same from `WellFoundedInduction` as a
fact about *sets* (a set of naturals with 0 and every successor is `Nat`), which
the provers can instantiate.

`QueueCommandsProofs` proves about `QueueCommands`, for all sets of terminals,
page sizes, limits and any number of commands and faults (`QueueAssumption`):

* `TokensKeepMeaning`: `Spec => []TokensMeanShown`;
* `WalksCover`: `Spec => []PagesCover`;
* `DequeueLosesNothing`: `Spec => []DequeueExact`.

The invariant `QueueInv` has a part for each. A token on the screen that the
history file knows is that of the item it was printed for, unless the terminal is
about to save what it has printed or another one was at the file since, which is
`stale` (`Tokens`); a command about to save shows just its own table, so that
writing it brings the screen and the file together again. What a walk has seen
are all those queues, up to the place where the next page begins, that were there
when it began and still are (`Covers`): a queue created meanwhile comes after
them, and one deleted does not move the others to another page. What a dequeue is
about to save is the last part of what it has taken out, in the order of
acceptance, and all of it unless a reply was lost (`LastTaken`, `Dequeued`); the
queues themselves are in that order (`InOrder`).

`McpProofs` proves about `McpTools`, for all sets of handlers, sessions,
tools and services and any number of requests:

* `SessionsKeptApart`: `Spec => []SessionsSeparate`;
* `ListFollows`: `Spec => []ListFollowsSelection`;
* `CallsReachService`: `Spec => []CallsAnnouncedService`, with and without
  services in the tools' aspects.

`SessionsSeparate` needs only that a selection is among all that was ever
selected. The other two rest on what a handler of `select_tools` may rely on
while others run between its steps: of the handlers of one session at most one
is `alone` and then it is the only one (`Exclusive`), so that a handler that is
alone finds its own selection in place (`Effective`) and its tools registered
(`Registered`). As long as a client knows what to expect, no `select_tools` of
its session is under way but one that has only to return (`Settled`), so that
neither of the two reads of the filter meets another selection (`Pending`). For
the calls, whatever another session's handler replaces in the registry is among
what that session selected (`Claimed`, `Standing`). The lemmas `...Effect` say
field by field what a step does to a handler's locals.

`McpProofs` also proves about `JobWatch`, for any number of checks:

* `ResultIsFinal`: `JobSpec => []ShownIsFinal`.

A handler that only starts a job never looks at it again; one that waits, and a
command that watches, show the status they saw when the job had finished, and a
finished job does not change (`JobInv`); the command gives up earlier only when its
checks are used up. Nothing is assumed of the constants, and nothing of a reply
that answers at once.

Left to TLC are the six liveness properties (`UploadTerminates`,
`RunTerminates`, `StreamTerminates`, `TimedCallReturns`, `PollingEnds`,
`LoginEnds`): fairness and `ENABLED` are out of the prover's reach. So is
`DeviceLogin`, of which nothing else is stated. Of the type invariants those of
`ContextStore`, `ArtifactCreate` and `McpArtifacts` are not theorems yet.

## Findings

One disagreement between the code and what it says of itself has a run:
`archive_resume_cut`. A chunk cut in the middle and retried leaves bytes out of
place; resuming afterwards reports success. `artifact upload` of an artifact whose
`create` failed that way completes it in the same manner (`SendPartFails`), and
`nextflow create` goes on to describe its service by such an archive: that
`NextflowPublish` reaches this is why `SchemaOfItsArchive` speaks of the halves
that were not cut.

Two more can be reproduced with configurations that are kept beside the runs
and end in a violation:

* `tlc -config MCContextStoreSwitch.cfg MCContextStore`: an adapter can carry
  the URL of one context and the token of another, when `context set` comes
  between the two reads of `config.yaml` (`cmd/root.go:290`, `cmd/login.go:142`),
  although `cmd/root.go:278` speaks of the one active context.
* `tlc -config MCMcpToolsNoId.cfg MCMcpTools` (`FallsBackToService`): a tool
  whose aspect has no service-id is announced with the service that was searched
  (`pkg/mcp/server.go:437`), but its handler was made before that and calls
  none; the comment at line 435 calls this a fall-back.

Others were met while reading and have no run of their own:
a meta file that was cut behind its hash is taken for a record, because any text
behind the `|` is an artifact id (`cmd/artifact.go:636`), so that `artifact create`
skips the file and `collection create` makes an entry with an id that does not
exist; two commands that write `config.yaml` at once can leave a file that mixes
their texts, or that no command can read any more (`cmd/common.go:403`); an MCP
tool whose service answers at once returns that answer as the result, whatever
status it has (`pkg/mcp/server.go:515`);
`slow_down` doubles the interval of the login, which stays 0 when the provider
sent none, although the comment at `cmd/login.go:335` says that it increases;
`slow_down` with status 429 does not reach that code, because the adapter
retries it; a source whose path is not in its artifact becomes an empty file
(`pkg/nextflow/sources.go:203`); a header found by name, not by path, that is
larger than 2 MiB is cut off silently (`pkg/nextflow/nextflow.go:622`), while
one found by its path is refused; a dequeue from an empty queue, whose reply is
JSON without messages, empties the file of an earlier one (`cmd/queue.go:464`);
a command that is killed between printing and saving leaves tokens on the screen
that stand for what the command before it listed (`cmd/root.go:122`);
two POSTs leave a service that no later `nextflow update` can change;
`login --refresh-token` drops the refresh token when the provider sends no new
one, which `getAccessToken` keeps (`cmd/login.go:454` and `168`; in
`ContextStore` with `Rotates = FALSE`); `--chunk-size -1` panics for a stream (`pkg/artifact.go:166`)
and 0 never ends; a first call with a deadline has no time limit at all
(`pkg/adapter/adapter.go:264`); `job create --watch` shows an unfinished job
after 99 checks and succeeds, and its "timed out" error is unreachable
(`cmd/job.go:212`); a logout is undone by a refresh that read the file before it
(`cmd/login.go:58`); `artifact upload` prints its errors and exits with 0
(`cmd/artifact.go:244`); name and content type found for the first file of a
collection are used for the following ones (`cmd/artifact.go:375`); a job whose
aspect is not visible yet is "not found" although it runs (`cmd/job.go:263`).

## Abstractions

* Bytes are numbers, tokens are numbers per context, contexts, tools, services
  and files are model values. Names, content types, policies, schemas and the
  formatting of output are left out.
* A retry budget of 60 s is a number of attempts (`MaxTries`), except in
  `HttpRetry`.
* Each change of a file is assumed to change its modification time, which the
  UploadMeta file compares at a granularity of one second.
* Providers are assumed to have a client id and a token URL; without them
  `getAccessToken` returns the expired token.
* `discoState.discovered` is written and never read, and is left out. Contexts
  without an MCP session (where `select_tools` falls back to "stdio" while the
  filter shows the built-in tools only) are left out.
* Every status of a job other than none, `scheduled` and `executing` counts as
  finished, as in `watchJob`.
* In `NextflowPublish` and `QueueCommands` a request is carried out when it is
  sent or not at all, and only its reply is lost; requests that arrive late are
  in `TusUpload` and `HttpRetry`. An archive goes up in two halves, each stored
  right or, after a chunk that was cut, wrong but in full length (`Cut`); how that
  comes about is in `ArchiveResume`.
* The interval of the login is doubled up to `MaxInterval`; its value decides
  how long the command sleeps and nothing else.
* Headers have two parameters and a row of samples at most, schemas the
  keywords `ValidateFnSchema` looks at; files above 2 MiB are left out.
* Tokens are numbers; a page is named by the last queue before it.
* mcp-go is external: it runs handlers concurrently, and `AddTools` replaces
  tools of the same name and notifies every client.

## Not modelled

`MakeMaybeHistory` prints the id beside the token and is left out; so are the
listings of items other than queues, which use the same helpers in the same
order as `QueueCommands`. Orders, services, secrets, aspects and the platform
tools of the MCP server send one request and format its reply. `package push`
and `pull` drive Docker. `GetSSE`, payload decoding, URL building, the check for
a newer version, skills and generated documentation keep no state a property
could be about. `--chunk-size 0` and, for streams, `-1` are excluded by
assumptions: outside them the call has no defined outcome.

## Plan

Done, in this order: `TusUpload` with `UploadContract` and its proofs,
`ArchiveResume`, `TusStream`, `HttpRetry`, `ContextStore`, `McpTools` and
`ArtifactCreate`, all six with their proofs, `JobWatch`, the downloads in `HttpRetry`,
`McpArtifacts` with `TarPaths`, `NextflowPublish` with `ToolHeader` and
`ServiceCatalog`, `QueueCommands`, all with their proofs, `DeviceLogin`.

Proved: every invariant, and both refinements, of the passing runs.

Next:

1. `TypeOK` of `ContextStore`, `ArtifactCreate` and `McpArtifacts` as theorems.
2. `ArtifactCreate` takes the upload of a part as one step, on the word of
   `TusUpload`: a contract of `SendPart` that `TusUpload` is shown to implement
   would join the two.
3. Names and content types of a collection's files in `ArtifactCreate`.
4. Several services in the instance of `NextflowPublish`, once it is small enough
   (the theorems hold for any number).
