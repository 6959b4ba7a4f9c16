--------------------------- MODULE ArchiveResume ---------------------------
(***************************************************************************)
(* UploadArchiveAsArtifact and tusUploadWithResume                         *)
(* (pkg/nextflow/nextflow.go): `ivcap nextflow create` uploads an archive, *)
(* leaves the artifact's id beside the archive in an UploadMeta file, and  *)
(* a later run picks the upload up again where the server says it stopped. *)
(* The chunks are those of TusUpload; stored, net and reply belong to the  *)
(* artifact created last.                                                  *)
(***************************************************************************)
EXTENDS TusUpload

CONSTANTS
  MaxAttempts,   \* maxAttempts, 20 in the code
  SameLimit,     \* fruitless attempts at one offset before giving up, 5
  MaxRuns,       \* bound: runs of the command
  MaxVersions    \* bound: changes of the archive file

ASSUME ResumeAssumption ==
  /\ MaxAttempts \in Nat \ {0} /\ SameLimit \in Nat \ {0}
  /\ MaxRuns \in Nat /\ MaxVersions \in Nat

VARIABLES
  mtime,     \* modification time of the archive, which names its version
  meta,      \* the UploadMeta file: None, or a time and an artifact
  created,   \* artifacts created so far; the last one is the one in use
  run,       \* locals of the running command
  runs,      \* runs begun
  touched,   \* the archive changed since the run began
  cut        \* a chunk read in part was sent on to the artifact in use

runVars == <<mtime, meta, created, run, runs, touched, cut>>
vars == <<uploadVars, runVars>>

None == [mtime |-> 0, art |-> 0]

\* "create" .. "rehead" are the calls a run makes, in order; "ok" and
\* "failed" how UploadArchiveAsArtifact returned; "idle" that none runs.
RunState ==
  [pc: {"idle", "read", "create", "record", "head", "open", "upload",
        "rehead", "ok", "failed"},
   mtime: Nat, offset: Nat, same: Nat, attempts: Nat]

ResumeTypeOK ==
  /\ TypeOK
  /\ mtime \in 1..(MaxVersions + 1)
  /\ meta \in [mtime: Nat, art: 0..created]
  /\ created \in Nat
  /\ run \in RunState
  /\ runs \in 0..MaxRuns
  /\ touched \in BOOLEAN
  /\ cut \in BOOLEAN

\* The archive's bytes at modification time m; no two versions share a byte.
Archive(m) == [i \in 1..Size |-> (m - 1) * Size + i]

ResumeInit ==
  /\ UploadInit
  /\ mtime = 1
  /\ meta = None
  /\ created = 0
  /\ run = [pc |-> "idle", mtime |-> 0, offset |-> 0, same |-> 0,
            attempts |-> 0]
  /\ runs = 0
  /\ touched = FALSE
  /\ cut = FALSE

-----------------------------------------------------------------------------
(* UploadArchiveAsArtifact                                                 *)

Goto(pc) ==
  /\ run' = [run EXCEPT !.pc = pc]
  /\ UNCHANGED <<uploadVars, mtime, meta, created, runs, touched, cut>>

\* Mutant: a meta file of another version of the archive is used too.
BeginRunAnyVersion ==
  /\ run.pc \in {"idle", "ok", "failed"}
  /\ runs < MaxRuns
  /\ runs' = runs + 1
  /\ run' = [pc |-> IF meta # None THEN "read" ELSE "create",
             mtime |-> mtime, offset |-> 0, same |-> 0, attempts |-> 0]
  /\ touched' = FALSE
  /\ UNCHANGED <<uploadVars, mtime, meta, created, cut>>

\* os.Stat and ReadUploadMeta: a meta file of another version is ignored.
BeginRun ==
  /\ run.pc \in {"idle", "ok", "failed"}
  /\ runs < MaxRuns
  /\ runs' = runs + 1
  /\ run' = [pc |-> IF meta # None /\ meta.mtime = mtime
                    THEN "read" ELSE "create",
             mtime |-> mtime, offset |-> 0, same |-> 0, attempts |-> 0]
  /\ touched' = FALSE
  /\ UNCHANGED <<uploadVars, mtime, meta, created, cut>>

\* Mutant: an artifact that cannot be read is replaced by a new one.
ReadArtifactOrCreate ==
  /\ run.pc = "read"
  /\ Goto("head") \/ Goto("create")

ReadArtifact ==
  /\ run.pc = "read"
  /\ Goto("head") \/ Goto("failed")

\* No request for an earlier artifact can reach the new one.
CreateArtifact ==
  /\ run.pc = "create"
  /\ \/ Goto("failed")
     \/ /\ created' = created + 1
        /\ stored' = <<>>
        /\ net' = {}
        /\ cut' = FALSE
        /\ run' = [run EXCEPT !.pc = "record"]
        /\ UNCHANGED <<file, reply, up, mtime, meta, runs, touched>>

\* WriteUploadMeta is best effort: the file may stay or end up unreadable.
RecordMeta ==
  /\ run.pc = "record"
  /\ meta' \in {[mtime |-> run.mtime, art |-> created], None, meta}
  /\ \E pc \in {"head", "failed"} : run' = [run EXCEPT !.pc = pc]
  /\ UNCHANGED <<uploadVars, mtime, created, runs, touched, cut>>

-----------------------------------------------------------------------------
(* tusUploadWithResume                                                     *)

\* The offset a HEAD request reports.
ServerOffset == Len(stored)

\* Mutant: off by one in the test for a complete upload.
FirstOffsetNearly ==
  /\ run.pc = "head"
  /\ \/ /\ Size > 0 /\ ServerOffset >= Size - 1
        /\ Goto("ok")
     \/ /\ ~(Size > 0 /\ ServerOffset >= Size - 1)
        /\ run' = [run EXCEPT !.pc = "open", !.offset = ServerOffset]
        /\ UNCHANGED <<uploadVars, mtime, meta, created, runs, touched, cut>>
     \/ Goto("open")

\* Any error of the first HEAD is taken as offset 0.
FirstOffset ==
  /\ run.pc = "head"
  /\ \/ /\ Size > 0 /\ ServerOffset >= Size
        /\ Goto("ok")
     \/ /\ ~(Size > 0 /\ ServerOffset >= Size)
        /\ run' = [run EXCEPT !.pc = "open", !.offset = ServerOffset]
        /\ UNCHANGED <<uploadVars, mtime, meta, created, runs, touched, cut>>
     \/ Goto("open")

OpenAndUpload ==
  /\ run.pc = "open"
  /\ run.attempts < MaxAttempts
  /\ run' = [run EXCEPT !.pc = "upload", !.attempts = @ + 1]
  /\ StartUpload(run.offset)
  /\ UNCHANGED <<mtime, meta, created, runs, touched, cut>>

OpenFailsOrExhausted ==
  /\ run.pc = "open"
  /\ Goto("failed")

\* UploadArtifact at work, see TusUpload.
UploadStep ==
  /\ run.pc = "upload"
  /\ ClientStep
  /\ cut' = (cut \/ (up.pc = "send" /\ up.n \in 1..(up.psize - 1)))
  /\ UNCHANGED <<mtime, meta, created, run, runs, touched>>

UploadReturned ==
  /\ run.pc = "upload"
  /\ up.pc \in {"ok", "failed"}
  /\ up' = IdleUpload
  /\ run' = [run EXCEPT !.pc = IF up.pc = "ok" THEN "ok" ELSE "rehead"]
  /\ UNCHANGED <<file, stored, net, reply>>
  /\ UNCHANGED <<mtime, meta, created, runs, touched, cut>>

\* Mutant: every answer of the server begins the counts anew.
AskOffsetForever ==
  /\ run.pc = "rehead"
  /\ run' = [run EXCEPT !.pc = "open", !.attempts = 0,
                        !.offset = ServerOffset]
  /\ UNCHANGED <<uploadVars, mtime, meta, created, runs, touched, cut>>

AskOffsetAgain ==
  /\ run.pc = "rehead"
  /\ LET same == IF ServerOffset = run.offset THEN run.same + 1 ELSE 0
     IN  run' = [run EXCEPT !.pc = IF same >= SameLimit
                                   THEN "failed" ELSE "open",
                            !.same = same, !.offset = ServerOffset]
  /\ UNCHANGED <<uploadVars, mtime, meta, created, runs, touched, cut>>

OffsetUnknown ==
  /\ run.pc = "rehead"
  /\ Goto("failed")

-----------------------------------------------------------------------------
(* The environment                                                         *)

\* The process is killed, by Ctrl-C for instance.
Crash ==
  /\ run.pc \notin {"idle", "ok", "failed"}
  /\ run' = [run EXCEPT !.pc = "idle"]
  /\ up' = IdleUpload
  /\ net' = Abandoned(net)
  /\ reply' = NoReply
  /\ UNCHANGED <<file, stored, mtime, meta, created, runs, touched, cut>>

\* Someone rebuilds the archive: same size, another modification time.
Modify ==
  /\ mtime <= MaxVersions
  /\ mtime' = mtime + 1
  /\ file' = Archive(mtime + 1)
  /\ touched' = TRUE
  /\ UNCHANGED <<stored, net, reply, up, meta, created, run, runs, cut>>

Serve == ServerStep /\ UNCHANGED runVars

RunStep ==
  \/ ReadArtifact
  \/ CreateArtifact
  \/ RecordMeta
  \/ FirstOffset
  \/ OpenAndUpload
  \/ OpenFailsOrExhausted
  \/ UploadStep
  \/ UploadReturned
  \/ AskOffsetAgain
  \/ OffsetUnknown

ResumeNext == BeginRun \/ RunStep \/ Crash \/ Modify \/ Serve

ResumeSpec == ResumeInit /\ [][ResumeNext]_vars

\* A run that was begun goes on; every call it makes has a timeout.
FairResumeSpec == ResumeSpec /\ WF_vars(RunStep)

-----------------------------------------------------------------------------

\* A run that returns without error leaves an artifact of the file's length,
\* however many attempts, runs and late requests made it.
ResumedComplete == run.pc = "ok" => Len(stored) = Size

\* ... and with the content of the archive as it was when the run began,
\* when no chunk read in part was retried and nobody changed the archive
\* under the run: offsets, meta file and late requests are sound.
ResumedCopy ==
  run.pc = "ok" /\ ~cut /\ ~touched => IsFilePrefix(stored)

\* The same without the condition on cut chunks, which is what resuming an
\* interrupted upload is for.
ResumedExact == run.pc = "ok" /\ ~touched => IsFilePrefix(stored)

\* A meta file that matches the archive names the artifact created last: a
\* version of the archive never gets a second artifact while the first one
\* is on record.  Unless a chunk was cut, what a run would then resume holds a
\* prefix of the archive as it is now.
MetaNamesLast ==
  meta # None /\ meta.mtime = mtime =>
    meta.art = created /\ (~cut => IsFilePrefix(stored))

\* A run comes to an end.
RunTerminates ==
  run.pc \notin {"idle", "ok", "failed"} ~> run.pc \in {"idle", "ok", "failed"}
=============================================================================
