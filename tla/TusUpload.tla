----------------------------- MODULE TusUpload -----------------------------
(***************************************************************************)
(* One call of UploadArtifact (pkg/artifact.go) for a file of known size,  *)
(* down to the attempts doWithRetry (pkg/adapter/adapter.go) makes of each *)
(* PATCH, against the TUS server that keeps the artifact's data.           *)
(*                                                                         *)
(* A chunk's body is an io.LimitedReader over the file: it has no GetBody, *)
(* so every attempt of the same PATCH reads on where the previous attempt  *)
(* stopped reading, while Upload-Offset and Content-Length stay those of   *)
(* the whole chunk.                                                        *)
(***************************************************************************)
EXTENDS Integers, Sequences, RetryPolicy

CONSTANTS
  Size,        \* length of the file
  ChunkSize,   \* the --chunk-size flag; negative: the file in one PATCH
  MaxTries,    \* bound: attempts that fit in the 60 s retry budget of a PATCH
  ErrorCodes   \* error replies of the server or of a proxy in front of it

\* UploadArtifact never returns when the chunk size is 0.
ASSUME SizeAssumption  == Size \in Nat
ASSUME ChunkAssumption == ChunkSize \in Int /\ ChunkSize # 0
ASSUME TriesAssumption == MaxTries \in Nat \ {0}
ASSUME CodesAssumption == ErrorCodes \subseteq {c \in Nat : c >= 300}

VARIABLES
  file,     \* the bytes of the file, all different; no step here changes it
  stored,   \* server: the bytes of the artifact, in order
  net,      \* requests on the wire or being served
  reply,    \* status of the reply to the live request, NoReply if none yet
  up        \* client: the locals of UploadArtifact and of doWithRetry

uploadVars == <<file, stored, net, reply, up>>

Conflict  == 409
NoContent == 204

\* up.pc: "idle", "loop" (head of the for loop), "send" (before client.Do),
\* "wait" (in client.Do), "ok" and "failed" (returned).  up.n is the N of the
\* LimitedReader and up.pos the position of the file reader.
UploadState == [pc: {"idle", "loop", "send", "wait", "ok", "failed"},
                remaining: Int, psize: Nat, n: Nat, pos: Nat, tries: Nat]

\* A PATCH: whole says that the body has its Content-Length, live that
\* client.Do still waits for the reply.
Request == [offset: Nat, body: Seq(Nat), whole: BOOLEAN, live: BOOLEAN]

\* What the reader returns for len bytes after position first.
Bytes(first, len) == [i \in 1..len |-> file[first + i]]

TypeOK ==
  /\ file \in [1..Size -> Nat]
  /\ stored \in Seq(Nat)
  /\ net \subseteq Request
  /\ reply \in Nat
  /\ up \in UploadState

IdleUpload == [pc |-> "idle", remaining |-> 0, psize |-> 0, n |-> 0,
               pos |-> 0, tries |-> 0]

UploadInit ==
  /\ file = [i \in 1..Size |-> i]
  /\ stored = <<>>
  /\ net = {}
  /\ reply = NoReply
  /\ up = IdleUpload

-----------------------------------------------------------------------------
(* The loop of UploadArtifact                                              *)

\* The call from a given offset, with the Seek to it.
StartUpload(offset) ==
  /\ up.pc = "idle"
  /\ up' = [up EXCEPT !.pc = "loop", !.remaining = Size - offset,
                      !.pos = offset]
  /\ UNCHANGED <<file, stored, net, reply>>

PieceSize(remaining) ==
  IF ChunkSize < 0 \/ remaining <= ChunkSize THEN remaining ELSE ChunkSize

\* Mutant: the loop goes on when nothing remains.
NextChunkForever ==
  /\ up.pc = "loop"
  /\ up.remaining >= 0
  /\ up' = [up EXCEPT !.pc = "send", !.psize = PieceSize(up.remaining),
                      !.n = PieceSize(up.remaining), !.tries = 0]
  /\ UNCHANGED <<file, stored, net, reply>>

NextChunk ==
  /\ up.pc = "loop"
  /\ up.remaining > 0
  /\ up' = [up EXCEPT !.pc = "send", !.psize = PieceSize(up.remaining),
                      !.n = PieceSize(up.remaining), !.tries = 0]
  /\ UNCHANGED <<file, stored, net, reply>>

\* Mutant: a last piece shorter than the chunk size is forgotten.
UploadReturnsEarly ==
  /\ up.pc = "loop"
  /\ up.remaining < ChunkSize
  /\ up' = [up EXCEPT !.pc = "ok"]
  /\ UNCHANGED <<file, stored, net, reply>>

UploadReturns ==
  /\ up.pc = "loop"
  /\ up.remaining <= 0
  /\ up' = [up EXCEPT !.pc = "ok"]
  /\ UNCHANGED <<file, stored, net, reply>>

-----------------------------------------------------------------------------
(* doWithRetry                                                             *)

Offset == Size - up.remaining

\* Mutant: every attempt counts the whole piece as read.
SendCounting(k) ==
  /\ up.pc = "send"
  /\ k \in 0..up.n
  /\ up' = [up EXCEPT !.pc = "wait", !.n = @ - up.psize, !.pos = @ + k,
                      !.tries = @ + 1]
  /\ net' = net \cup {[offset |-> Offset, body |-> Bytes(up.pos, k),
                       whole |-> k = up.psize, live |-> TRUE]}
  /\ UNCHANGED <<file, stored, reply>>

\* Mutant: the Content-Length of a repeated attempt is that of what is left.
SendRemainder(k) ==
  /\ up.pc = "send"
  /\ k \in 0..up.n
  /\ up' = [up EXCEPT !.pc = "wait", !.n = @ - k, !.pos = @ + k,
                      !.tries = @ + 1]
  /\ net' = net \cup {[offset |-> Offset, body |-> Bytes(up.pos, k),
                       whole |-> k = up.n, live |-> TRUE]}
  /\ UNCHANGED <<file, stored, reply>>

\* An attempt during which the transport reads k of the n bytes left.
Send(k) ==
  /\ up.pc = "send"
  /\ k \in 0..up.n
  /\ up' = [up EXCEPT !.pc = "wait", !.n = @ - k, !.pos = @ + k,
                      !.tries = @ + 1]
  /\ net' = net \cup {[offset |-> Offset, body |-> Bytes(up.pos, k),
                       whole |-> k = up.psize, live |-> TRUE]}
  /\ UNCHANGED <<file, stored, reply>>

Abandoned(requests) == {[r EXCEPT !.live = FALSE] : r \in requests}

\* client.Do is over: its request may still reach the server later.
EndOfAttempt(pc) ==
  /\ up' = [up EXCEPT !.pc = pc]
  /\ net' = Abandoned(net)
  /\ reply' = NoReply
  /\ UNCHANGED <<file, stored>>

\* The retryable outcomes are tried again until the budget is used up.
RetryOrGiveUp ==
  \/ up.tries < MaxTries /\ EndOfAttempt("send")
  \/ EndOfAttempt("failed")

\* client.Do or reading the reply fails: timeout, broken connection, or a
\* body shorter than its Content-Length.
TransportError ==
  /\ up.pc = "wait"
  /\ RetryOrGiveUp

RetryableReply ==
  /\ up.pc = "wait"
  /\ IsRetryableStatusCode(reply)
  /\ RetryOrGiveUp

PermanentReply ==
  /\ up.pc = "wait"
  /\ IsPermanent(reply)
  /\ EndOfAttempt("failed")

\* Mutant: the status of the reply is not looked at.
PatchReturnsAlways ==
  /\ up.pc = "wait"
  /\ reply # NoReply
  /\ up' = [up EXCEPT !.pc = "loop", !.remaining = @ - (up.psize - up.n)]
  /\ net' = Abandoned(net)
  /\ reply' = NoReply
  /\ UNCHANGED <<file, stored>>

\* Patch returns without error; the Upload-Offset of the reply is not read.
PatchReturns ==
  /\ up.pc = "wait"
  /\ IsSuccess(reply)
  /\ up' = [up EXCEPT !.pc = "loop", !.remaining = @ - (up.psize - up.n)]
  /\ net' = Abandoned(net)
  /\ reply' = NoReply
  /\ UNCHANGED <<file, stored>>

-----------------------------------------------------------------------------
(* The TUS server: a PATCH at another offset than its own is a conflict,   *)
(* and what it received of a body that was cut is kept.                    *)

Answer(r, code) == reply' = IF r.live THEN code ELSE reply

ServerAccepts(r) ==
  /\ r.offset = Len(stored)
  /\ r.whole
  /\ stored' = stored \o r.body
  /\ net' = net \ {r}
  /\ Answer(r, NoContent)
  /\ UNCHANGED <<file, up>>

ServerConflict(r) ==
  /\ r.offset # Len(stored)
  /\ net' = net \ {r}
  /\ Answer(r, Conflict)
  /\ UNCHANGED <<file, stored, up>>

\* The exchange breaks down after j bytes of the body were stored.
ServerStoresPart(r, j, code) ==
  /\ r.offset = Len(stored)
  /\ j \in 0..Len(r.body)
  /\ stored' = stored \o SubSeq(r.body, 1, j)
  /\ net' = net \ {r}
  /\ Answer(r, code)
  /\ UNCHANGED <<file, up>>

-----------------------------------------------------------------------------

AttemptOutcome ==
  TransportError \/ RetryableReply \/ PermanentReply \/ PatchReturns

ClientStep ==
  \/ NextChunk
  \/ UploadReturns
  \/ \E k \in 0..up.n : Send(k)
  \/ AttemptOutcome

ServerStep ==
  \E r \in net :
    \/ ServerAccepts(r)
    \/ ServerConflict(r)
    \/ \E j \in 0..Len(r.body), code \in ErrorCodes \cup {NoReply} :
         ServerStoresPart(r, j, code)

\* uploadArtifact (cmd/artifact.go) and the MCP handlers upload a new
\* artifact from offset 0.
UploadNext == StartUpload(0) \/ ClientStep \/ ServerStep

UploadSpec == UploadInit /\ [][UploadNext]_uploadVars

\* The process runs on, and client.Timeout ends every exchange (Patch is
\* called with context.Background()).  Nothing is assumed of the server.
FairUploadSpec ==
  UploadSpec /\ WF_uploadVars(StartUpload(0) \/ ClientStep)

-----------------------------------------------------------------------------

IsFilePrefix(s) ==
  /\ Len(s) <= Size
  /\ \A i \in 1..Len(s) : s[i] = file[i]

\* UploadArtifact returns nil only when the artifact is the file, byte for
\* byte, whatever attempts were cut, repeated, refused or answered late.
UploadedExact == up.pc = "ok" => IsFilePrefix(stored) /\ Len(stored) = Size

\* The data is wrong only after an attempt of the current chunk read part of
\* its LimitedReader, and then the call can only fail.
CorruptionIsFatal ==
  \/ IsFilePrefix(stored)
  \/ up.pc = "failed"
  \/ /\ up.pc \in {"send", "wait"}
     /\ up.n < up.psize
     /\ \A r \in net : ~(r.live /\ r.whole)

\* No attempt, retried or late, makes the artifact longer than the file.
NoOverrun == Len(stored) <= Size

\* The call returns.
UploadTerminates == <>(up.pc \in {"ok", "failed"})

-----------------------------------------------------------------------------
(* What a caller of UploadArtifact may rely on: see UploadContract.        *)

Contract == INSTANCE UploadContract
  WITH data <- stored,
       outcome <- IF up.pc \in {"ok", "failed"} THEN up.pc ELSE "pending"

ImplementsContract == Contract!ContractSpec
=============================================================================
