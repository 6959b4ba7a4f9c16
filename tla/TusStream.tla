----------------------------- MODULE TusStream -----------------------------
(***************************************************************************)
(* uploadUnknownSize (pkg/artifact.go): the upload of a stream of unknown  *)
(* length (`ivcap artifact upload ID -f -`) into a TUS artifact whose      *)
(* length is deferred.  Each buffer read goes out as a PATCH whose reply   *)
(* must report the expected Upload-Offset; at the end of the stream an     *)
(* empty PATCH declares the length.                                        *)
(*                                                                         *)
(* A buffer is a bytes.Reader, which has a GetBody: a repeated attempt     *)
(* sends what the previous ones left unread, or, when the transport finds  *)
(* its reused connection closed, the buffer from its start.                *)
(***************************************************************************)
EXTENDS Integers, Sequences, RetryPolicy

CONSTANTS
  Total,       \* length of the stream
  ChunkSize,   \* the --chunk-size flag
  MaxTries,    \* bound: attempts that fit in the retry budget of a PATCH
  ErrorCodes   \* error replies of the server or of a proxy in front of it

\* With a chunk size of 0 the first read already looks like the stream's end,
\* and make([]byte, chunkSize) panics for a negative one, -1 included.
ASSUME StreamAssumption ==
  /\ Total \in Nat /\ ChunkSize \in Nat \ {0}
  /\ MaxTries \in Nat \ {0}
  /\ ErrorCodes \subseteq {c \in Nat : c >= 300}

VARIABLES
  stored,     \* server: the positions in the stream of the artifact's bytes
  declared,   \* server: the artifact's length, Deferred while unknown
  net,        \* requests on the wire or being served
  reply,      \* reply to the live request: status and Upload-Offset
  up          \* client: the locals of uploadUnknownSize and doWithRetry

vars == <<stored, declared, net, reply, up>>

Deferred  == -1
Conflict  == 409
NoContent == 204
None      == [code |-> NoReply, offset |-> 0]

\* n bytes are in the buffer p, left of them unread by the transport; pos is
\* the position in the stream, and last marks the PATCH with Upload-Length.
StreamState ==
  [pc: {"start", "loop", "send", "wait", "ok", "failed"},
   off: Nat, n: Nat, left: Nat, pos: Nat, last: BOOLEAN, tries: Nat]

Request == [offset: Nat, body: Seq(Nat), whole: BOOLEAN, last: BOOLEAN,
            live: BOOLEAN]

TypeOK ==
  /\ stored \in Seq(1..Total)
  /\ declared \in Nat \cup {Deferred}
  /\ net \subseteq Request
  /\ reply \in [code: Nat, offset: Nat]
  /\ up \in StreamState

Bytes(first, len) == [i \in 1..len |-> first + i]

\* The HEAD of `artifact upload` found some of the stream already there.
Init ==
  /\ \E offset \in 0..Total :
       /\ stored = Bytes(0, offset)
       /\ up = [pc |-> "start", off |-> offset, n |-> 0, left |-> 0,
                pos |-> 0, last |-> FALSE, tries |-> 0]
  /\ declared = Deferred
  /\ net = {}
  /\ reply = None

-----------------------------------------------------------------------------
(* uploadUnknownSize                                                       *)

\* UploadArtifact discards what is uploaded, then make([]byte, chunkSize).
Begin ==
  /\ up.pc = "start"
  /\ up' = [up EXCEPT !.pc = "loop", !.pos = up.off]
  /\ UNCHANGED <<stored, declared, net, reply>>

\* Read may return less than fits in the buffer.
ReadSome(n) ==
  /\ up.pc = "loop"
  /\ n \in 1..ChunkSize
  /\ up.pos + n <= Total
  /\ up' = [up EXCEPT !.pc = "send", !.n = n, !.left = n, !.pos = @ + n,
                      !.tries = 0]
  /\ UNCHANGED <<stored, declared, net, reply>>

ReadEOF ==
  /\ up.pc = "loop"
  /\ up.pos = Total
  /\ up' = [up EXCEPT !.pc = "send", !.n = 0, !.left = 0, !.last = TRUE,
                      !.tries = 0]
  /\ UNCHANGED <<stored, declared, net, reply>>

\* Mutant: any error of Read is taken for the end of the stream.
ReadErrorAsEOF ==
  /\ up.pc = "loop"
  /\ up' = [up EXCEPT !.pc = "send", !.n = 0, !.left = 0, !.last = TRUE,
                      !.tries = 0]
  /\ UNCHANGED <<stored, declared, net, reply>>

ReadError ==
  /\ up.pc = "loop"
  /\ up' = [up EXCEPT !.pc = "failed"]
  /\ UNCHANGED <<stored, declared, net, reply>>

-----------------------------------------------------------------------------
(* doWithRetry                                                             *)

\* k bytes from position first of the buffer go out.
Exchange(first, k, left) ==
  /\ up.pc = "send"
  /\ up' = [up EXCEPT !.pc = "wait", !.left = left, !.tries = @ + 1]
  /\ net' = net \cup {[offset |-> up.off,
                       body |-> Bytes(up.pos - up.n + first, k),
                       whole |-> k = up.n, last |-> up.last, live |-> TRUE]}
  /\ UNCHANGED <<stored, declared, reply>>

SendUnread(k) == k \in 0..up.left /\ Exchange(up.n - up.left, k, up.left - k)
SendRewound(k) == up.tries > 0 /\ k \in 0..up.n /\ Exchange(0, k, 0)

Abandoned(requests) == {[r EXCEPT !.live = FALSE] : r \in requests}

EndOfAttempt(next) ==
  /\ up' = next
  /\ net' = Abandoned(net)
  /\ reply' = None
  /\ UNCHANGED <<stored, declared>>

RetryOrGiveUp ==
  \/ up.tries < MaxTries /\ EndOfAttempt([up EXCEPT !.pc = "send"])
  \/ EndOfAttempt([up EXCEPT !.pc = "failed"])

TransportError == up.pc = "wait" /\ RetryOrGiveUp

RetryableReply ==
  /\ up.pc = "wait"
  /\ IsRetryableStatusCode(reply.code)
  /\ RetryOrGiveUp

PermanentReply ==
  /\ up.pc = "wait"
  /\ IsPermanent(reply.code)
  /\ EndOfAttempt([up EXCEPT !.pc = "failed"])

\* The reply to a buffer's PATCH must report the offset it leads to.
ChunkReply ==
  /\ up.pc = "wait" /\ ~up.last
  /\ IsSuccess(reply.code)
  /\ EndOfAttempt(IF reply.offset = up.off + up.n
                  THEN [up EXCEPT !.pc = "loop", !.off = reply.offset]
                  ELSE [up EXCEPT !.pc = "failed"])

\* Mutant: any answer to the last PATCH will do.
LastReplyAny ==
  /\ up.pc = "wait" /\ up.last
  /\ reply.code # NoReply
  /\ EndOfAttempt([up EXCEPT !.pc = "ok"])

\* Mutant: the loop is not left after the last PATCH.
LastReplyContinues ==
  /\ up.pc = "wait" /\ up.last
  /\ IsSuccess(reply.code)
  /\ EndOfAttempt([up EXCEPT !.pc = "loop"])

LastReply ==
  /\ up.pc = "wait" /\ up.last
  /\ IsSuccess(reply.code)
  /\ EndOfAttempt([up EXCEPT !.pc = "ok"])

-----------------------------------------------------------------------------
(* The TUS server, which may accept less than it was sent                  *)

Answer(r, code, offset) ==
  reply' = IF r.live THEN [code |-> code, offset |-> offset] ELSE reply

Served(r) == net' = net \ {r} /\ UNCHANGED up

Takes(r) == r.offset = Len(stored) /\ declared = Deferred

ServerAccepts(r, j) ==
  /\ Takes(r) /\ r.whole /\ ~r.last
  /\ j \in 0..Len(r.body)
  /\ stored' = stored \o SubSeq(r.body, 1, j)
  /\ Answer(r, NoContent, r.offset + j)
  /\ Served(r)
  /\ UNCHANGED declared

\* A repeated declaration of the same length is accepted.
ServerCloses(r) ==
  /\ r.last
  /\ r.offset = Len(stored) /\ declared \in {Deferred, r.offset}
  /\ declared' = r.offset
  /\ Answer(r, NoContent, r.offset)
  /\ Served(r)
  /\ UNCHANGED stored

ServerConflict(r) ==
  /\ ~Takes(r)
  /\ Answer(r, Conflict, 0)
  /\ Served(r)
  /\ UNCHANGED <<stored, declared>>

\* The exchange breaks down after j bytes of the body were stored.
ServerStoresPart(r, j, code) ==
  /\ Takes(r)
  /\ j \in 0..Len(r.body)
  /\ stored' = stored \o SubSeq(r.body, 1, j)
  /\ Answer(r, code, 0)
  /\ Served(r)
  /\ UNCHANGED declared

-----------------------------------------------------------------------------

ClientStep ==
  \/ Begin
  \/ \E n \in 1..ChunkSize : ReadSome(n)
  \/ ReadEOF
  \/ ReadError
  \/ \E k \in 0..up.n : SendUnread(k) \/ SendRewound(k)
  \/ TransportError
  \/ RetryableReply
  \/ PermanentReply
  \/ ChunkReply
  \/ LastReply

ServerStep ==
  \E r \in net :
    \/ ServerCloses(r)
    \/ ServerConflict(r)
    \/ \E j \in 0..Len(r.body) :
         \/ ServerAccepts(r, j)
         \/ \E code \in ErrorCodes \cup {NoReply} : ServerStoresPart(r, j, code)

Next == ClientStep \/ ServerStep

\* The stream goes on or ends, and client.Timeout ends every exchange.
Spec == Init /\ [][Next]_vars /\ WF_vars(ClientStep)

-----------------------------------------------------------------------------

IsStream(s) == s = Bytes(0, Total)

\* A nil error means that the server has all of the stream, in order, and
\* knows that this is all.
StreamedExact == up.pc = "ok" => IsStream(stored) /\ declared = Total

\* No lost or late reply, short read or repeated attempt makes the server
\* take a part of the stream, or anything else, for a complete artifact.
NeverDeclaredShort == declared # Deferred => IsStream(stored)

\* The upload returns.
StreamTerminates == <>(up.pc \in {"ok", "failed"})
=============================================================================
