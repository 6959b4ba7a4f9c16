---------------------------- MODULE UploadProofs ----------------------------
(***************************************************************************)
(* Proofs about TusUpload, for every file size, chunk size, retry budget   *)
(* and set of error replies: type correctness, UploadedExact,              *)
(* CorruptionIsFatal and ImplementsContract; and about ArchiveResume, for  *)
(* every archive size, limit of attempts, number of runs and changes of    *)
(* the archive: ResumedComplete, ResumedCopy and MetaNamesLast.            *)
(***************************************************************************)
EXTENDS ArchiveResume, SequenceTheorems, TLAPS

-----------------------------------------------------------------------------
(* One upload: the inductive invariant                                     *)

\* The server ends where the current chunk begins, with the file's bytes.
Aligned == IsFilePrefix(stored) /\ Len(stored) = Offset

\* Served now, the request leaves the data as it is.
Harmless(r) == r.body = <<>> \/ r.offset < Len(stored)

\* A request that carries the whole current chunk.
IsChunk(r) ==
  /\ r.offset = Offset
  /\ Len(r.body) = up.psize
  /\ \A i \in 1..up.psize : r.body[i] = file[Offset + i]

\* No request reaches beyond the end of the file.
RequestsInside ==
  \A r \in net : r.offset + Len(r.body) <= Size

\* The counters of UploadArtifact and of the LimitedReader agree.
Counters ==
  /\ up.pc # "idle" => up.remaining \in 0..Size
  /\ up.pc = "loop" => up.pos = Offset
  /\ up.pc = "ok"   => up.remaining = 0
  /\ up.pc \in {"send", "wait"} =>
       /\ up.psize \in 1..up.remaining
       /\ up.n <= up.psize
       /\ up.pos + up.n = Offset + up.psize

\* A client that is not in client.Do waits for no request, and a request
\* that was answered is no longer on the wire.
Exchange ==
  /\ up.pc # "wait" => reply = NoReply
  /\ up.pc # "wait" \/ reply # NoReply => \A r \in net : ~r.live
  /\ \A r, q \in net : r.live /\ q.live => r = q
  /\ up.pc = "idle" => stored = <<>> /\ net = {}

\* Between two chunks, or before the chunk's body has been read from.
CleanState ==
  \/ up.pc \in {"loop", "ok"}
  \/ up.pc = "send" /\ up.n = up.psize
  \/ up.pc = "wait" /\ up.n = up.psize

Clean == CleanState => Aligned /\ \A r \in net : Harmless(r)

\* The attempt that read the whole chunk is on the wire ...
WholeSent ==
  up.pc = "wait" =>
    \A w \in net : w.live /\ w.whole =>
      /\ Aligned
      /\ IsChunk(w)
      /\ up.n = 0
      /\ \A r \in net : r # w => Harmless(r)

\* ... or has been accepted.
WholeAccepted ==
  up.pc = "wait" /\ IsSuccess(reply) =>
    /\ up.n = 0
    /\ IsFilePrefix(stored)
    /\ Len(stored) = Offset + up.psize
    /\ \A r \in net : Harmless(r)

UploadInv ==
  /\ TypeOK
  /\ NoOverrun
  /\ RequestsInside
  /\ Counters
  /\ Exchange
  /\ Clean
  /\ WholeSent
  /\ WholeAccepted

-----------------------------------------------------------------------------
(* Lemmas about the sequences and requests of the model                    *)

USE SizeAssumption, ChunkAssumption, TriesAssumption, CodesAssumption

\* What a reader returns is a sequence of the requested length.
LEMMA BytesProperties ==
  ASSUME file \in [1..Size -> Nat],
         NEW first \in Nat, NEW len \in Nat, first + len <= Size
  PROVE  /\ Bytes(first, len) \in Seq(Nat)
         /\ Len(Bytes(first, len)) = len
         /\ \A i \in 1..len : Bytes(first, len)[i] = file[first + i]
<1>1. \A i \in 1..len : file[first + i] \in Nat
  OBVIOUS
<1>2. Bytes(first, len) \in Seq(Nat)
  BY <1>1, IsASeq DEF Bytes
<1>3. Len(Bytes(first, len)) = len
  BY <1>2, LenProperties DEF Bytes
<1> QED
  BY <1>2, <1>3 DEF Bytes

\* The file's bytes, appended where they belong, prolong a correct prefix.
LEMMA AppendCopy ==
  ASSUME NEW s \in Seq(Nat), NEW t \in Seq(Nat),
         IsFilePrefix(s), Len(s) + Len(t) <= Size,
         \A i \in 1..Len(t) : t[i] = file[Len(s) + i]
  PROVE  IsFilePrefix(s \o t)
<1>1. /\ Len(s) \in Nat /\ Len(t) \in Nat
      /\ Len(s \o t) = Len(s) + Len(t)
      /\ \A i \in 1..Len(s) + Len(t) :
            (s \o t)[i] = IF i <= Len(s) THEN s[i] ELSE t[i - Len(s)]
  BY ConcatProperties, LenProperties
<1>2. ASSUME NEW i \in 1..Len(s \o t)
      PROVE  (s \o t)[i] = file[i]
  <2>1. CASE i <= Len(s)
    BY <1>1, <2>1 DEF IsFilePrefix
  <2>2. CASE i > Len(s)
    <3>1. i - Len(s) \in 1..Len(t)
      BY <1>1, <2>2
    <3>2. (s \o t)[i] = t[i - Len(s)]
      BY <1>1, <2>2
    <3> QED
      BY <1>1, <3>1, <3>2
  <2> QED
    BY <1>1, <2>1, <2>2
<1> QED
  BY <1>1, <1>2 DEF IsFilePrefix

\* The part of a body that reached the server.
LEMMA PartOfBody ==
  ASSUME NEW b \in Seq(Nat), NEW j \in 0..Len(b)
  PROVE  SubSeq(b, 1, j) \in Seq(Nat) /\ Len(SubSeq(b, 1, j)) = j
<1>1. Len(b) \in Nat /\ j \in Int
  BY LenProperties
<1>2. \A i \in 1..j : b[i] \in Nat
  BY <1>1, ElementOfSeq
<1> QED
  BY <1>1, <1>2, SubSeqProperties

\* Requests of a given-up attempt keep everything but being waited for.
LEMMA AbandonedRequests ==
  ASSUME net \subseteq Request, NEW r \in Abandoned(net)
  PROVE  /\ r \in Request /\ ~r.live
         /\ \E q \in net : r.offset = q.offset /\ r.body = q.body
BY DEF Abandoned, Request

\* A chunk is never empty and never more than what remains.
LEMMA PieceBounds ==
  ASSUME NEW rem \in Nat, rem > 0
  PROVE  PieceSize(rem) \in 1..rem
BY DEF PieceSize

-----------------------------------------------------------------------------
(* Type correctness: UploadState, Request and the server's data            *)

\* Nothing is sent or stored before UploadArtifact is called.
LEMMA InitInv == UploadInit => UploadInv
<1> SUFFICES ASSUME UploadInit PROVE UploadInv
  OBVIOUS
<1>1. stored = <<>> /\ net = {} /\ up.pc = "idle" /\ reply = NoReply
  BY DEF UploadInit, IdleUpload
<1>2. TypeOK
  BY EmptySeq DEF UploadInit, TypeOK, IdleUpload, UploadState, NoReply
<1>3. Len(stored) = 0
  BY <1>1, EmptySeq
<1> QED
  BY <1>1, <1>2, <1>3 DEF UploadInv, NoOverrun, RequestsInside, Counters,
     Exchange, Clean, CleanState, WholeSent, WholeAccepted

\* The call and its Seek to the start of the file.
LEMMA StartInv == UploadInv /\ StartUpload(0) => UploadInv'
<1> SUFFICES ASSUME UploadInv, StartUpload(0) PROVE UploadInv'
  OBVIOUS
<1> USE DEF UploadInv, StartUpload
<1>1. /\ up.pc = "idle" /\ stored = <<>> /\ net = {} /\ reply = NoReply
      /\ up'.pc = "loop" /\ up'.remaining = Size /\ up'.pos = 0
      /\ stored' = stored /\ net' = net /\ reply' = reply /\ file' = file
  BY DEF TypeOK, UploadState, Exchange
<1>2. TypeOK'
  <2>1. up' = [pc |-> "loop", remaining |-> Size, psize |-> up.psize,
               n |-> up.n, pos |-> 0, tries |-> up.tries]
    <3>1. up' = [up EXCEPT !.pc = "loop", !.remaining = Size, !.pos = 0]
      BY Size - 0 = Size
    <3> QED
      BY <3>1 DEF TypeOK, UploadState
  <2> QED
    BY <1>1, <2>1 DEF TypeOK, UploadState
<1>3. Len(stored') = 0
  BY <1>1, EmptySeq
<1> QED
  BY <1>1, <1>2, <1>3 DEF NoOverrun, RequestsInside, Counters, Exchange,
     Clean, CleanState, Aligned, IsFilePrefix, Offset, WholeSent,
     WholeAccepted

\* A new LimitedReader is made for the next piece of the file.
LEMMA NextChunkInv == UploadInv /\ NextChunk => UploadInv'
<1> SUFFICES ASSUME UploadInv, NextChunk PROVE UploadInv'
  OBVIOUS
<1> USE DEF UploadInv, NextChunk
<1>1. up.remaining \in 1..Size /\ PieceSize(up.remaining) \in 1..up.remaining
  BY PieceBounds DEF Counters, TypeOK, UploadState
<1>2. /\ up'.pc = "send" /\ up'.remaining = up.remaining /\ up'.pos = up.pos
      /\ up'.psize = PieceSize(up.remaining)
      /\ up'.n = PieceSize(up.remaining)
      /\ stored' = stored /\ net' = net /\ reply' = reply /\ file' = file
  BY DEF TypeOK, UploadState
<1>3. TypeOK'
  <2>1. up' = [pc |-> "send", remaining |-> up.remaining,
               psize |-> PieceSize(up.remaining),
               n |-> PieceSize(up.remaining), pos |-> up.pos, tries |-> 0]
    BY DEF TypeOK, UploadState
  <2> QED
    BY <1>1, <1>2, <2>1 DEF TypeOK, UploadState
<1>4. Counters'
  BY <1>1, <1>2 DEF Counters, Offset, TypeOK, UploadState
<1>5. Exchange'
  BY <1>2 DEF Exchange
<1>6. Clean'
  BY <1>2 DEF Clean, CleanState, Aligned, Harmless, IsFilePrefix, Offset
<1> QED
  BY <1>2, <1>3, <1>4, <1>5, <1>6 DEF NoOverrun, RequestsInside, WholeSent,
     WholeAccepted

\* The loop ends when nothing remains: by then the server has the file.
LEMMA ReturnsInv == UploadInv /\ UploadReturns => UploadInv'
<1> SUFFICES ASSUME UploadInv, UploadReturns PROVE UploadInv'
  OBVIOUS
<1> USE DEF UploadInv, UploadReturns
<1>1. /\ up'.pc = "ok" /\ up'.remaining = up.remaining /\ up.remaining = 0
      /\ stored' = stored /\ net' = net /\ reply' = reply /\ file' = file
  BY DEF TypeOK, UploadState, Counters
<1>2. TypeOK'
  BY DEF TypeOK, UploadState
<1>3. Clean'
  BY <1>1 DEF Clean, CleanState, Aligned, Harmless, IsFilePrefix, Offset
<1> QED
  BY <1>1, <1>2, <1>3 DEF Counters, Exchange, NoOverrun, RequestsInside,
     WholeSent, WholeAccepted

\* An attempt of doWithRetry, which reads part of the LimitedReader.
LEMMA SendInv ==
  ASSUME NEW k \in 0..up.n
  PROVE  UploadInv /\ Send(k) => UploadInv'
<1> SUFFICES ASSUME UploadInv, Send(k) PROVE UploadInv'
  OBVIOUS
<1> USE DEF UploadInv, Send
<1> DEFINE new == [offset |-> Offset, body |-> Bytes(up.pos, k),
                   whole |-> k = up.psize, live |-> TRUE]
<1>1. /\ up.pc = "send" /\ up.remaining \in 1..Size
      /\ up.psize \in 1..up.remaining /\ up.n \in 0..up.psize
      /\ up.pos \in Nat /\ up.tries \in Nat /\ k \in Nat
      /\ up.pos + up.n = Offset + up.psize
      /\ Offset \in Nat /\ Offset + up.remaining = Size
  BY DEF Counters, TypeOK, UploadState, Offset
<1>2. /\ up'.pc = "wait" /\ up'.remaining = up.remaining
      /\ up'.pos = up.pos + k /\ up'.n = up.n - k /\ up'.psize = up.psize
      /\ Offset' = Offset
      /\ stored' = stored /\ reply' = reply /\ file' = file
      /\ net' = net \cup {new}
  BY DEF TypeOK, UploadState, Offset
<1>3. /\ Bytes(up.pos, k) \in Seq(Nat)
      /\ Len(Bytes(up.pos, k)) = k
      /\ \A i \in 1..k : Bytes(up.pos, k)[i] = file[up.pos + i]
  <2>1. up.pos + k <= Size
    BY <1>1
  <2> QED
    BY <1>1, <2>1, BytesProperties DEF TypeOK
<1>4. TypeOK'
  <2>1. new \in Request
    BY <1>1, <1>3 DEF Request
  <2>2. up' = [pc |-> "wait", remaining |-> up.remaining,
               psize |-> up.psize, n |-> up.n - k, pos |-> up.pos + k,
               tries |-> up.tries + 1]
    BY DEF TypeOK, UploadState
  <2>3. /\ up.remaining \in Int /\ up.psize \in Nat /\ up.n - k \in Nat
        /\ up.pos + k \in Nat /\ up.tries + 1 \in Nat
    BY <1>1
  <2>4. up' \in UploadState
    BY <2>2, <2>3 DEF UploadState
  <2> QED
    BY <1>2, <2>1, <2>4 DEF TypeOK
<1>5. RequestsInside'
  <2>1. \A r \in net : r.offset + Len(r.body) <= Size
    BY DEF RequestsInside
  <2>2. Offset + k <= Size
    BY <1>1
  <2>3. new.offset + Len(new.body) <= Size
    BY <1>3, <2>2
  <2> HIDE DEF new
  <2> QED
    BY <1>2, <2>1, <2>3 DEF RequestsInside
<1>6. Counters'
  BY <1>1, <1>2 DEF Counters
<1>7. Exchange'
  BY <1>1, <1>2 DEF Exchange
<1>8. Clean'
  <2>1. CASE up.n = up.psize /\ k = 0
    <3>1. Aligned /\ \A r \in net : Harmless(r)
      BY <1>1, <2>1 DEF Clean, CleanState
    <3>2. new.body = <<>>
      BY <1>3, <2>1, EmptySeq
    <3> QED
      BY <1>2, <3>1, <3>2 DEF Clean, Aligned, Harmless, IsFilePrefix
  <2>2. CASE ~(up.n = up.psize /\ k = 0)
    BY <1>1, <1>2, <2>2 DEF Clean, CleanState
  <2> QED
    BY <2>1, <2>2
<1>9. WholeSent'
  <2>1. CASE k = up.psize
    <3>1. up.n = up.psize /\ up.pos = Offset
      BY <1>1, <2>1
    <3>2. Aligned /\ \A r \in net : Harmless(r)
      BY <1>1, <3>1 DEF Clean, CleanState
    <3>3. \A w \in net' : w.live => w = new
      BY <1>1, <1>2 DEF Exchange
    <3>4. Aligned'
      BY <1>2, <3>2 DEF Aligned, IsFilePrefix
    <3>5. ASSUME NEW w \in net', w.live PROVE IsChunk(w)'
      <4>1. /\ w.offset = Offset /\ w.body = Bytes(up.pos, k)
        BY <3>3, <3>5
      <4> QED
        BY <1>1, <1>2, <1>3, <2>1, <3>1, <4>1 DEF IsChunk
    <3>6. up'.n = 0
      BY <1>1, <1>2, <2>1, <3>1
    <3>7. \A r \in net' : r # new => Harmless(r)'
      BY <1>2, <3>2 DEF Harmless
    <3> HIDE DEF new
    <3> QED
      BY <3>3, <3>4, <3>5, <3>6, <3>7 DEF WholeSent
  <2>2. CASE k # up.psize
    <3>1. \A r \in net : ~r.live
      BY <1>1 DEF Exchange
    <3>2. new.whole = FALSE
      BY <2>2, Zenon
    <3>3. \A w \in net' : w.live => ~w.whole
      BY <1>2, <3>1, <3>2, Zenon
    <3> QED
      BY <3>3 DEF WholeSent
  <2> QED
    BY <2>1, <2>2
<1>10. WholeAccepted'
  BY <1>1, <1>2 DEF WholeAccepted, Exchange, IsSuccess
<1> QED
  BY <1>2, <1>4, <1>5, <1>6, <1>7, <1>8, <1>9, <1>10 DEF NoOverrun

\* What the end of an attempt leaves behind.
LEMMA AttemptEnds ==
  ASSUME UploadInv, net' = Abandoned(net), reply' = NoReply,
         file' = file, stored' = stored, up'.pc # "wait",
         up'.remaining \in 0..Size, up' \in UploadState
  PROVE  TypeOK' /\ NoOverrun' /\ RequestsInside'
         /\ (up'.pc # "idle" => Exchange') /\ WholeSent' /\ WholeAccepted'
<1> USE DEF UploadInv
<1>1. \A r \in net' : r \in Request /\ ~r.live
                      /\ \E q \in net : r.offset = q.offset /\ r.body = q.body
  BY AbandonedRequests DEF TypeOK
<1>2. TypeOK'
  BY <1>1 DEF TypeOK, NoReply
<1>3. RequestsInside'
  BY <1>1 DEF RequestsInside
<1> QED
  BY <1>1, <1>2, <1>3 DEF NoOverrun, Exchange, WholeSent, WholeAccepted

\* A failed attempt is repeated or given up; its request may arrive later.
LEMMA RetryInv ==
  ASSUME UploadInv, up.pc = "wait",
         NEW pc \in {"send", "failed"}, EndOfAttempt(pc)
  PROVE  UploadInv'
<1> USE DEF UploadInv, EndOfAttempt
<1>1. up' = [pc |-> pc, remaining |-> up.remaining, psize |-> up.psize,
             n |-> up.n, pos |-> up.pos, tries |-> up.tries]
  BY DEF TypeOK, UploadState
<1>2. up' \in UploadState
  BY <1>1 DEF TypeOK, UploadState
<1>3. /\ up.remaining \in 0..Size /\ Offset' = Offset
      /\ up'.remaining = up.remaining /\ up'.pc = pc /\ up'.n = up.n
      /\ up'.psize = up.psize /\ up'.pos = up.pos
  BY <1>1 DEF Counters, Offset
<1>4. /\ TypeOK' /\ NoOverrun' /\ RequestsInside' /\ Exchange'
      /\ WholeSent' /\ WholeAccepted'
  BY <1>2, <1>3, AttemptEnds
<1>5. Counters'
  BY <1>3 DEF Counters
<1>6. Clean'
  <2>1. CASE pc = "send" /\ up.n = up.psize
    <3>1. Aligned /\ \A r \in net : Harmless(r)
      BY <2>1 DEF Clean, CleanState
    <3>2. \A r \in net' : \E q \in net : r.offset = q.offset /\ r.body = q.body
      BY AbandonedRequests DEF TypeOK
    <3>3. \A r \in net' : Harmless(r)'
      BY <3>1, <3>2 DEF Harmless
    <3> QED
      BY <1>3, <3>1, <3>3 DEF Clean, Aligned, IsFilePrefix
  <2>2. CASE ~(pc = "send" /\ up.n = up.psize)
    BY <1>3, <2>2 DEF Clean, CleanState
  <2> QED
    BY <2>1, <2>2
<1> QED
  BY <1>4, <1>5, <1>6

\* A reply of success: the whole piece was stored, and remaining shrinks by it.
LEMMA PatchReturnsInv == UploadInv /\ PatchReturns => UploadInv'
<1> SUFFICES ASSUME UploadInv, PatchReturns PROVE UploadInv'
  OBVIOUS
<1> USE DEF UploadInv, PatchReturns
<1>1. /\ up.n = 0 /\ IsFilePrefix(stored)
      /\ Len(stored) = Offset + up.psize
      /\ \A r \in net : Harmless(r)
  BY DEF WholeAccepted
<1>2. /\ up.remaining \in 0..Size /\ up.psize \in 1..up.remaining
      /\ up.pos + up.n = Offset + up.psize /\ up.pos \in Nat
  BY DEF Counters, TypeOK, UploadState
<1>3. up' = [pc |-> "loop", remaining |-> up.remaining - up.psize,
             psize |-> up.psize, n |-> up.n, pos |-> up.pos,
             tries |-> up.tries]
  <2>1. up.psize - up.n = up.psize
    BY <1>1, <1>2
  <2>2. up' = [up EXCEPT !.pc = "loop", !.remaining = @ - up.psize]
    BY <2>1
  <2> QED
    BY <2>2 DEF TypeOK, UploadState
<1>4. /\ up'.remaining \in 0..Size /\ Offset' = Len(stored)
      /\ up'.pc = "loop" /\ up'.pos = Offset'
  BY <1>1, <1>2, <1>3 DEF Offset
<1>5. up' \in UploadState
  BY <1>2, <1>3 DEF TypeOK, UploadState
<1>6. /\ TypeOK' /\ NoOverrun' /\ RequestsInside' /\ Exchange'
      /\ WholeSent' /\ WholeAccepted'
  BY <1>4, <1>5, AttemptEnds
<1>7. Counters'
  BY <1>4 DEF Counters
<1>8. Clean'
  <2>1. \A r \in net' : \E q \in net : r.offset = q.offset /\ r.body = q.body
    BY AbandonedRequests DEF TypeOK
  <2>2. \A r \in net' : Harmless(r)'
    BY <1>1, <2>1 DEF Harmless
  <2> QED
    BY <1>1, <1>4, <2>2 DEF Clean, Aligned, IsFilePrefix
<1> QED
  BY <1>6, <1>7, <1>8

-----------------------------------------------------------------------------
(* The server's steps                                                      *)

\* The server appends t, all or part of the body of r, and answers code.
LEMMA StoreInv ==
  ASSUME UploadInv, NEW r \in net, r.offset = Len(stored),
         NEW t \in Seq(Nat), Len(t) <= Len(r.body),
         NEW code \in Nat,
         IsSuccess(code) => r.whole /\ t = r.body,
         stored' = stored \o t, net' = net \ {r}, Answer(r, code),
         file' = file, up' = up
  PROVE  UploadInv'
<1> USE DEF UploadInv
<1>1. /\ r \in Request /\ r.body \in Seq(Nat) /\ stored \in Seq(Nat)
      /\ Len(stored) \in Nat /\ Len(t) \in Nat /\ Len(r.body) \in Nat
  BY LenProperties DEF TypeOK, Request
<1>2. stored' \in Seq(Nat) /\ Len(stored') = Len(stored) + Len(t)
  BY <1>1, ConcatProperties
<1>3. ASSUME Harmless(r) PROVE stored' = stored
  <2>1. r.body = <<>> /\ Len(r.body) = 0
    BY <1>1, <1>3, EmptySeq DEF Harmless
  <2>2. t = <<>>
    BY <1>1, <2>1, EmptySeq
  <2> QED
    BY <1>1, <2>2, ConcatEmptySeq
<1>4. ASSUME NEW q \in net, Harmless(q) PROVE Harmless(q)'
  <2>1. q.offset \in Nat
    BY DEF TypeOK, Request
  <2> QED
    BY <1>1, <1>2, <1>4, <2>1 DEF Harmless
<1>5. reply' = IF r.live THEN code ELSE reply
  BY DEF Answer
<1>6. TypeOK'
  BY <1>2, <1>5 DEF TypeOK
<1>7. NoOverrun' /\ RequestsInside'
  BY <1>1, <1>2 DEF RequestsInside, NoOverrun
<1>8. Counters'
  BY DEF Counters, Offset
<1>9. Exchange'
  BY <1>5 DEF Exchange
<1>10. Clean'
  <2>1. CASE CleanState
    <3>1. Aligned /\ \A q \in net : Harmless(q)
      BY <2>1 DEF Clean
    <3>2. stored' = stored
      BY <1>3, <3>1
    <3> QED
      BY <1>4, <3>1, <3>2 DEF Clean, Aligned, IsFilePrefix, Offset
  <2>2. CASE ~CleanState
    BY <2>2 DEF Clean, CleanState
  <2> QED
    BY <2>1, <2>2
<1>11. WholeSent'
  <2> SUFFICES ASSUME up.pc = "wait", NEW w \in net, w # r, w.live, w.whole
               PROVE  /\ Aligned' /\ IsChunk(w)' /\ up'.n = 0
                      /\ \A q \in net' : q # w => Harmless(q)'
    BY DEF WholeSent
  <2>1. /\ Aligned /\ IsChunk(w) /\ up.n = 0
        /\ \A q \in net : q # w => Harmless(q)
    BY DEF WholeSent
  <2>2. stored' = stored
    BY <1>3, <2>1
  <2> QED
    BY <1>4, <2>1, <2>2 DEF Aligned, IsFilePrefix, Offset, IsChunk
<1>12. WholeAccepted'
  <2> SUFFICES ASSUME up.pc = "wait", IsSuccess(reply')
               PROVE  /\ up'.n = 0 /\ IsFilePrefix(stored)'
                      /\ Len(stored') = (Offset + up.psize)'
                      /\ \A q \in net' : Harmless(q)'
    BY DEF WholeAccepted
  <2>1. CASE r.live
    <3>1. r.whole /\ t = r.body
      BY <1>5, <2>1
    <3>2. /\ IsFilePrefix(stored) /\ Len(stored) = Offset
          /\ IsChunk(r) /\ up.n = 0
          /\ \A q \in net : q # r => Harmless(q)
      BY <2>1, <3>1 DEF WholeSent, Aligned
    <3>3. Len(t) = up.psize /\ \A i \in 1..Len(t) : t[i] = file[Len(stored) + i]
      BY <3>1, <3>2 DEF IsChunk
    <3>4. Len(stored) + Len(t) <= Size
      BY <1>2, <1>7 DEF NoOverrun
    <3>5. IsFilePrefix(stored \o t)
      BY <3>2, <3>3, <3>4, AppendCopy, <1>1
    <3> QED
      BY <1>2, <1>4, <3>2, <3>3, <3>5 DEF IsFilePrefix, Offset
  <2>2. CASE ~r.live
    <3>1. /\ up.n = 0 /\ IsFilePrefix(stored)
          /\ Len(stored) = Offset + up.psize
          /\ \A q \in net : Harmless(q)
      BY <1>5, <2>2 DEF WholeAccepted
    <3>2. stored' = stored
      BY <1>3, <3>1
    <3> QED
      BY <1>4, <3>1, <3>2 DEF IsFilePrefix, Offset
  <2> QED
    BY <2>1, <2>2
<1> QED
  BY <1>6, <1>7, <1>8, <1>9, <1>10, <1>11, <1>12

\* A refused request leaves the data alone.
LEMMA ConflictInv ==
  ASSUME UploadInv, NEW r \in net, ServerConflict(r)
  PROVE  UploadInv'
<1> USE DEF UploadInv, ServerConflict
<1>1. reply' = IF r.live THEN 409 ELSE reply
  BY DEF Answer, Conflict
<1>2. TypeOK'
  BY <1>1 DEF TypeOK
<1>3. NoOverrun' /\ RequestsInside' /\ Counters'
  BY DEF NoOverrun, RequestsInside, Counters, Offset
<1>4. Exchange'
  BY <1>1 DEF Exchange
<1>5. Clean' /\ WholeSent'
  BY DEF Clean, CleanState, WholeSent, Aligned, IsFilePrefix, Offset,
     Harmless, IsChunk
<1>6. WholeAccepted'
  BY <1>1 DEF WholeAccepted, IsSuccess, IsFilePrefix, Offset, Harmless
<1> QED
  BY <1>2, <1>3, <1>4, <1>5, <1>6

\* Whatever the server does with a request, in time or late.
LEMMA ServerInv == UploadInv /\ ServerStep => UploadInv'
<1> SUFFICES ASSUME UploadInv, NEW r \in net,
                    \/ ServerAccepts(r)
                    \/ ServerConflict(r)
                    \/ \E j \in 0..Len(r.body),
                          code \in ErrorCodes \cup {NoReply} :
                         ServerStoresPart(r, j, code)
             PROVE  UploadInv'
  BY DEF ServerStep
<1>1. r.body \in Seq(Nat) /\ Len(r.body) \in Nat
  BY LenProperties DEF UploadInv, TypeOK, Request
<1>2. CASE ServerAccepts(r)
  <2>1. /\ r.offset = Len(stored) /\ r.whole /\ stored' = stored \o r.body
        /\ net' = net \ {r} /\ Answer(r, NoContent)
        /\ file' = file /\ up' = up
    BY <1>2 DEF ServerAccepts
  <2>2. NoContent \in Nat /\ Len(r.body) <= Len(r.body)
    BY <1>1 DEF NoContent
  <2> QED
    BY <1>1, <2>1, <2>2, StoreInv
<1>3. CASE ServerConflict(r)
  BY <1>3, ConflictInv
<1>4. ASSUME NEW j \in 0..Len(r.body), NEW code \in ErrorCodes \cup {NoReply},
             ServerStoresPart(r, j, code)
      PROVE  UploadInv'
  <2>1. code \in Nat /\ ~IsSuccess(code)
    BY DEF IsSuccess, NoReply
  <2>2. SubSeq(r.body, 1, j) \in Seq(Nat) /\ Len(SubSeq(r.body, 1, j)) = j
    BY <1>1, PartOfBody
  <2>3. Len(SubSeq(r.body, 1, j)) <= Len(r.body)
    BY <1>1, <2>2
  <2> QED
    BY <1>4, <2>1, <2>2, <2>3, StoreInv DEF ServerStoresPart
<1> QED
  BY <1>2, <1>3, <1>4

-----------------------------------------------------------------------------
(* The theorems                                                            *)

\* Every step of the call and of the server keeps the invariant.
LEMMA NextInv == UploadInv /\ [UploadNext]_uploadVars => UploadInv'
<1> SUFFICES ASSUME UploadInv, [UploadNext]_uploadVars PROVE UploadInv'
  OBVIOUS
<1>1. CASE StartUpload(0)
  BY <1>1, StartInv
<1>2. CASE NextChunk
  BY <1>2, NextChunkInv
<1>3. CASE UploadReturns
  BY <1>3, ReturnsInv
<1>4. CASE \E k \in 0..up.n : Send(k)
  BY <1>4, SendInv
<1>5. CASE TransportError
  <2>1. PICK pc \in {"send", "failed"} : EndOfAttempt(pc)
    BY <1>5 DEF TransportError, RetryOrGiveUp
  <2>2. up.pc = "wait"
    BY <1>5 DEF TransportError
  <2> QED
    BY <2>1, <2>2, RetryInv
<1>6. CASE RetryableReply
  <2>1. PICK pc \in {"send", "failed"} : EndOfAttempt(pc)
    BY <1>6 DEF RetryableReply, RetryOrGiveUp
  <2>2. up.pc = "wait"
    BY <1>6 DEF RetryableReply
  <2> QED
    BY <2>1, <2>2, RetryInv
<1>7. CASE PermanentReply
  BY <1>7, RetryInv DEF PermanentReply
<1>8. CASE PatchReturns
  BY <1>8, PatchReturnsInv
<1>9. CASE ServerStep
  BY <1>9, ServerInv
<1>10. CASE UNCHANGED uploadVars
  <2> USE <1>10 DEF uploadVars, UploadInv
  <2>1. TypeOK' /\ NoOverrun' /\ RequestsInside' /\ Counters' /\ Exchange'
    BY DEF TypeOK, NoOverrun, RequestsInside, Counters, Exchange, Offset
  <2>2. Clean'
    BY DEF Clean, CleanState, Aligned, Harmless, IsFilePrefix, Offset
  <2>3. WholeSent'
    BY DEF WholeSent, Aligned, Harmless, IsChunk, IsFilePrefix, Offset
  <2>4. WholeAccepted'
    BY DEF WholeAccepted, Harmless, IsFilePrefix, Offset
  <2> QED
    BY <2>1, <2>2, <2>3, <2>4
<1> QED
  BY <1>1, <1>2, <1>3, <1>4, <1>5, <1>6, <1>7, <1>8, <1>9, <1>10
     DEF UploadNext, ClientStep, AttemptOutcome

\* In every reachable state of UploadArtifact's attempts the bookkeeping of
\* the client and of the server agree as UploadInv says.
THEOREM Inductive == UploadSpec => []UploadInv
<1>1. UploadInit => UploadInv
  BY InitInv
<1>2. UploadInv /\ [UploadNext]_uploadVars => UploadInv'
  BY NextInv
<1> QED
  BY <1>1, <1>2, PTL DEF UploadSpec

\* The variables of the model keep their types, and no attempt makes the
\* artifact longer than the file.
THEOREM TypeCorrect == UploadSpec => [](TypeOK /\ NoOverrun)
<1>1. UploadInv => TypeOK /\ NoOverrun
  BY DEF UploadInv
<1> QED
  BY <1>1, Inductive, PTL

\* A nil error of UploadArtifact means that the artifact is the file.
THEOREM Exact == UploadSpec => []UploadedExact
<1>1. UploadInv => UploadedExact
  <2> SUFFICES ASSUME UploadInv, up.pc = "ok"
               PROVE  IsFilePrefix(stored) /\ Len(stored) = Size
    BY DEF UploadedExact
  <2>1. Aligned /\ up.remaining = 0
    BY DEF UploadInv, Clean, CleanState, Counters
  <2> QED
    BY <2>1 DEF Aligned, Offset
<1> QED
  BY <1>1, Inductive, PTL

\* Wrong data only ever goes with a call that cannot succeed any more.
THEOREM Fatal == UploadSpec => []CorruptionIsFatal
<1>1. UploadInv => CorruptionIsFatal
  <2> SUFFICES ASSUME UploadInv, ~IsFilePrefix(stored), up.pc # "failed"
               PROVE  /\ up.pc \in {"send", "wait"}
                      /\ up.n < up.psize
                      /\ \A r \in net : ~(r.live /\ r.whole)
    BY DEF CorruptionIsFatal
  <2>1. ~CleanState
    BY DEF UploadInv, Clean, Aligned
  <2>2. up.pc # "idle"
    <3>1. ASSUME up.pc = "idle" PROVE FALSE
      <4>1. stored = <<>> /\ Len(stored) = 0
        BY <3>1, EmptySeq DEF UploadInv, Exchange
      <4> QED
        BY <4>1 DEF IsFilePrefix
    <3> QED
      BY <3>1
  <2>3. up.pc \in {"send", "wait"}
    BY <2>1, <2>2 DEF UploadInv, TypeOK, UploadState, CleanState
  <2>4. up.n < up.psize
    BY <2>1, <2>3 DEF UploadInv, TypeOK, UploadState, CleanState, Counters
  <2>5. \A r \in net : ~(r.live /\ r.whole)
    BY <2>3 DEF UploadInv, WholeSent, Exchange, Aligned
  <2> QED
    BY <2>3, <2>4, <2>5
<1> QED
  BY <1>1, Inductive, PTL

-----------------------------------------------------------------------------
(* TusUpload implements UploadContract                                     *)

\* A prolonged sequence still starts with what it was.
LEMMA AppendExtends ==
  ASSUME NEW s \in Seq(Nat), NEW t \in Seq(Nat)
  PROVE  Contract!Extends(s, s \o t)
<1>1. /\ Len(s) \in Nat /\ Len(t) \in Nat
      /\ Len(s \o t) = Len(s) + Len(t)
      /\ \A i \in 1..Len(s) + Len(t) :
            (s \o t)[i] = IF i <= Len(s) THEN s[i] ELSE t[i - Len(s)]
  BY ConcatProperties, LenProperties
<1> QED
  BY <1>1 DEF Contract!Extends

\* Everything that happens to the data appends to it.
LEMMA ServerExtends ==
  ASSUME UploadInv, ServerStep
  PROVE  /\ Contract!Extends(stored, stored') /\ up' = up /\ file' = file
         /\ up.pc = "ok" => stored' = stored
<1> PICK r \in net :
            \/ ServerAccepts(r)
            \/ ServerConflict(r)
            \/ \E j \in 0..Len(r.body),
                  code \in ErrorCodes \cup {NoReply} :
                 ServerStoresPart(r, j, code)
  BY DEF ServerStep
<1>1. /\ r.body \in Seq(Nat) /\ Len(r.body) \in Nat
      /\ stored \in Seq(Nat) /\ <<>> \in Seq(Nat)
  BY LenProperties, EmptySeq DEF UploadInv, TypeOK, Request
<1>2. up.pc = "ok" => Harmless(r)
  BY DEF UploadInv, Clean, CleanState
<1>3. ASSUME NEW t \in Seq(Nat), stored' = stored \o t,
             r.offset = Len(stored), Len(t) <= Len(r.body)
      PROVE  /\ Contract!Extends(stored, stored')
             /\ up.pc = "ok" => stored' = stored
  <2>1. Contract!Extends(stored, stored')
    BY <1>1, <1>3, AppendExtends
  <2>2. ASSUME up.pc = "ok" PROVE stored' = stored
    <3>1. r.body = <<>> /\ Len(r.body) = 0
      BY <1>1, <1>2, <1>3, <2>2, LenProperties, EmptySeq DEF Harmless
    <3>2. t = <<>>
      BY <1>3, <3>1, EmptySeq, LenProperties
    <3> QED
      BY <1>1, <1>3, <3>2, ConcatEmptySeq
  <2> QED
    BY <2>1, <2>2
<1>4. CASE ServerAccepts(r)
  <2>1. /\ r.offset = Len(stored) /\ stored' = stored \o r.body
        /\ file' = file /\ up' = up
    BY <1>4 DEF ServerAccepts
  <2>2. Len(r.body) <= Len(r.body)
    BY <1>1
  <2> QED
    BY <1>1, <1>3, <2>1, <2>2
<1>5. CASE ServerConflict(r)
  BY <1>1, <1>5 DEF ServerConflict, Contract!Extends
<1>6. ASSUME NEW j \in 0..Len(r.body), NEW code \in ErrorCodes \cup {NoReply},
             ServerStoresPart(r, j, code)
      PROVE  /\ Contract!Extends(stored, stored') /\ up' = up /\ file' = file
             /\ up.pc = "ok" => stored' = stored
  <2>1. SubSeq(r.body, 1, j) \in Seq(Nat) /\ Len(SubSeq(r.body, 1, j)) = j
    BY <1>1, PartOfBody
  <2>2. Len(SubSeq(r.body, 1, j)) <= Len(r.body)
    BY <1>1, <2>1
  <2> QED
    BY <1>3, <1>6, <2>1, <2>2 DEF ServerStoresPart
<1> QED
  BY <1>4, <1>5, <1>6

\* UploadArtifact, with its chunks and retries, keeps the promise stated by
\* UploadContract, on which its callers build.
THEOREM Refinement == UploadSpec => ImplementsContract
<1> DEFINE outcome == IF up.pc \in {"ok", "failed"} THEN up.pc ELSE "pending"
<1>1. UploadInit => Contract!ContractInit
  BY DEF UploadInit, IdleUpload, Contract!ContractInit
<1>2. ASSUME UploadInv, UploadInv', [UploadNext]_uploadVars
      PROVE  [Contract!ContractNext]_Contract!contractVars
  <2> USE DEF Contract!ContractNext, Contract!contractVars
  <2>1. CASE ServerStep
    <3>1. /\ Contract!Extends(stored, stored') /\ up' = up /\ file' = file
          /\ up.pc = "ok" => stored' = stored
      BY <1>2, <2>1, ServerExtends
    <3>2. CASE up.pc = "ok"
      BY <3>1, <3>2
    <3>3. CASE up.pc # "ok"
      <4>1. outcome \in {"pending", "failed"} /\ outcome' = outcome
        BY <3>1, <3>3
      <4> QED
        BY <3>1, <4>1 DEF Contract!Transfer
    <3> QED
      BY <3>2, <3>3
  <2>2. CASE UploadReturns
    <3>1. /\ up.pc = "loop" /\ up'.pc = "ok"
          /\ stored' = stored /\ file' = file
      BY <1>2, <2>2 DEF UploadReturns, UploadInv, TypeOK, UploadState
    <3>2. IsFilePrefix(stored) /\ Len(stored) = Size
      BY <1>2, <3>1
         DEF UploadInv, Clean, CleanState, Aligned, Counters, Offset,
             IsFilePrefix
    <3> QED
      BY <3>1, <3>2 DEF Contract!Succeed, Contract!IsCopy, IsFilePrefix
  <2>3. CASE \/ StartUpload(0) \/ NextChunk
             \/ \E k \in 0..up.n : Send(k)
             \/ PatchReturns
    <3>1. /\ up.pc \notin {"ok", "failed"} /\ up'.pc \notin {"ok", "failed"}
          /\ stored' = stored /\ file' = file
      BY <1>2, <2>3 DEF StartUpload, NextChunk, Send, PatchReturns,
         UploadInv, TypeOK, UploadState
    <3> QED
      BY <3>1
  <2>4. ASSUME NEW pc \in {"send", "failed"}, EndOfAttempt(pc), up.pc = "wait"
        PROVE  [Contract!ContractNext]_Contract!contractVars
    <3>1. up'.pc = pc /\ stored' = stored /\ file' = file
      BY <1>2, <2>4 DEF EndOfAttempt, UploadInv, TypeOK, UploadState
    <3>2. CASE pc = "send"
      BY <2>4, <3>1, <3>2
    <3>3. CASE pc = "failed"
      BY <2>4, <3>1, <3>3 DEF Contract!Fail
    <3> QED
      BY <3>2, <3>3
  <2>5. CASE TransportError \/ RetryableReply \/ PermanentReply
    BY <2>4, <2>5 DEF TransportError, RetryableReply, PermanentReply,
       RetryOrGiveUp
  <2>6. CASE UNCHANGED uploadVars
    BY <2>6 DEF uploadVars
  <2> QED
    BY <1>2, <2>1, <2>2, <2>3, <2>5, <2>6
       DEF UploadNext, ClientStep, AttemptOutcome
<1> QED
  BY <1>1, <1>2, Inductive, PTL
     DEF UploadSpec, ImplementsContract, Contract!ContractSpec

-----------------------------------------------------------------------------
(* Runs that are killed and repeated: the inductive invariant              *)

ArchiveTypes ==
  /\ TypeOK
  /\ run \in RunState
  /\ mtime \in Nat \ {0}
  /\ meta \in [mtime: Nat, art: Nat]
  /\ created \in Nat

\* No request, however late, begins behind the end of the artifact or reaches
\* beyond the end of the archive.
Pending ==
  /\ Len(stored) <= Size
  /\ \A r \in net :
       /\ r.offset <= Len(stored)
       /\ r.offset + Len(r.body) <= Size

\* The counters of UploadArtifact, which never runs ahead of the artifact.
Progress ==
  /\ run.pc # "upload" => up.pc = "idle"
  /\ run.pc \in {"read", "create", "record", "head"} => run.offset = 0
  /\ run.pc = "open" => run.offset <= Len(stored)
  /\ up.pc # "idle" => up.remaining \in 0..Size /\ Offset <= Len(stored)
  /\ up.pc = "loop" => up.pos = Offset
  /\ up.pc = "ok" => up.remaining = 0
  /\ up.pc \in {"send", "wait"} =>
       /\ up.psize \in 1..up.remaining
       /\ up.n <= up.psize
       /\ up.pos + up.n = Offset + up.psize

\* One request at most is waited for; it is about the current chunk, and only
\* one that carried the chunk is answered with success.
Waiting ==
  /\ up.pc # "wait" => reply = NoReply
  /\ up.pc # "wait" \/ reply # NoReply => \A r \in net : ~r.live
  /\ \A r, q \in net : r.live /\ q.live => r = q
  /\ \A r \in net : r.live =>
       /\ r.offset = Offset
       /\ r.whole => Len(r.body) = up.psize /\ up.n = 0
  /\ IsSuccess(reply) => up.n = 0 /\ Offset + up.psize <= Len(stored)

\* The meta file matches the archive, or the run is about its artifact and
\* nobody changed the archive since it began.
Using == {"record", "head", "open", "upload", "rehead", "ok"}
Current == meta.mtime = mtime \/ (run.pc \in Using /\ run.mtime = mtime)

\* A request carries bytes of the archive from its offset on.
Carries(r) == \A i \in 1..Len(r.body) : r.body[i] = file[r.offset + i]

\* The artifact in use has been sent nothing but the archive as it is now.
OfArchive ==
  Current /\ ~cut => IsFilePrefix(stored) /\ \A r \in net : Carries(r)

\* What the meta file and the run know of the archive's versions.
Versions ==
  /\ meta.mtime <= mtime /\ run.mtime <= mtime
  /\ meta.mtime = mtime => meta.art = created
  /\ run.pc = "read" => meta.mtime = run.mtime
  /\ run.pc = "create" => meta.mtime # mtime
  /\ ~touched /\ run.pc # "idle" => run.mtime = mtime

ArchiveInv ==
  /\ ArchiveTypes
  /\ Pending
  /\ Progress
  /\ Waiting
  /\ OfArchive
  /\ Versions
  /\ ResumedComplete

-----------------------------------------------------------------------------
(* Initial states and records                                              *)

HasRun(r) ==
  r = [pc |-> r.pc, mtime |-> r.mtime, offset |-> r.offset,
       same |-> r.same, attempts |-> r.attempts]

LEMMA RunFields ==
  \A r : r \in RunState <=>
    /\ HasRun(r)
    /\ r.pc \in {"idle", "read", "create", "record", "head", "open", "upload",
                 "rehead", "ok", "failed"}
    /\ r.mtime \in Nat /\ r.offset \in Nat /\ r.same \in Nat
    /\ r.attempts \in Nat
BY DEF RunState, HasRun

HasUpload(u) ==
  u = [pc |-> u.pc, remaining |-> u.remaining, psize |-> u.psize,
       n |-> u.n, pos |-> u.pos, tries |-> u.tries]

LEMMA UploadFields ==
  \A u : u \in UploadState <=>
    /\ HasUpload(u)
    /\ u.pc \in {"idle", "loop", "send", "wait", "ok", "failed"}
    /\ u.remaining \in Int /\ u.psize \in Nat /\ u.n \in Nat
    /\ u.pos \in Nat /\ u.tries \in Nat
BY DEF UploadState, HasUpload

LEMMA NoneIsMeta == None \in [mtime: Nat, art: Nat] /\ None.mtime = 0
BY DEF None

LEMMA ArchiveInit == ResumeInit => ArchiveInv
<1> SUFFICES ASSUME ResumeInit PROVE ArchiveInv
  OBVIOUS
<1>1. /\ stored = <<>> /\ net = {} /\ up.pc = "idle" /\ reply = NoReply
      /\ TypeOK
  BY InitInv DEF ResumeInit, UploadInit, IdleUpload, UploadInv
<1>2. /\ run \in RunState /\ run.pc = "idle" /\ run.mtime = 0
      /\ mtime = 1 /\ meta = None /\ created = 0
  BY DEF ResumeInit, RunState
<1>3. Len(stored) = 0
  BY <1>1, EmptySeq
<1>4. ArchiveTypes
  BY <1>1, <1>2, NoneIsMeta DEF ArchiveTypes
<1>5. Pending /\ Progress /\ Waiting /\ ResumedComplete
  BY <1>1, <1>2, <1>3, SizeAssumption
     DEF Pending, Progress, Waiting, ResumedComplete, IsSuccess, NoReply
<1>6. ~Current /\ Versions
  BY <1>2, NoneIsMeta DEF Current, Using, Versions
<1> QED
  BY <1>4, <1>5, <1>6 DEF ArchiveInv, OfArchive

-----------------------------------------------------------------------------
(* Steps of a run between its calls                                        *)

LEMMA BetweenCalls ==
  ASSUME ArchiveInv, UNCHANGED <<uploadVars, mtime, created, cut>>,
         run.pc # "upload", run'.pc # "upload", run' \in RunState,
         meta' \in [mtime: Nat, art: Nat],
         run'.pc \in {"read", "create", "record", "head"} => run'.offset = 0,
         run'.pc = "open" => run'.offset <= Len(stored),
         run'.pc = "ok" => Len(stored) = Size,
         Current' => Current, Versions'
  PROVE  ArchiveInv'
<1> USE DEF ArchiveInv, uploadVars
<1>1. ArchiveTypes'
  BY DEF ArchiveTypes, TypeOK
<1>2. Pending' /\ Waiting' /\ ResumedComplete'
  BY DEF Pending, Waiting, ResumedComplete, Offset
<1>3. Progress'
  BY DEF Progress, Offset
<1>4. OfArchive'
  BY DEF OfArchive, Carries, IsFilePrefix
<1> QED
  BY <1>1, <1>2, <1>3, <1>4

\* Going on with nothing but another pc.
LEMMA GotoRun ==
  ASSUME ArchiveInv, NEW pc, Goto(pc),
         pc \in {"create", "head", "open", "ok", "failed"}
  PROVE  /\ run' \in RunState /\ run'.pc = pc
         /\ run'.mtime = run.mtime /\ run'.offset = run.offset
         /\ UNCHANGED <<uploadVars, mtime, meta, created, touched, cut>>
<1> DEFINE r == run
           s == run'
<1>1. s = [r EXCEPT !.pc = pc] /\ HasRun(r)
  BY RunFields DEF Goto, ArchiveInv, ArchiveTypes
<1>2. r.mtime \in Nat /\ r.offset \in Nat /\ r.same \in Nat /\ r.attempts \in Nat
  BY RunFields DEF ArchiveInv, ArchiveTypes
<1> HIDE DEF r, s
<1>3. /\ HasRun(s) /\ s.pc = pc /\ s.mtime = r.mtime /\ s.offset = r.offset
      /\ s.same = r.same /\ s.attempts = r.attempts
  BY <1>1 DEF HasRun
<1>4. s \in RunState
  BY <1>2, <1>3, RunFields
<1> QED
  BY <1>3, <1>4 DEF r, s, Goto

LEMMA BeginRunInv == ArchiveInv /\ BeginRun => ArchiveInv'
<1> SUFFICES ASSUME ArchiveInv, BeginRun PROVE ArchiveInv'
  OBVIOUS
<1>1. /\ run.pc \in {"idle", "ok", "failed"}
      /\ run' = [pc |-> IF meta # None /\ meta.mtime = mtime
                        THEN "read" ELSE "create",
                 mtime |-> mtime, offset |-> 0, same |-> 0, attempts |-> 0]
      /\ UNCHANGED <<uploadVars, mtime, meta, created, cut>>
  BY DEF BeginRun
<1>2. /\ run' \in RunState /\ run'.mtime = mtime /\ run'.offset = 0
      /\ run'.pc = IF meta # None /\ meta.mtime = mtime THEN "read" ELSE "create"
  BY <1>1 DEF RunState, ArchiveInv, ArchiveTypes
<1>3. meta.mtime = mtime => meta # None
  BY NoneIsMeta DEF ArchiveInv, ArchiveTypes
<1>4. Versions'
  BY <1>1, <1>2, <1>3 DEF ArchiveInv, Versions, ArchiveTypes
<1>5. Current' => Current
  BY <1>1, <1>2 DEF Current, Using
<1> QED
  BY <1>1, <1>2, <1>4, <1>5, BetweenCalls DEF ArchiveInv, ArchiveTypes

LEMMA ReadArtifactInv == ArchiveInv /\ ReadArtifact => ArchiveInv'
<1> SUFFICES ASSUME ArchiveInv, run.pc = "read", NEW pc \in {"head", "failed"}, Goto(pc)
             PROVE  ArchiveInv'
  BY DEF ReadArtifact
<1>1. /\ run' \in RunState /\ run'.pc = pc
      /\ run'.mtime = run.mtime /\ run'.offset = run.offset
      /\ UNCHANGED <<uploadVars, mtime, meta, created, touched, cut>>
  BY GotoRun
<1>2. Versions' /\ run.offset = 0
  BY <1>1 DEF ArchiveInv, Versions, Progress
<1>3. Current' => Current
  BY <1>1 DEF Current, ArchiveInv, Versions
<1> QED
  BY <1>1, <1>2, <1>3, BetweenCalls DEF ArchiveInv, ArchiveTypes

LEMMA RecordMetaInv == ArchiveInv /\ RecordMeta => ArchiveInv'
<1> SUFFICES ASSUME ArchiveInv, RecordMeta PROVE ArchiveInv'
  OBVIOUS
<1> DEFINE r == run
           s == run'
<1>1. /\ r.pc = "record"
      /\ meta' \in {[mtime |-> run.mtime, art |-> created], None, meta}
      /\ UNCHANGED <<uploadVars, mtime, created, touched, cut>>
  BY DEF RecordMeta
<1>2. PICK pc \in {"head", "failed"} : s = [r EXCEPT !.pc = pc]
  BY DEF RecordMeta
<1>3. /\ HasRun(r) /\ r.mtime \in Nat /\ r.offset \in Nat /\ r.same \in Nat
      /\ r.attempts \in Nat
  BY RunFields DEF ArchiveInv, ArchiveTypes
<1> HIDE DEF r, s
<1>4. /\ HasRun(s) /\ s.pc = pc /\ s.mtime = r.mtime /\ s.offset = r.offset
      /\ s.same = r.same /\ s.attempts = r.attempts
  BY <1>2, <1>3 DEF HasRun
<1>5. s \in RunState
  BY <1>3, <1>4, RunFields
<1>6. meta' \in [mtime: Nat, art: Nat]
  BY <1>1, <1>3, NoneIsMeta DEF ArchiveInv, ArchiveTypes, r
<1>7. /\ meta'.mtime \in {run.mtime, 0, meta.mtime}
      /\ meta'.mtime = mtime => meta'.art = created
  BY <1>1, NoneIsMeta DEF ArchiveInv, ArchiveTypes, Versions
<1>8. Versions'
  BY <1>1, <1>4, <1>7 DEF ArchiveInv, ArchiveTypes, Versions, r, s
<1>9. Current' => Current
  BY <1>1, <1>4, <1>7 DEF ArchiveInv, ArchiveTypes, Current, Using, r, s
<1>10. run.offset = 0
  BY <1>1 DEF ArchiveInv, Progress, r
<1> QED
  BY <1>1, <1>4, <1>5, <1>6, <1>8, <1>9, <1>10, BetweenCalls DEF r, s

LEMMA FirstOffsetInv == ArchiveInv /\ FirstOffset => ArchiveInv'
<1> SUFFICES ASSUME ArchiveInv, FirstOffset PROVE ArchiveInv'
  OBVIOUS
<1>1. run.pc = "head" /\ run.offset = 0 /\ Len(stored) \in Nat /\ Len(stored) <= Size
  BY LenProperties DEF FirstOffset, ArchiveInv, ArchiveTypes, TypeOK, Progress, Pending
<1>2. ASSUME NEW pc \in {"ok", "open"}, Goto(pc), pc = "ok" => Len(stored) = Size
      PROVE  ArchiveInv'
  <2>1. /\ run' \in RunState /\ run'.pc = pc
        /\ run'.mtime = run.mtime /\ run'.offset = run.offset
        /\ UNCHANGED <<uploadVars, mtime, meta, created, touched, cut>>
    BY <1>2, GotoRun
  <2>2. Versions'
    BY <1>1, <2>1 DEF ArchiveInv, Versions
  <2>3. Current' => Current
    BY <1>1, <2>1 DEF Current, Using
  <2> QED
    BY <1>1, <1>2, <2>1, <2>2, <2>3, BetweenCalls DEF ArchiveInv, ArchiveTypes
<1>3. ASSUME run' = [run EXCEPT !.pc = "open", !.offset = ServerOffset],
             UNCHANGED <<uploadVars, mtime, meta, created, runs, touched, cut>>
      PROVE  ArchiveInv'
  <2> DEFINE r == run
             s == run'
             o == ServerOffset
  <2>1. s = [r EXCEPT !.pc = "open", !.offset = o]
    BY <1>3
  <2>2. /\ HasRun(r) /\ r.mtime \in Nat /\ r.same \in Nat /\ r.attempts \in Nat
        /\ o \in Nat /\ o <= Len(stored)
    BY <1>1, RunFields DEF ArchiveInv, ArchiveTypes, ServerOffset
  <2> HIDE DEF r, s, o
  <2>3. /\ HasRun(s) /\ s.pc = "open" /\ s.mtime = r.mtime /\ s.offset = o
        /\ s.same = r.same /\ s.attempts = r.attempts
    BY <2>1, <2>2 DEF HasRun
  <2>4. s \in RunState
    BY <2>2, <2>3, RunFields
  <2>5. Versions'
    BY <1>1, <1>3, <2>3 DEF ArchiveInv, Versions, r, s
  <2>6. Current' => Current
    BY <1>1, <1>3, <2>3 DEF Current, Using, r, s
  <2> QED
    BY <1>1, <1>3, <2>2, <2>3, <2>4, <2>5, <2>6, BetweenCalls
       DEF ArchiveInv, ArchiveTypes, s
<1> QED
  BY <1>1, <1>2, <1>3, SizeAssumption DEF FirstOffset, ServerOffset

LEMMA AskOffsetInv == ArchiveInv /\ AskOffsetAgain => ArchiveInv'
<1> SUFFICES ASSUME ArchiveInv, AskOffsetAgain PROVE ArchiveInv'
  OBVIOUS
<1> DEFINE r == run
           s == run'
           o == ServerOffset
           same == IF ServerOffset = run.offset THEN run.same + 1 ELSE 0
           pc == IF same >= SameLimit THEN "failed" ELSE "open"
<1>1. /\ run.pc = "rehead"
      /\ s = [r EXCEPT !.pc = pc, !.same = same, !.offset = o]
      /\ UNCHANGED <<uploadVars, mtime, meta, created, runs, touched, cut>>
  BY DEF AskOffsetAgain
<1>2. /\ HasRun(r) /\ r.mtime \in Nat /\ r.attempts \in Nat
      /\ same \in Nat /\ pc \in {"failed", "open"}
      /\ o \in Nat /\ o <= Len(stored)
  <2>1. run.same \in Nat /\ HasRun(run) /\ run.mtime \in Nat /\ run.attempts \in Nat
    BY RunFields DEF ArchiveInv, ArchiveTypes
  <2>2. Len(stored) \in Nat
    BY LenProperties DEF ArchiveInv, ArchiveTypes, TypeOK
  <2> QED
    BY <2>1, <2>2 DEF ServerOffset
<1> HIDE DEF r, s, o, same, pc
<1>3. /\ HasRun(s) /\ s.pc = pc /\ s.mtime = r.mtime /\ s.offset = o
      /\ s.same = same /\ s.attempts = r.attempts
  BY <1>1, <1>2 DEF HasRun
<1>4. s \in RunState
  BY <1>2, <1>3, RunFields
<1>5. Versions'
  BY <1>1, <1>2, <1>3 DEF ArchiveInv, Versions, r, s
<1>6. Current' => Current
  BY <1>1, <1>2, <1>3 DEF Current, Using, r, s
<1> QED
  BY <1>1, <1>2, <1>3, <1>4, <1>5, <1>6, BetweenCalls
     DEF ArchiveInv, ArchiveTypes, s

LEMMA GivesUpInv ==
  ASSUME ArchiveInv, run.pc \in {"create", "open", "rehead"}, Goto("failed")
  PROVE  ArchiveInv'
<1>1. /\ run' \in RunState /\ run'.pc = "failed"
      /\ run'.mtime = run.mtime /\ run'.offset = run.offset
      /\ UNCHANGED <<uploadVars, mtime, meta, created, touched, cut>>
  BY GotoRun
<1>2. Versions'
  BY <1>1 DEF ArchiveInv, Versions
<1>3. Current' => Current
  BY <1>1 DEF Current, Using
<1> QED
  BY <1>1, <1>2, <1>3, BetweenCalls DEF ArchiveInv, ArchiveTypes

-----------------------------------------------------------------------------
(* The upload of a run                                                     *)

\* A step of UploadArtifact leaves the run alone.
LEMMA RunRests ==
  ASSUME ArchiveInv, run.pc = "upload",
         UNCHANGED <<mtime, meta, created, run, touched>>
  PROVE  /\ Versions' /\ ResumedComplete' /\ (Current' <=> Current)
         /\ run' \in RunState /\ mtime' \in Nat \ {0}
         /\ meta' \in [mtime: Nat, art: Nat] /\ created' \in Nat
BY DEF ArchiveInv, ArchiveTypes, Versions, ResumedComplete, Current

\* A step of UploadArtifact that sends nothing and does not end an exchange.
LEMMA LoopStep ==
  ASSUME ArchiveInv, run.pc = "upload",
         UNCHANGED <<mtime, meta, created, run, touched>>,
         UNCHANGED <<file, stored, net, reply>>, ~cut' => ~cut,
         up.pc # "wait", up'.pc # "wait", up'.pc # "idle",
         up' \in UploadState,
         up'.remaining \in 0..Size, Size - up'.remaining <= Len(stored),
         up'.pc = "loop" => up'.pos = Size - up'.remaining,
         up'.pc = "ok" => up'.remaining = 0,
         up'.pc = "send" =>
           /\ up'.psize \in 1..up'.remaining
           /\ up'.n <= up'.psize
           /\ up'.pos + up'.n = (Size - up'.remaining) + up'.psize
  PROVE  ArchiveInv'
<1>1. /\ Versions' /\ ResumedComplete' /\ (Current' <=> Current)
      /\ run' \in RunState /\ mtime' \in Nat \ {0}
      /\ meta' \in [mtime: Nat, art: Nat] /\ created' \in Nat
  BY RunRests
<1>2. ArchiveTypes'
  BY <1>1 DEF ArchiveInv, ArchiveTypes, TypeOK
<1>3. Pending'
  BY DEF ArchiveInv, Pending
<1>4. Progress'
  BY DEF Progress, Offset
<1>5. /\ reply = NoReply /\ ~IsSuccess(reply)
      /\ \A r \in net : ~r.live
  BY DEF ArchiveInv, Waiting, IsSuccess, NoReply
<1>6. Waiting'
  BY <1>5 DEF Waiting
<1>7. OfArchive'
  BY <1>1 DEF ArchiveInv, OfArchive, Carries, IsFilePrefix
<1> QED
  BY <1>1, <1>2, <1>3, <1>4, <1>6, <1>7 DEF ArchiveInv

LEMMA OpenInv == ArchiveInv /\ OpenAndUpload => ArchiveInv'
<1> SUFFICES ASSUME ArchiveInv, OpenAndUpload PROVE ArchiveInv'
  OBVIOUS
<1> DEFINE r == run
           s == run'
           u == up
           v == up'
           o == run.offset
<1>1. /\ run.pc = "open" /\ u.pc = "idle"
      /\ s = [r EXCEPT !.pc = "upload", !.attempts = @ + 1]
      /\ v = [u EXCEPT !.pc = "loop", !.remaining = Size - o, !.pos = o]
      /\ UNCHANGED <<file, stored, net, reply, mtime, meta, created, touched, cut>>
  BY DEF OpenAndUpload, StartUpload
<1>2. /\ HasRun(r) /\ r.mtime \in Nat /\ r.offset \in Nat /\ r.same \in Nat
      /\ r.attempts \in Nat
  BY RunFields DEF ArchiveInv, ArchiveTypes
<1>3. HasUpload(u) /\ u.psize \in Nat /\ u.n \in Nat /\ u.tries \in Nat
  BY UploadFields DEF ArchiveInv, ArchiveTypes, TypeOK
<1>4. /\ o \in Nat /\ o <= Len(stored) /\ Len(stored) \in Nat /\ Len(stored) <= Size
  BY <1>1, <1>2, LenProperties DEF ArchiveInv, ArchiveTypes, TypeOK, Progress, Pending, r
<1> HIDE DEF r, s, u, v, o
<1>5. /\ HasRun(s) /\ s.pc = "upload" /\ s.mtime = r.mtime
      /\ s.offset = r.offset /\ s.same = r.same /\ s.attempts = r.attempts + 1
  BY <1>1, <1>2 DEF HasRun
<1>6. /\ HasUpload(v) /\ v.pc = "loop" /\ v.remaining = Size - o /\ v.pos = o
      /\ v.psize = u.psize /\ v.n = u.n /\ v.tries = u.tries
  BY <1>1, <1>3 DEF HasUpload
<1>7. s \in RunState /\ v \in UploadState
  <2>1. s.attempts \in Nat
    BY <1>2, <1>5
  <2>2. s \in RunState
    BY <1>2, <1>5, <2>1, RunFields
  <2>3. v.remaining \in Int /\ v.pos \in Nat
    BY <1>4, <1>6, SizeAssumption
  <2>4. v \in UploadState
    BY <1>3, <1>6, <2>3, UploadFields
  <2> QED
    BY <2>2, <2>4
<1>8. ArchiveTypes'
  BY <1>1, <1>7 DEF ArchiveInv, ArchiveTypes, TypeOK, s, v
<1>9. Pending'
  BY <1>1 DEF ArchiveInv, Pending
<1>10. Progress'
  BY <1>1, <1>4, <1>5, <1>6, SizeAssumption DEF Progress, Offset, s, v
<1>11. reply = NoReply /\ \A q \in net : ~q.live
  BY <1>1 DEF ArchiveInv, Waiting, u
<1>12. Waiting'
  BY <1>1, <1>6, <1>11 DEF Waiting, IsSuccess, NoReply, v
<1>13. (Current' => Current) /\ Versions' /\ ResumedComplete'
  BY <1>1, <1>5 DEF ArchiveInv, Current, Using, Versions, ResumedComplete, r, s
<1>14. OfArchive'
  BY <1>1, <1>13 DEF ArchiveInv, OfArchive, Carries, IsFilePrefix
<1> QED
  BY <1>8, <1>9, <1>10, <1>12, <1>13, <1>14 DEF ArchiveInv

LEMMA ChunkInv ==
  ASSUME ArchiveInv, run.pc = "upload", NextChunk, ~cut' => ~cut,
         UNCHANGED <<mtime, meta, created, run, touched>>
  PROVE  ArchiveInv'
<1> DEFINE u == up
           v == up'
           p == PieceSize(up.remaining)
<1>1. /\ u.pc = "loop" /\ u.remaining > 0
      /\ v = [u EXCEPT !.pc = "send", !.psize = p, !.n = p, !.tries = 0]
      /\ UNCHANGED <<file, stored, net, reply>>
  BY DEF NextChunk
<1>2. /\ HasUpload(u) /\ u.remaining \in 1..Size /\ u.pos \in Nat
      /\ u.pos = Size - u.remaining /\ Size - u.remaining <= Len(stored)
  BY <1>1, UploadFields, SizeAssumption
     DEF ArchiveInv, ArchiveTypes, TypeOK, Progress, Offset
<1>3. p \in 1..u.remaining /\ p \in Nat
  BY <1>1, <1>2, PieceBounds, SizeAssumption
<1> HIDE DEF u, v, p
<1>4. /\ HasUpload(v) /\ v.pc = "send" /\ v.remaining = u.remaining
      /\ v.psize = p /\ v.n = p /\ v.pos = u.pos /\ v.tries = 0
  BY <1>1, <1>2 DEF HasUpload
<1>5. v \in UploadState
  BY <1>2, <1>3, <1>4, UploadFields
<1> QED
  BY <1>1, <1>2, <1>3, <1>4, <1>5, LoopStep, SizeAssumption DEF u, v

LEMMA LoopEndInv ==
  ASSUME ArchiveInv, run.pc = "upload", UploadReturns, ~cut' => ~cut,
         UNCHANGED <<mtime, meta, created, run, touched>>
  PROVE  ArchiveInv'
<1> DEFINE u == up
           v == up'
<1>1. /\ u.pc = "loop" /\ u.remaining <= 0
      /\ v = [u EXCEPT !.pc = "ok"]
      /\ UNCHANGED <<file, stored, net, reply>>
  BY DEF UploadReturns
<1>2. /\ HasUpload(u) /\ u.remaining \in 0..Size /\ u.pos \in Nat
      /\ u.psize \in Nat /\ u.n \in Nat /\ u.tries \in Nat
      /\ Size - u.remaining <= Len(stored)
  BY <1>1, UploadFields, SizeAssumption
     DEF ArchiveInv, ArchiveTypes, TypeOK, Progress, Offset
<1> HIDE DEF u, v
<1>3. /\ HasUpload(v) /\ v.pc = "ok" /\ v.remaining = u.remaining
      /\ v.psize = u.psize /\ v.n = u.n /\ v.pos = u.pos /\ v.tries = u.tries
  BY <1>1, <1>2 DEF HasUpload
<1>4. v \in UploadState
  BY <1>2, <1>3, UploadFields, SizeAssumption
<1> QED
  BY <1>1, <1>2, <1>3, <1>4, LoopStep, SizeAssumption DEF u, v

\* An attempt: what is read of a chunk that was not cut is where it belongs.
LEMMA SendStep ==
  ASSUME ArchiveInv, run.pc = "upload", NEW k \in 0..up.n, Send(k),
         cut' = (cut \/ (up.pc = "send" /\ up.n \in 1..(up.psize - 1))),
         UNCHANGED <<mtime, meta, created, run, touched>>
  PROVE  ArchiveInv'
<1> DEFINE u == up
           v == up'
           b == Bytes(up.pos, k)
           q == [offset |-> Offset, body |-> Bytes(up.pos, k),
                 whole |-> k = up.psize, live |-> TRUE]
<1>1. /\ u.pc = "send"
      /\ v = [u EXCEPT !.pc = "wait", !.n = @ - k, !.pos = @ + k, !.tries = @ + 1]
      /\ net' = net \cup {q}
      /\ UNCHANGED <<file, stored, reply>>
  BY DEF Send
<1>2. /\ HasUpload(u) /\ u.remaining \in 0..Size /\ u.pos \in Nat
      /\ u.psize \in 1..u.remaining /\ u.n \in 0..u.psize /\ u.tries \in Nat
      /\ u.pos + u.n = (Size - u.remaining) + u.psize
      /\ Size - u.remaining <= Len(stored)
      /\ Len(stored) \in Nat /\ Len(stored) <= Size
      /\ Offset = Size - u.remaining
  BY <1>1, UploadFields, SizeAssumption, LenProperties
     DEF ArchiveInv, ArchiveTypes, TypeOK, Progress, Offset, Pending
<1>3. /\ k \in Nat /\ k <= u.n /\ u.pos + k <= Size
  <2>1. /\ u.pos \in Nat /\ u.n \in Nat /\ u.psize \in Nat /\ u.remaining \in Nat
        /\ u.psize <= u.remaining
    BY <1>2, SizeAssumption
  <2>2. k \in Nat /\ k <= u.n
    BY <2>1
  <2>3. (Size - u.remaining) + u.psize <= Size
    BY <2>1, SizeAssumption
  <2>4. u.pos + u.n <= Size
    BY <1>2, <2>3
  <2> QED
    BY <2>1, <2>2, <2>4, SizeAssumption
<1>4. /\ b \in Seq(Nat) /\ Len(b) = k
      /\ \A i \in 1..k : b[i] = file[u.pos + i]
  BY <1>2, <1>3, BytesProperties DEF ArchiveInv, ArchiveTypes, TypeOK
<1>5. /\ q.offset = Size - u.remaining /\ q.body = b
      /\ (q.whole => k = u.psize) /\ q.live
  BY <1>2
<1>6. q \in Request
  BY <1>2, <1>4, SizeAssumption DEF Request
<1> HIDE DEF u, v, b, q
<1>7. /\ HasUpload(v) /\ v.pc = "wait" /\ v.remaining = u.remaining
      /\ v.psize = u.psize /\ v.n = u.n - k /\ v.pos = u.pos + k
      /\ v.tries = u.tries + 1
  BY <1>1, <1>2 DEF HasUpload
<1>8. v \in UploadState
  <2>1. /\ u.remaining \in Int /\ u.psize \in Nat /\ u.n \in Nat
        /\ u.pos \in Nat /\ u.tries \in Nat
    BY <1>2, SizeAssumption
  <2>2. k \in Nat /\ k <= u.n
    BY <1>3
  <2>3. v.n \in Nat
    BY <1>7, <2>1, <2>2
  <2>4. v.pos \in Nat
    BY <1>7, <2>1, <2>2
  <2>5. v.tries \in Nat
    BY <1>7, <2>1
  <2>6. v.remaining \in Int /\ v.psize \in Nat
    BY <1>7, <2>1
  <2> QED
    BY <1>7, <2>3, <2>4, <2>5, <2>6, UploadFields
<1>9. /\ Versions' /\ ResumedComplete' /\ (Current' <=> Current)
      /\ run' \in RunState /\ mtime' \in Nat \ {0}
      /\ meta' \in [mtime: Nat, art: Nat] /\ created' \in Nat
  BY RunRests
<1>10. ArchiveTypes'
  BY <1>1, <1>6, <1>8, <1>9 DEF ArchiveInv, ArchiveTypes, TypeOK, v
<1>11. Pending'
  <2>1. Len(q.body) = k /\ q.offset <= Len(stored)
    BY <1>2, <1>4, <1>5
  <2>2. k <= u.remaining
    BY <1>2, <1>3
  <2>3. (Size - u.remaining) + k <= Size
    BY <1>2, <1>3, <2>2, SizeAssumption
  <2>4. q.offset + Len(q.body) <= Size
    BY <1>5, <2>1, <2>3
  <2> QED
    BY <1>1, <2>1, <2>4 DEF ArchiveInv, Pending
<1>12. Progress'
  <2>1. v.remaining \in 0..Size /\ v.psize \in 1..v.remaining
    BY <1>2, <1>7
  <2>2. u.pos \in Int /\ u.n \in Int /\ k \in Int
    BY <1>2, <1>3, SizeAssumption
  <2>3. v.n <= v.psize
    BY <1>2, <1>3, <1>7, SizeAssumption
  <2>4. v.pos + v.n = u.pos + u.n
    BY <1>7, <2>2
  <2>5. Offset' = Size - v.remaining /\ Offset' = Size - u.remaining
    BY <1>7 DEF Offset, v
  <2>6. v.pos + v.n = Offset' + v.psize /\ Offset' <= Len(stored')
    BY <1>1, <1>2, <1>7, <2>4, <2>5
  <2>7. run'.pc = "upload"
    OBVIOUS
  <2> QED
    BY <1>7, <2>1, <2>3, <2>6, <2>7 DEF Progress, v
<1>13. Waiting'
  <2>1. reply = NoReply /\ \A r \in net : ~r.live
    BY <1>1 DEF ArchiveInv, Waiting, u
  <2>2. Offset' = Size - u.remaining /\ v.psize = u.psize
    BY <1>7 DEF Offset, v
  <2>3. q.whole => Len(q.body) = v.psize /\ v.n = 0
    BY <1>2, <1>3, <1>4, <1>5, <1>7
  <2>4. \A r \in net' : r.live => r = q
    BY <1>1, <2>1
  <2>5. reply' = NoReply /\ ~IsSuccess(reply')
    BY <1>1, <2>1 DEF IsSuccess, NoReply
  <2> QED
    BY <1>5, <1>7, <2>2, <2>3, <2>4, <2>5 DEF Waiting, v
<1>14. OfArchive'
  <2> SUFFICES ASSUME Current, ~cut, u.n \notin 1..(u.psize - 1)
               PROVE  IsFilePrefix(stored) /\ \A r \in net' : Carries(r)
    BY <1>1, <1>9 DEF OfArchive, Carries, IsFilePrefix, u
  <2>1. IsFilePrefix(stored) /\ \A r \in net : Carries(r)
    BY DEF ArchiveInv, OfArchive
  <2>2. k = 0 \/ u.pos = q.offset
    <3>1. u.n = 0 \/ u.n = u.psize
      BY <1>2
    <3>2. CASE u.n = 0
      BY <1>3, <3>2
    <3>3. CASE u.n = u.psize
      BY <1>2, <1>5, <3>3, SizeAssumption
    <3> QED
      BY <3>1, <3>2, <3>3
  <2>3. Carries(q)
    BY <1>3, <1>4, <1>5, <2>2 DEF Carries
  <2> QED
    BY <1>1, <2>1, <2>3
<1> QED
  BY <1>9, <1>10, <1>11, <1>12, <1>13, <1>14 DEF ArchiveInv

\* What is left of the requests of an attempt that is over.
LEMMA Leftovers ==
  ASSUME ArchiveInv, net' = Abandoned(net)
  PROVE  /\ net' \subseteq Request
         /\ \A r \in net' : ~r.live
         /\ \A r \in net' : r.offset <= Len(stored) /\ r.offset + Len(r.body) <= Size
         /\ Current /\ ~cut => \A r \in net' : Carries(r)
<1> SUFFICES ASSUME NEW r \in net'
             PROVE  /\ r \in Request /\ ~r.live
                    /\ r.offset <= Len(stored) /\ r.offset + Len(r.body) <= Size
                    /\ Current /\ ~cut => Carries(r)
  BY Zenon
<1>1. /\ r \in Request /\ ~r.live
      /\ \E q \in net : r.offset = q.offset /\ r.body = q.body
  BY AbandonedRequests DEF ArchiveInv, ArchiveTypes, TypeOK
<1>2. PICK q \in net : r.offset = q.offset /\ r.body = q.body
  BY <1>1
<1> QED
  BY <1>1, <1>2 DEF ArchiveInv, Pending, OfArchive, Carries

\* An attempt that is over, whatever came of it.
LEMMA AttemptOver ==
  ASSUME ArchiveInv, run.pc = "upload",
         UNCHANGED <<mtime, meta, created, run, touched>>,
         UNCHANGED <<file, stored>>, ~cut' => ~cut,
         net' = Abandoned(net), reply' = NoReply,
         up' \in UploadState, up'.pc \in {"loop", "send", "failed"},
         up'.remaining \in 0..Size, Size - up'.remaining <= Len(stored),
         up'.pc = "loop" => up'.pos = Size - up'.remaining,
         up'.pc = "send" =>
           /\ up'.psize \in 1..up'.remaining
           /\ up'.n <= up'.psize
           /\ up'.pos + up'.n = (Size - up'.remaining) + up'.psize
  PROVE  ArchiveInv'
<1>1. /\ Versions' /\ ResumedComplete' /\ (Current' <=> Current)
      /\ run' \in RunState /\ mtime' \in Nat \ {0}
      /\ meta' \in [mtime: Nat, art: Nat] /\ created' \in Nat
  BY RunRests
<1>2. /\ net' \subseteq Request
      /\ \A r \in net' : ~r.live
      /\ \A r \in net' : r.offset <= Len(stored) /\ r.offset + Len(r.body) <= Size
      /\ Current /\ ~cut => \A r \in net' : Carries(r)
  BY Leftovers
<1>3. ArchiveTypes'
  BY <1>1, <1>2 DEF ArchiveInv, ArchiveTypes, TypeOK, NoReply
<1>4. Pending'
  BY <1>2 DEF ArchiveInv, Pending
<1>5. Progress'
  BY DEF Progress, Offset
<1>6. Waiting'
  BY <1>2 DEF Waiting, IsSuccess, NoReply
<1>7. OfArchive'
  BY <1>1, <1>2 DEF ArchiveInv, OfArchive, Carries, IsFilePrefix
<1> QED
  BY <1>1, <1>3, <1>4, <1>5, <1>6, <1>7 DEF ArchiveInv

LEMMA EndOfAttemptInv ==
  ASSUME ArchiveInv, run.pc = "upload", up.pc = "wait",
         NEW pc \in {"send", "failed"}, EndOfAttempt(pc), ~cut' => ~cut,
         UNCHANGED <<mtime, meta, created, run, touched>>
  PROVE  ArchiveInv'
<1> DEFINE u == up
           v == up'
<1>1. /\ u.pc = "wait" /\ v = [u EXCEPT !.pc = pc]
      /\ net' = Abandoned(net) /\ reply' = NoReply
      /\ UNCHANGED <<file, stored>>
  BY DEF EndOfAttempt
<1>2. /\ HasUpload(u) /\ u \in UploadState
      /\ u.remaining \in 0..Size /\ Size - u.remaining <= Len(stored)
      /\ u.psize \in 1..u.remaining /\ u.n <= u.psize
      /\ u.pos + u.n = (Size - u.remaining) + u.psize
  BY <1>1, UploadFields DEF ArchiveInv, ArchiveTypes, TypeOK, Progress, Offset
<1> HIDE DEF u, v
<1>3. /\ HasUpload(v) /\ v.pc = pc /\ v.remaining = u.remaining
      /\ v.psize = u.psize /\ v.n = u.n /\ v.pos = u.pos /\ v.tries = u.tries
  BY <1>1, <1>2 DEF HasUpload
<1>4. v \in UploadState
  BY <1>2, <1>3, UploadFields
<1> QED
  BY <1>1, <1>2, <1>3, <1>4, AttemptOver DEF u, v

LEMMA PatchInv ==
  ASSUME ArchiveInv, run.pc = "upload", PatchReturns, ~cut' => ~cut,
         UNCHANGED <<mtime, meta, created, run, touched>>
  PROVE  ArchiveInv'
<1> DEFINE u == up
           v == up'
<1>1. /\ u.pc = "wait" /\ IsSuccess(reply)
      /\ v = [u EXCEPT !.pc = "loop", !.remaining = @ - (u.psize - u.n)]
      /\ net' = Abandoned(net) /\ reply' = NoReply
      /\ UNCHANGED <<file, stored>>
  BY DEF PatchReturns
<1>2. /\ HasUpload(u) /\ u \in UploadState
      /\ u.remaining \in 0..Size /\ u.psize \in 1..u.remaining
      /\ u.pos + u.n = (Size - u.remaining) + u.psize
      /\ u.n = 0 /\ (Size - u.remaining) + u.psize <= Len(stored)
  BY <1>1, UploadFields DEF ArchiveInv, ArchiveTypes, TypeOK, Progress, Offset, Waiting
<1>3. /\ u.pos \in Nat /\ u.tries \in Nat /\ u.remaining \in Int /\ u.psize \in Nat
      /\ Len(stored) \in Nat
  BY <1>2, UploadFields, LenProperties DEF ArchiveInv, ArchiveTypes, TypeOK
<1> HIDE DEF u, v
<1>4. /\ HasUpload(v) /\ v.pc = "loop"
      /\ v.remaining = u.remaining - (u.psize - u.n)
      /\ v.psize = u.psize /\ v.n = u.n /\ v.pos = u.pos /\ v.tries = u.tries
  BY <1>1, <1>2 DEF HasUpload
<1>5. v.remaining = u.remaining - u.psize
  BY <1>2, <1>3, <1>4
<1>6. v.remaining \in 0..Size /\ v.remaining \in Int
  BY <1>2, <1>3, <1>5, SizeAssumption
<1>7. Size - v.remaining = (Size - u.remaining) + u.psize
  BY <1>3, <1>5, SizeAssumption
<1>8. v.pos = Size - v.remaining /\ Size - v.remaining <= Len(stored)
  BY <1>2, <1>3, <1>4, <1>7
<1>9. v \in UploadState
  BY <1>2, <1>3, <1>4, <1>6, UploadFields
<1> QED
  BY <1>1, <1>4, <1>6, <1>8, <1>9, AttemptOver DEF u, v

LEMMA UploadInvStep == ArchiveInv /\ UploadStep => ArchiveInv'
<1> SUFFICES ASSUME ArchiveInv, UploadStep PROVE ArchiveInv'
  OBVIOUS
<1>1. /\ run.pc = "upload" /\ ClientStep
      /\ cut' = (cut \/ (up.pc = "send" /\ up.n \in 1..(up.psize - 1)))
      /\ UNCHANGED <<mtime, meta, created, run, touched>>
  BY DEF UploadStep
<1>2. ~cut' => ~cut
  BY <1>1, Zenon
<1>3. ASSUME NEW k \in 0..up.n, Send(k) PROVE ArchiveInv'
  BY <1>1, <1>3, SendStep
<1>4. CASE NextChunk
  BY <1>1, <1>2, <1>4, ChunkInv DEF NextChunk
<1>5. CASE UploadReturns
  BY <1>1, <1>2, <1>5, LoopEndInv DEF UploadReturns
<1>6. CASE TransportError \/ RetryableReply \/ PermanentReply
  BY <1>1, <1>2, <1>6, EndOfAttemptInv
     DEF TransportError, RetryableReply, PermanentReply, RetryOrGiveUp
<1>7. CASE PatchReturns
  BY <1>1, <1>2, <1>7, PatchInv DEF PatchReturns
<1> QED
  BY <1>1, <1>3, <1>4, <1>5, <1>6, <1>7 DEF ClientStep, AttemptOutcome

\* The upload has returned.
LEMMA ReturnedInv == ArchiveInv /\ UploadReturned => ArchiveInv'
<1> SUFFICES ASSUME ArchiveInv, UploadReturned PROVE ArchiveInv'
  OBVIOUS
<1> DEFINE r == run
           s == run'
           pc == IF up.pc = "ok" THEN "ok" ELSE "rehead"
<1>1. /\ run.pc = "upload" /\ up.pc \in {"ok", "failed"}
      /\ up' = IdleUpload
      /\ s = [r EXCEPT !.pc = pc]
      /\ UNCHANGED <<file, stored, net, reply, mtime, meta, created, touched, cut>>
  BY DEF UploadReturned
<1>2. /\ HasRun(r) /\ r.mtime \in Nat /\ r.offset \in Nat /\ r.same \in Nat
      /\ r.attempts \in Nat /\ pc \in {"ok", "rehead"}
  BY RunFields DEF ArchiveInv, ArchiveTypes
<1>3. pc = "ok" => Len(stored) = Size
  <2> SUFFICES ASSUME up.pc = "ok" PROVE Len(stored) = Size
    OBVIOUS
  <2>1. Size - 0 <= Len(stored) /\ Len(stored) <= Size
    BY DEF ArchiveInv, Progress, Pending, Offset
  <2>2. Len(stored) \in Nat
    BY LenProperties DEF ArchiveInv, ArchiveTypes, TypeOK
  <2> QED
    BY <2>1, <2>2, SizeAssumption
<1> HIDE DEF r, s, pc
<1>4. /\ HasRun(s) /\ s.pc = pc /\ s.mtime = r.mtime
      /\ s.offset = r.offset /\ s.same = r.same /\ s.attempts = r.attempts
  BY <1>1, <1>2 DEF HasRun
<1>5. s \in RunState
  BY <1>2, <1>4, RunFields
<1>6. IdleUpload \in UploadState /\ IdleUpload.pc = "idle"
  BY DEF IdleUpload, UploadState
<1>7. ArchiveTypes'
  BY <1>1, <1>5, <1>6 DEF ArchiveInv, ArchiveTypes, TypeOK, s
<1>8. Pending'
  BY <1>1 DEF ArchiveInv, Pending
<1>9. Progress'
  BY <1>1, <1>2, <1>4, <1>6 DEF Progress, s
<1>10. reply = NoReply /\ \A q \in net : ~q.live
  BY <1>1 DEF ArchiveInv, Waiting
<1>11. Waiting'
  BY <1>1, <1>6, <1>10 DEF Waiting, IsSuccess, NoReply
<1>12. (Current' => Current) /\ Versions' /\ ResumedComplete'
  BY <1>1, <1>2, <1>3, <1>4 DEF ArchiveInv, Current, Using, Versions, ResumedComplete, r, s
<1>13. OfArchive'
  BY <1>1, <1>12 DEF ArchiveInv, OfArchive, Carries, IsFilePrefix
<1> QED
  BY <1>7, <1>8, <1>9, <1>11, <1>12, <1>13 DEF ArchiveInv

-----------------------------------------------------------------------------
(* Artifacts, kills, changes of the archive and the server                 *)

LEMMA CreateInv == ArchiveInv /\ CreateArtifact => ArchiveInv'
<1> SUFFICES ASSUME ArchiveInv, CreateArtifact PROVE ArchiveInv'
  OBVIOUS
<1>1. CASE Goto("failed")
  BY <1>1, GivesUpInv DEF CreateArtifact
<1>2. CASE ~Goto("failed")
  <2> DEFINE r == run
             s == run'
  <2>1. /\ r.pc = "create"
        /\ created' = created + 1 /\ stored' = <<>> /\ net' = {}
        /\ s = [r EXCEPT !.pc = "record"]
        /\ UNCHANGED <<file, reply, up, mtime, meta, touched>>
    BY <1>2 DEF CreateArtifact
  <2>2. /\ HasRun(r) /\ r.mtime \in Nat /\ r.offset \in Nat /\ r.same \in Nat
        /\ r.attempts \in Nat
    BY RunFields DEF ArchiveInv, ArchiveTypes
  <2>3. up.pc = "idle" /\ reply = NoReply /\ r.offset = 0 /\ meta.mtime # mtime
    BY <2>1 DEF ArchiveInv, Progress, Waiting, Versions
  <2> HIDE DEF r, s
  <2>4. /\ HasRun(s) /\ s.pc = "record" /\ s.mtime = r.mtime
        /\ s.offset = r.offset /\ s.same = r.same /\ s.attempts = r.attempts
    BY <2>1, <2>2 DEF HasRun
  <2>5. s \in RunState
    BY <2>2, <2>4, RunFields
  <2>6. stored' \in Seq(Nat) /\ Len(stored') = 0
    BY <2>1, EmptySeq
  <2>7. ArchiveTypes'
    BY <2>1, <2>5, <2>6 DEF ArchiveInv, ArchiveTypes, TypeOK, s
  <2>8. Pending' /\ Progress'
    BY <2>1, <2>3, <2>4, <2>6, SizeAssumption DEF Pending, Progress, r, s
  <2>9. Waiting'
    BY <2>1, <2>3 DEF Waiting, IsSuccess, NoReply
  <2>10. OfArchive'
    BY <2>1, <2>6, SizeAssumption DEF OfArchive, IsFilePrefix
  <2>11. Versions' /\ ResumedComplete'
    BY <2>1, <2>3, <2>4 DEF ArchiveInv, Versions, ResumedComplete, r, s
  <2> QED
    BY <2>7, <2>8, <2>9, <2>10, <2>11 DEF ArchiveInv
<1> QED
  BY <1>1, <1>2

LEMMA CrashInv == ArchiveInv /\ Crash => ArchiveInv'
<1> SUFFICES ASSUME ArchiveInv, Crash PROVE ArchiveInv'
  OBVIOUS
<1> DEFINE r == run
           s == run'
<1>1. /\ s = [r EXCEPT !.pc = "idle"] /\ r.pc # "idle"
      /\ up' = IdleUpload /\ net' = Abandoned(net) /\ reply' = NoReply
      /\ UNCHANGED <<file, stored, mtime, meta, created, touched, cut>>
  BY DEF Crash
<1>2. /\ HasRun(r) /\ r.mtime \in Nat /\ r.offset \in Nat /\ r.same \in Nat
      /\ r.attempts \in Nat
  BY RunFields DEF ArchiveInv, ArchiveTypes
<1> HIDE DEF r, s
<1>3. /\ HasRun(s) /\ s.pc = "idle" /\ s.mtime = r.mtime
      /\ s.offset = r.offset /\ s.same = r.same /\ s.attempts = r.attempts
  BY <1>1, <1>2 DEF HasRun
<1>4. s \in RunState
  BY <1>2, <1>3, RunFields
<1>5. IdleUpload \in UploadState /\ IdleUpload.pc = "idle"
  BY DEF IdleUpload, UploadState
<1>6. /\ net' \subseteq Request
      /\ \A q \in net' : ~q.live
      /\ \A q \in net' : q.offset <= Len(stored) /\ q.offset + Len(q.body) <= Size
      /\ Current /\ ~cut => \A q \in net' : Carries(q)
  BY <1>1, Leftovers
<1>7. ArchiveTypes'
  BY <1>1, <1>4, <1>5, <1>6 DEF ArchiveInv, ArchiveTypes, TypeOK, s, NoReply
<1>8. Pending'
  BY <1>1, <1>6 DEF ArchiveInv, Pending
<1>9. Progress'
  BY <1>1, <1>3, <1>5 DEF Progress, s
<1>10. Waiting'
  BY <1>1, <1>5, <1>6 DEF Waiting, IsSuccess, NoReply
<1>11. (Current' => Current) /\ Versions' /\ ResumedComplete'
  BY <1>1, <1>3 DEF ArchiveInv, Current, Using, Versions, ResumedComplete, r, s
<1>12. OfArchive'
  BY <1>1, <1>6, <1>11 DEF ArchiveInv, OfArchive, Carries, IsFilePrefix
<1> QED
  BY <1>7, <1>8, <1>9, <1>10, <1>11, <1>12 DEF ArchiveInv

\* After a change neither the meta file nor a run is about the archive any more.
LEMMA ModifyInv == ArchiveInv /\ Modify => ArchiveInv'
<1> SUFFICES ASSUME ArchiveInv, Modify PROVE ArchiveInv'
  OBVIOUS
<1>1. /\ mtime' = mtime + 1 /\ file' = Archive(mtime + 1) /\ touched'
      /\ UNCHANGED <<stored, net, reply, up, meta, created, run, cut>>
  BY DEF Modify
<1>2. mtime \in Nat /\ meta.mtime \in Nat /\ run.mtime \in Nat
  BY RunFields DEF ArchiveInv, ArchiveTypes
<1>3. mtime * Size \in Nat
  BY <1>2, SizeAssumption
<1>4. file' \in [1..Size -> Nat]
  <2>1. \A i \in 1..Size : mtime * Size + i \in Nat
    BY <1>3, SizeAssumption
  <2>2. (mtime + 1) - 1 = mtime
    BY <1>2
  <2> QED
    BY <1>1, <2>1, <2>2 DEF Archive
<1>5. ArchiveTypes'
  BY <1>1, <1>2, <1>4 DEF ArchiveInv, ArchiveTypes, TypeOK
<1>6. Pending' /\ Progress' /\ ResumedComplete'
  BY <1>1 DEF ArchiveInv, Pending, Progress, ResumedComplete, Offset
<1>7. Waiting'
  BY <1>1 DEF ArchiveInv, Waiting, Offset
<1>8. Versions' /\ ~Current'
  BY <1>1, <1>2 DEF ArchiveInv, Versions, Current
<1> QED
  BY <1>5, <1>6, <1>7, <1>8 DEF ArchiveInv, OfArchive

\* The server takes t from the body of a request that continues the artifact.
LEMMA TakeInv ==
  ASSUME ArchiveInv, NEW r \in net, r.offset = Len(stored),
         NEW t \in Seq(Nat), Len(t) <= Len(r.body),
         \A i \in 1..Len(t) : t[i] = r.body[i],
         NEW code \in Nat, IsSuccess(code) => r.whole /\ Len(t) = Len(r.body),
         stored' = stored \o t, net' = net \ {r}, Answer(r, code),
         UNCHANGED <<file, up, runVars>>
  PROVE  ArchiveInv'
<1>1. /\ r \in Request /\ r.body \in Seq(Nat) /\ r.offset \in Nat
      /\ stored \in Seq(Nat) /\ Len(stored) \in Nat /\ Len(t) \in Nat
      /\ Len(r.body) \in Nat /\ reply \in Nat
  BY LenProperties DEF ArchiveInv, ArchiveTypes, TypeOK, Request
<1>2. /\ stored' \in Seq(Nat) /\ Len(stored') = Len(stored) + Len(t)
  BY <1>1, ConcatProperties
<1>3. /\ Len(stored') \in Nat /\ Len(stored) <= Len(stored') /\ Len(stored') <= Size
  BY <1>1, <1>2, SizeAssumption DEF ArchiveInv, Pending
<1>4. reply' \in Nat /\ (reply' = reply \/ (r.live /\ reply' = code))
  BY <1>1 DEF Answer
<1>5. ArchiveTypes'
  BY <1>2, <1>4 DEF ArchiveInv, ArchiveTypes, TypeOK, runVars
<1>6. Pending'
  BY <1>1, <1>3 DEF ArchiveInv, Pending, ArchiveTypes, TypeOK, Request
<1>7. Progress'
  <2>1. run'.pc = run.pc /\ run'.offset = run.offset /\ up' = up
    BY DEF runVars
  <2>2. run.pc = "open" => run.offset <= Len(stored')
    BY <1>1, <1>3, RunFields DEF ArchiveInv, Progress, ArchiveTypes
  <2>3. up.pc # "idle" => Offset <= Len(stored')
    <3>1. up.remaining \in Int
      BY UploadFields DEF ArchiveInv, ArchiveTypes, TypeOK
    <3> QED
      BY <1>1, <1>3, <3>1, SizeAssumption DEF ArchiveInv, Progress, Offset
  <2> QED
    BY <2>1, <2>2, <2>3 DEF ArchiveInv, Progress, Offset
<1>8. Waiting'
  <2>1. r.live => \A q \in net' : ~q.live
    BY DEF ArchiveInv, Waiting
  <2>2. r.live => up.pc = "wait"
    BY DEF ArchiveInv, Waiting
  <2>3. IsSuccess(reply') => up.n = 0 /\ Offset + up.psize <= Len(stored')
    <3>1. CASE reply' = reply
      <4> SUFFICES ASSUME IsSuccess(reply) PROVE up.n = 0 /\ Offset + up.psize <= Len(stored')
        BY <3>1
      <4>1. up.n = 0 /\ Offset + up.psize <= Len(stored)
        BY DEF ArchiveInv, Waiting
      <4>2. Offset \in Int /\ up.psize \in Nat
        BY UploadFields, SizeAssumption DEF ArchiveInv, ArchiveTypes, TypeOK, Offset
      <4> QED
        BY <1>1, <1>3, <4>1, <4>2
    <3>2. CASE r.live /\ reply' = code
      <4> SUFFICES ASSUME IsSuccess(code) PROVE up.n = 0 /\ Offset + up.psize <= Len(stored')
        BY <3>2
      <4>1. r.offset = Offset /\ Len(r.body) = up.psize /\ up.n = 0
        BY <3>2 DEF ArchiveInv, Waiting
      <4> QED
        BY <1>1, <1>2, <4>1
    <3> QED
      BY <1>4, <3>1, <3>2
  <2>4. up'.pc = up.pc /\ Offset' = Offset /\ up' = up
    BY DEF Offset
  <2>5. reply' # reply => r.live
    BY <1>4
  <2> QED
    BY <2>1, <2>2, <2>3, <2>4, <2>5 DEF ArchiveInv, Waiting
<1>9. Versions' /\ ResumedComplete' /\ (Current' <=> Current)
  <2>1. run.pc = "ok" => Len(stored') = Size
    <3>1. run.pc = "ok" => Len(stored) = Size
      BY DEF ArchiveInv, ResumedComplete
    <3> QED
      BY <1>3, <3>1, SizeAssumption
  <2> QED
    BY <2>1 DEF ArchiveInv, Versions, ResumedComplete, Current, runVars
<1>10. OfArchive'
  <2> SUFFICES ASSUME Current, ~cut
               PROVE  IsFilePrefix(stored') /\ \A q \in net' : Carries(q)
    BY <1>9 DEF OfArchive, Carries, IsFilePrefix, runVars
  <2>1. IsFilePrefix(stored) /\ \A q \in net : Carries(q)
    BY DEF ArchiveInv, OfArchive
  <2>2. \A i \in 1..Len(t) : t[i] = file[Len(stored) + i]
    <3> SUFFICES ASSUME NEW i \in 1..Len(t) PROVE t[i] = file[Len(stored) + i]
      OBVIOUS
    <3>1. i \in 1..Len(r.body) /\ t[i] = r.body[i]
      BY <1>1
    <3>2. r.body[i] = file[r.offset + i]
      BY <2>1, <3>1 DEF Carries
    <3> QED
      BY <3>1, <3>2
  <2>3. IsFilePrefix(stored')
    BY <1>1, <1>2, <1>3, <2>1, <2>2, AppendCopy
  <2> QED
    BY <2>1, <2>3
<1> QED
  BY <1>5, <1>6, <1>7, <1>8, <1>9, <1>10 DEF ArchiveInv

LEMMA RefuseInv ==
  ASSUME ArchiveInv, NEW r \in net, ServerConflict(r), UNCHANGED runVars
  PROVE  ArchiveInv'
<1>1. /\ net' = net \ {r} /\ reply' = IF r.live THEN Conflict ELSE reply
      /\ UNCHANGED <<file, stored, up>>
  BY DEF ServerConflict, Answer
<1>2. Conflict \in Nat /\ ~IsSuccess(Conflict)
  BY DEF Conflict, IsSuccess
<1>3. ArchiveTypes'
  BY <1>1, <1>2 DEF ArchiveInv, ArchiveTypes, TypeOK, runVars
<1>4. Pending' /\ Progress' /\ ResumedComplete' /\ Versions' /\ (Current' <=> Current)
  BY <1>1 DEF ArchiveInv, Pending, Progress, ResumedComplete, Versions, Current,
              Offset, runVars
<1>5. Waiting'
  <2>1. Offset' = Offset /\ up' = up /\ Len(stored') = Len(stored)
    BY <1>1 DEF Offset
  <2>2. r.live => up.pc = "wait" /\ \A q \in net' : ~q.live
    BY <1>1 DEF ArchiveInv, Waiting
  <2> QED
    BY <1>1, <1>2, <2>1, <2>2 DEF ArchiveInv, Waiting
<1>6. OfArchive'
  BY <1>1, <1>4 DEF ArchiveInv, OfArchive, Carries, IsFilePrefix, runVars
<1> QED
  BY <1>3, <1>4, <1>5, <1>6 DEF ArchiveInv

LEMMA ServeInv == ArchiveInv /\ Serve => ArchiveInv'
<1> SUFFICES ASSUME ArchiveInv, NEW r \in net, UNCHANGED runVars,
                    \/ ServerAccepts(r)
                    \/ ServerConflict(r)
                    \/ \E j \in 0..Len(r.body), code \in ErrorCodes \cup {NoReply} :
                         ServerStoresPart(r, j, code)
             PROVE  ArchiveInv'
  BY DEF Serve, ServerStep
<1>1. r.body \in Seq(Nat) /\ Len(r.body) \in Nat
  BY LenProperties DEF ArchiveInv, ArchiveTypes, TypeOK, Request
<1>2. CASE ServerAccepts(r)
  <2>1. NoContent \in Nat
    BY DEF NoContent
  <2> DEFINE t == r.body
  <2>2. /\ t \in Seq(Nat) /\ Len(t) <= Len(r.body) /\ Len(t) = Len(r.body)
        /\ \A i \in 1..Len(t) : t[i] = r.body[i]
    BY <1>1
  <2>3. /\ r.offset = Len(stored) /\ r.whole /\ stored' = stored \o t
        /\ net' = net \ {r} /\ Answer(r, NoContent) /\ UNCHANGED <<file, up>>
    BY <1>2 DEF ServerAccepts
  <2> HIDE DEF t
  <2> QED
    BY <2>1, <2>2, <2>3, TakeInv
<1>3. CASE ServerConflict(r)
  BY <1>3, RefuseInv
<1>4. ASSUME NEW j \in 0..Len(r.body), NEW code \in ErrorCodes \cup {NoReply},
             ServerStoresPart(r, j, code)
      PROVE  ArchiveInv'
  <2>1. code \in Nat /\ ~IsSuccess(code)
    BY CodesAssumption DEF IsSuccess, NoReply
  <2> DEFINE t == SubSeq(r.body, 1, j)
  <2>2. t \in Seq(Nat) /\ Len(t) = j /\ Len(t) <= Len(r.body)
    BY <1>1, PartOfBody
  <2>3. \A i \in 1..Len(t) : t[i] = r.body[i]
    BY <1>1, <2>2, SubSeqProperties
  <2>4. /\ r.offset = Len(stored) /\ stored' = stored \o t /\ net' = net \ {r}
        /\ Answer(r, code) /\ UNCHANGED <<file, up>>
    BY <1>4 DEF ServerStoresPart
  <2> HIDE DEF t
  <2> QED
    BY <2>1, <2>2, <2>3, <2>4, TakeInv
<1> QED
  BY <1>2, <1>3, <1>4

-----------------------------------------------------------------------------
(* The theorems                                                            *)

LEMMA ArchiveStep == ArchiveInv /\ [ResumeNext]_vars => ArchiveInv'
<1> SUFFICES ASSUME ArchiveInv, [ResumeNext]_vars PROVE ArchiveInv'
  OBVIOUS
<1>1. CASE RunStep
  BY <1>1, ReadArtifactInv, CreateInv, RecordMetaInv, FirstOffsetInv, OpenInv,
     UploadInvStep, ReturnedInv, AskOffsetInv, GivesUpInv
     DEF RunStep, OpenFailsOrExhausted, OffsetUnknown
<1>2. CASE UNCHANGED vars
  <2>1. UNCHANGED <<file, stored, net, reply, up, run, mtime, meta, created, touched, cut>>
    BY <1>2 DEF vars, uploadVars, runVars
  <2>2. ArchiveTypes' /\ Pending' /\ Progress' /\ ResumedComplete' /\ Versions'
    BY <2>1 DEF ArchiveInv, ArchiveTypes, TypeOK, Pending, Progress, Offset,
                ResumedComplete, Versions
  <2>3. Waiting' /\ OfArchive'
    BY <2>1 DEF ArchiveInv, Waiting, Offset, OfArchive, Current, Carries, IsFilePrefix
  <2> QED
    BY <2>2, <2>3 DEF ArchiveInv
<1> QED
  BY <1>1, <1>2, BeginRunInv, CrashInv, ModifyInv, ServeInv DEF ResumeNext

\* In every reachable state of the runs of UploadArchiveAsArtifact, killed or
\* not, ArchiveInv tells how the artifact, the requests on their way to it, the
\* UploadMeta file and the run go together.
THEOREM ResumeInductive == ResumeSpec => []ArchiveInv
  BY ArchiveInit, ArchiveStep, PTL DEF ResumeSpec

\* A run that returns without error leaves an artifact of the archive's length.
THEOREM CompleteWhenOk == ResumeSpec => []ResumedComplete
<1>1. ArchiveInv => ResumedComplete
  BY DEF ArchiveInv
<1> QED
  BY <1>1, ResumeInductive, PTL

\* ... which is the archive as it was when the run began, unless a chunk was
\* cut or the archive changed under the run.
THEOREM CopyWhenOk == ResumeSpec => []ResumedCopy
<1>1. ArchiveInv => ResumedCopy
  BY DEF ArchiveInv, OfArchive, Current, Using, Versions, ResumedCopy
<1> QED
  BY <1>1, ResumeInductive, PTL

\* A meta file that matches the archive names the artifact created last, and
\* unless a chunk was cut that artifact holds a prefix of the archive.
THEOREM MetaIsOfLast == ResumeSpec => []MetaNamesLast
<1>1. ArchiveInv => MetaNamesLast
  BY DEF ArchiveInv, OfArchive, Current, Versions, MetaNamesLast
<1> QED
  BY <1>1, ResumeInductive, PTL
=============================================================================
