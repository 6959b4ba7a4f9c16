-------------------------- MODULE TusStreamProofs --------------------------
(***************************************************************************)
(* Proofs about TusStream for every length of the stream, buffer size,     *)
(* retry budget and set of error replies: type correctness, StreamedExact  *)
(* and NeverDeclaredShort.                                                 *)
(***************************************************************************)
EXTENDS TusStream, SequenceTheorems, TLAPS

-----------------------------------------------------------------------------
(* The inductive invariant                                                 *)

\* The server has at least the first len bytes of the stream, in order.
Holds(len) ==
  /\ len <= Len(stored)
  /\ \A i \in 1..len : stored[i] = i

\* Before each read of the stream what was read is what the server has; a
\* buffer in transfer is what was read since.
Counters ==
  /\ up.off \in 0..Total
  /\ up.pc \in {"start", "loop"} => ~up.last
  /\ up.pc = "loop" => up.pos = up.off
  /\ up.pc \in {"send", "wait"} =>
       /\ up.pos = up.off + up.n
       /\ up.pos <= Total
       /\ up.left <= up.n
       /\ IF up.last THEN up.n = 0 /\ up.off = Total ELSE up.n > 0

\* No request, however late, writes beyond what the client has acknowledged,
\* and a length is declared only at the end of the stream.
Requests ==
  \A r \in net :
    /\ r.offset <= up.off
    /\ r.body \in Seq(1..Total)
    /\ r.last => r.offset = Total

\* A request that is waited for is about the current buffer, and if it is
\* complete it carries the buffer from its start.
Live ==
  \A r \in net : r.live =>
    /\ up.pc = "wait"
    /\ r.offset = up.off
    /\ r.last = up.last
    /\ r.whole /\ ~r.last => r.body = Bytes(up.off, up.n)

\* What a reply of success means.
Replied ==
  /\ up.pc # "wait" => reply = None
  /\ IsSuccess(reply.code) =>
       IF up.last THEN declared # Deferred
       ELSE reply.offset = up.off + up.n => Holds(up.off + up.n)

Closed ==
  /\ declared # Deferred => declared = Total /\ IsStream(stored)
  /\ up.pc = "ok" => declared # Deferred

StreamInv ==
  /\ TypeOK
  /\ Counters
  /\ Holds(up.off)
  /\ Requests
  /\ Live
  /\ Replied
  /\ Closed

-----------------------------------------------------------------------------
(* Lemmas about the records and sequences of the model                     *)

USE StreamAssumption

HasFields(u) ==
  u = [pc |-> u.pc, off |-> u.off, n |-> u.n, left |-> u.left,
       pos |-> u.pos, last |-> u.last, tries |-> u.tries]

\* The client's locals, field by field.
LEMMA StateFields ==
  \A u : u \in StreamState <=>
    /\ HasFields(u)
    /\ u.pc \in {"start", "loop", "send", "wait", "ok", "failed"}
    /\ u.off \in Nat /\ u.n \in Nat /\ u.left \in Nat /\ u.pos \in Nat
    /\ u.last \in BOOLEAN
    /\ u.tries \in Nat
BY DEF StreamState, HasFields

\* A part of the stream has its length and the stream's bytes.
LEMMA BytesOfStream ==
  ASSUME NEW first \in Nat, NEW len \in Nat, first + len <= Total
  PROVE  /\ Bytes(first, len) \in Seq(1..Total)
         /\ Len(Bytes(first, len)) = len
         /\ \A i \in 1..len : Bytes(first, len)[i] = first + i
<1>1. \A i \in 1..len : first + i \in 1..Total
  OBVIOUS
<1>2. Bytes(first, len) \in Seq(1..Total)
  BY <1>1, IsASeq DEF Bytes
<1>3. Len(Bytes(first, len)) = len
  BY <1>2, LenProperties DEF Bytes
<1> QED
  BY <1>2, <1>3 DEF Bytes

\* The part of a body that the server stores.
LEMMA PartOfBody ==
  ASSUME NEW b \in Seq(1..Total), NEW j \in 0..Len(b)
  PROVE  /\ SubSeq(b, 1, j) \in Seq(1..Total)
         /\ Len(SubSeq(b, 1, j)) = j
         /\ \A i \in 1..j : SubSeq(b, 1, j)[i] = b[i]
<1>1. Len(b) \in Nat /\ j \in Int
  BY LenProperties
<1>2. \A i \in 1..j : b[i] \in 1..Total
  BY <1>1, ElementOfSeq
<1> QED
  BY <1>1, <1>2, SubSeqProperties

\* Bytes that are appended leave those before them.
LEMMA AppendKeeps ==
  ASSUME NEW s \in Seq(1..Total), NEW t \in Seq(1..Total)
  PROVE  /\ s \o t \in Seq(1..Total)
         /\ Len(s \o t) = Len(s) + Len(t)
         /\ Len(s) <= Len(s \o t)
         /\ \A i \in 1..Len(s) : (s \o t)[i] = s[i]
         /\ \A i \in 1..Len(t) : (s \o t)[Len(s) + i] = t[i]
<1>1. /\ Len(s) \in Nat /\ Len(t) \in Nat
      /\ s \o t \in Seq(1..Total)
      /\ Len(s \o t) = Len(s) + Len(t)
      /\ \A i \in 1..Len(s) + Len(t) :
            (s \o t)[i] = IF i <= Len(s) THEN s[i] ELSE t[i - Len(s)]
  BY ConcatProperties, LenProperties
<1>2. ASSUME NEW i \in 1..Len(t)
      PROVE  (s \o t)[Len(s) + i] = t[i]
  <2>1. Len(s) + i \in 1..Len(s) + Len(t) /\ ~(Len(s) + i <= Len(s))
        /\ (Len(s) + i) - Len(s) = i
    BY <1>1
  <2> QED
    BY <1>1, <2>1
<1> QED
  BY <1>1, <1>2

\* A server that holds as many bytes as it stored, the whole of the stream.
LEMMA HoldsAll ==
  ASSUME stored \in Seq(1..Total), Holds(Total), Len(stored) = Total
  PROVE  IsStream(stored)
<1>1. stored = [i \in 1..Total |-> stored[i]]
  BY LenProperties
<1> QED
  BY <1>1 DEF Holds, IsStream, Bytes

\* Requests that are given up keep all but being waited for.
LEMMA AbandonedRequests ==
  ASSUME net \subseteq Request, NEW r \in Abandoned(net)
  PROVE  /\ r \in Request /\ ~r.live
         /\ \E q \in net : r.offset = q.offset /\ r.body = q.body /\ r.last = q.last
BY DEF Abandoned, Request

-----------------------------------------------------------------------------
(* The initial state and uploadUnknownSize                                 *)

LEMMA InitInv == Init => StreamInv
<1> SUFFICES ASSUME Init PROVE StreamInv
  OBVIOUS
<1>1. PICK offset \in 0..Total :
        /\ stored = Bytes(0, offset)
        /\ up = [pc |-> "start", off |-> offset, n |-> 0, left |-> 0,
                 pos |-> 0, last |-> FALSE, tries |-> 0]
  BY DEF Init
<1>2. declared = Deferred /\ net = {} /\ reply = None
  BY DEF Init
<1>3. /\ stored \in Seq(1..Total) /\ Len(stored) = offset
      /\ \A i \in 1..offset : stored[i] = i
  <2>1. /\ 0 \in Nat /\ offset \in Nat /\ 0 + offset <= Total
        /\ \A i \in 1..offset : 0 + i = i
    OBVIOUS
  <2> QED
    BY <1>1, <2>1, BytesOfStream
<1>4. TypeOK
  BY <1>1, <1>2, <1>3 DEF TypeOK, StreamState, None, NoReply, Deferred
<1>5. Counters /\ Holds(up.off)
  BY <1>1, <1>3 DEF Counters, Holds
<1>6. Requests /\ Live /\ Closed
  BY <1>1, <1>2 DEF Requests, Live, Closed
<1>7. Replied
  BY <1>1, <1>2 DEF Replied, None, IsSuccess
<1> QED
  BY <1>4, <1>5, <1>6, <1>7 DEF StreamInv

\* Whatever the client does by itself, it is the counters that have to agree.
LEMMA ClientMoves ==
  ASSUME StreamInv, UNCHANGED <<stored, declared, net, reply>>,
         up' \in StreamState, Counters',
         up.pc # "wait", up'.pc \notin {"wait", "ok"}, up'.off = up.off
  PROVE  StreamInv'
<1> USE DEF StreamInv
<1>1. TypeOK'
  BY DEF TypeOK
<1>2. Holds(up.off)'
  BY DEF Holds
<1>3. Requests' /\ Live'
  BY DEF Requests, Live
<1>4. Replied'
  BY DEF Replied, None, IsSuccess
<1>5. Closed'
  BY DEF Closed
<1> QED
  BY <1>1, <1>2, <1>3, <1>4, <1>5

\* Discarding what is uploaded.
LEMMA BeginInv == StreamInv /\ Begin => StreamInv'
<1> SUFFICES ASSUME StreamInv, Begin PROVE StreamInv'
  OBVIOUS
<1> DEFINE u == up
           v == up'
<1>1. up \in StreamState /\ up.pc = "start" /\ ~up.last
      /\ up.off \in 0..Total
  BY DEF StreamInv, TypeOK, Counters, Begin
<1>2. HasFields(u) /\ v = [u EXCEPT !.pc = "loop", !.pos = u.off]
  BY <1>1, StateFields DEF Begin
<1> HIDE DEF u, v
<1>3. /\ HasFields(v) /\ v.pc = "loop" /\ v.pos = u.off /\ v.off = u.off
      /\ v.n = u.n /\ v.left = u.left /\ v.last = u.last /\ v.tries = u.tries
  BY <1>2 DEF HasFields
<1>4. up' \in StreamState
  BY <1>1, <1>3, StateFields DEF u, v
<1>5. Counters'
  BY <1>1, <1>3 DEF Counters, u, v
<1> QED
  BY <1>1, <1>3, <1>4, <1>5, ClientMoves DEF Begin, u, v

\* A buffer is read.
LEMMA ReadSomeInv ==
  ASSUME NEW n \in 1..ChunkSize
  PROVE  StreamInv /\ ReadSome(n) => StreamInv'
<1> SUFFICES ASSUME StreamInv, ReadSome(n) PROVE StreamInv'
  OBVIOUS
<1> DEFINE u == up
           v == up'
<1>1. /\ up \in StreamState /\ up.pc = "loop" /\ ~up.last
      /\ up.off \in 0..Total /\ up.pos = up.off /\ up.pos + n <= Total
  BY DEF StreamInv, TypeOK, Counters, ReadSome
<1>2. /\ HasFields(u)
      /\ v = [u EXCEPT !.pc = "send", !.n = n, !.left = n, !.pos = u.pos + n,
                       !.tries = 0]
  BY <1>1, StateFields DEF ReadSome
<1> HIDE DEF u, v
<1>3. /\ HasFields(v) /\ v.pc = "send" /\ v.pos = u.pos + n /\ v.off = u.off
      /\ v.n = n /\ v.left = n /\ v.last = u.last /\ v.tries = 0
  BY <1>2 DEF HasFields
<1>4. up' \in StreamState
  BY <1>1, <1>3, StateFields DEF u, v
<1>5. Counters'
  BY <1>1, <1>3 DEF Counters, u, v
<1> QED
  BY <1>1, <1>3, <1>4, <1>5, ClientMoves DEF ReadSome, u, v

\* The stream's end is found.
LEMMA ReadEOFInv == StreamInv /\ ReadEOF => StreamInv'
<1> SUFFICES ASSUME StreamInv, ReadEOF PROVE StreamInv'
  OBVIOUS
<1> DEFINE u == up
           v == up'
<1>1. /\ up \in StreamState /\ up.pc = "loop"
      /\ up.off \in 0..Total /\ up.off = Total /\ up.pos = Total
  BY DEF StreamInv, TypeOK, Counters, ReadEOF
<1>2. /\ HasFields(u)
      /\ v = [u EXCEPT !.pc = "send", !.n = 0, !.left = 0, !.last = TRUE,
                       !.tries = 0]
  BY <1>1, StateFields DEF ReadEOF
<1> HIDE DEF u, v
<1>3. /\ HasFields(v) /\ v.pc = "send" /\ v.pos = u.pos /\ v.off = u.off
      /\ v.n = 0 /\ v.left = 0 /\ v.last = TRUE /\ v.tries = 0
  BY <1>2 DEF HasFields
<1>n. v.n \in Nat /\ v.n <= 0 /\ v.left \in Nat /\ v.left <= 0 /\ v.tries \in Nat
  BY <1>3
<1>l. v.last /\ v.last \in BOOLEAN
  BY <1>3, Zenon
<1>4. up' \in StreamState
  <2>1. v.pc \in {"start", "loop", "send", "wait", "ok", "failed"}
    BY <1>3
  <2>2. /\ v.off \in Nat /\ v.n \in Nat /\ v.left \in Nat /\ v.pos \in Nat
        /\ v.tries \in Nat
    BY <1>1, <1>3, <1>n DEF u
  <2> QED
    BY <1>3, <1>l, <2>1, <2>2, StateFields, Zenon DEF v
<1>5. Counters'
  BY <1>1, <1>3, <1>l, <1>n DEF Counters, u, v
<1> QED
  BY <1>1, <1>3, <1>4, <1>5, ClientMoves DEF ReadEOF, u, v

\* The stream breaks off.
LEMMA ReadErrorInv == StreamInv /\ ReadError => StreamInv'
<1> SUFFICES ASSUME StreamInv, ReadError PROVE StreamInv'
  OBVIOUS
<1> DEFINE u == up
           v == up'
<1>1. up \in StreamState /\ up.pc = "loop" /\ up.off \in 0..Total
  BY DEF StreamInv, TypeOK, Counters, ReadError
<1>2. HasFields(u) /\ v = [u EXCEPT !.pc = "failed"]
  BY <1>1, StateFields DEF ReadError
<1> HIDE DEF u, v
<1>3. /\ HasFields(v) /\ v.pc = "failed" /\ v.pos = u.pos /\ v.off = u.off
      /\ v.n = u.n /\ v.left = u.left /\ v.last = u.last /\ v.tries = u.tries
  BY <1>2 DEF HasFields
<1>4. up' \in StreamState
  BY <1>1, <1>3, StateFields DEF u, v
<1>5. Counters'
  BY <1>1, <1>3 DEF Counters, u, v
<1> QED
  BY <1>1, <1>3, <1>4, <1>5, ClientMoves DEF ReadError, u, v

-----------------------------------------------------------------------------
(* doWithRetry                                                             *)

\* An attempt sends k bytes of the buffer; if that is all of the buffer, they
\* are its first ones.
LEMMA ExchangeInv ==
  ASSUME StreamInv, NEW first \in Nat, NEW k \in Nat, NEW left \in Nat,
         Exchange(first, k, left),
         left <= up.n, first + k <= up.n
  PROVE  StreamInv'
<1> USE DEF StreamInv
<1> DEFINE u == up
           v == up'
           new == [offset |-> up.off, body |-> Bytes(up.pos - up.n + first, k),
                   whole |-> k = up.n, last |-> up.last, live |-> TRUE]
<1>1. /\ up \in StreamState /\ up.pc = "send" /\ up.off \in 0..Total
      /\ up.n \in Nat /\ up.left \in Nat /\ up.pos \in Nat /\ up.tries \in Nat
      /\ up.last \in BOOLEAN
      /\ up.pos = up.off + up.n /\ up.pos <= Total
      /\ IF up.last THEN up.n = 0 /\ up.off = Total ELSE up.n > 0
  BY StateFields DEF TypeOK, Counters, Exchange
<1>2. /\ HasFields(u)
      /\ v = [u EXCEPT !.pc = "wait", !.left = left, !.tries = u.tries + 1]
  BY <1>1, StateFields DEF Exchange
<1> HIDE DEF u, v
<1>3. /\ HasFields(v) /\ v.pc = "wait" /\ v.pos = u.pos /\ v.off = u.off
      /\ v.n = u.n /\ v.left = left /\ v.last = u.last /\ v.tries = u.tries + 1
  BY <1>2 DEF HasFields
<1>4. up' \in StreamState
  BY <1>1, <1>3, StateFields DEF u, v
<1>5. Counters'
  BY <1>1, <1>3 DEF Counters, u, v
<1>6. /\ net' = net \cup {new}
      /\ UNCHANGED <<stored, declared, reply>>
  BY DEF Exchange
<1>7. /\ Bytes(up.pos - up.n + first, k) \in Seq(1..Total)
      /\ up.pos - up.n + first = up.off + first
  <2>1. /\ up.pos - up.n + first = up.off + first
        /\ up.off + first \in Nat /\ (up.off + first) + k <= Total
    BY <1>1
  <2> QED
    BY <2>1, BytesOfStream
<1>8. /\ new \in Request
      /\ new.offset = up.off /\ new.last = up.last
      /\ new.body = Bytes(up.off + first, k)
      /\ new.whole = (k = up.n)
  <2>1. Bytes(up.off + first, k) \in Seq(Nat)
    BY <1>7
  <2> QED
    BY <1>1, <1>7, <2>1 DEF Request
<1>w. new.whole => k = up.n
  OBVIOUS
<1> HIDE DEF new
<1>9. TypeOK'
  BY <1>4, <1>6, <1>8 DEF TypeOK
<1>10. Holds(up.off)'
  BY <1>3, <1>6 DEF Holds, u, v
<1>11. Requests'
  BY <1>1, <1>3, <1>6, <1>7, <1>8 DEF Requests, u, v
<1>12. Live'
  <2> SUFFICES ASSUME NEW r \in net', r.live
               PROVE  /\ up'.pc = "wait" /\ r.offset = up'.off /\ r.last = up'.last
                      /\ r.whole /\ ~r.last => r.body = Bytes(up'.off, up'.n)
    BY DEF Live
  <2>1. r = new
    BY <1>1, <1>6 DEF Live
  <2>2. ASSUME new.whole
        PROVE  new.body = Bytes(up.off, up.n)
    <3>1. k = up.n
      BY <1>w, <2>2
    <3>2. first = 0
      <4>1. up.n \in Nat /\ first + up.n <= up.n
        BY <1>1, <3>1
      <4> QED
        BY <4>1
    <3>3. up.off + first = up.off
      BY <1>1, <3>2
    <3> QED
      BY <1>8, <3>1, <3>3
  <2> QED
    BY <1>3, <1>8, <2>1, <2>2 DEF u, v
<1>13. Replied'
  BY <1>1, <1>3, <1>6 DEF Replied, None, IsSuccess, u, v
<1>14. Closed'
  BY <1>3, <1>6 DEF Closed, v
<1> QED
  BY <1>5, <1>9, <1>10, <1>11, <1>12, <1>13, <1>14

\* The attempts of doWithRetry: on from where the last one stopped reading,
\* or from the start of the buffer.
LEMMA SendInv ==
  ASSUME StreamInv, NEW k \in 0..up.n, SendUnread(k) \/ SendRewound(k)
  PROVE  StreamInv'
<1>1. /\ up.n \in Nat /\ up.left \in Nat /\ up.pc = "send" /\ up.left <= up.n
  BY StateFields DEF StreamInv, TypeOK, Counters, SendUnread, SendRewound, Exchange
<1>2. CASE SendUnread(k)
  <2>1. k \in 0..up.left /\ Exchange(up.n - up.left, k, up.left - k)
    BY <1>2 DEF SendUnread
  <2>2. /\ up.n - up.left \in Nat /\ k \in Nat /\ up.left - k \in Nat
        /\ up.left - k <= up.n /\ (up.n - up.left) + k <= up.n
    BY <1>1, <2>1
  <2> QED
    BY <2>1, <2>2, ExchangeInv
<1>3. CASE SendRewound(k)
  <2>1. Exchange(0, k, 0)
    BY <1>3 DEF SendRewound
  <2>2. 0 \in Nat /\ k \in Nat /\ 0 <= up.n /\ 0 + k <= up.n
    BY <1>1
  <2> QED
    BY <2>1, <2>2, ExchangeInv
<1> QED
  BY <1>2, <1>3

\* What the end of an attempt leaves behind, whatever the client makes of it.
LEMMA AttemptEnds ==
  ASSUME StreamInv, EndOfAttempt(up'), up' \in StreamState,
         up'.pc # "wait", up.off <= up'.off, Counters', Holds(up'.off),
         up'.pc = "ok" => declared # Deferred
  PROVE  StreamInv'
<1> USE DEF StreamInv
<1>1. /\ net' = Abandoned(net) /\ reply' = None
      /\ UNCHANGED <<stored, declared>>
  BY DEF EndOfAttempt
<1>2. \A r \in net' :
        /\ r \in Request /\ ~r.live
        /\ \E q \in net : r.offset = q.offset /\ r.body = q.body /\ r.last = q.last
  BY <1>1, AbandonedRequests DEF TypeOK
<1>3. TypeOK'
  BY <1>1, <1>2 DEF TypeOK, None, NoReply
<1>4. Holds(up.off)'
  BY <1>1 DEF Holds
<1>5. Requests'
  <2> SUFFICES ASSUME NEW r \in net'
               PROVE  /\ r.offset <= up'.off
                      /\ r.body \in Seq(1..Total)
                      /\ r.last => r.offset = Total
    BY DEF Requests
  <2>1. PICK q \in net : r.offset = q.offset /\ r.body = q.body /\ r.last = q.last
    BY <1>2
  <2>2. /\ q.offset <= up.off /\ q.body \in Seq(1..Total)
        /\ q.last => q.offset = Total
    BY DEF Requests
  <2>3. q.offset \in Nat /\ up.off \in Nat /\ up'.off \in Nat
    BY StateFields DEF TypeOK, Request
  <2>4. r.offset <= up'.off
    BY <2>1, <2>2, <2>3
  <2> QED
    BY <2>1, <2>2, <2>4
<1>6. Live'
  BY <1>2 DEF Live
<1>7. Replied'
  BY <1>1 DEF Replied, None, IsSuccess
<1>8. Closed'
  BY <1>1 DEF Closed
<1> QED
  BY <1>3, <1>4, <1>5, <1>6, <1>7, <1>8

\* A failed attempt is repeated, or the call gives up.
LEMMA RetryInv ==
  ASSUME StreamInv, up.pc = "wait", NEW pc \in {"send", "failed"},
         EndOfAttempt([up EXCEPT !.pc = pc])
  PROVE  StreamInv'
<1> DEFINE u == up
           v == up'
<1>1. up \in StreamState /\ up.off \in 0..Total /\ Counters /\ Holds(up.off)
  BY DEF StreamInv, TypeOK, Counters
<1>2. HasFields(u) /\ v = [u EXCEPT !.pc = pc]
  BY <1>1, StateFields DEF EndOfAttempt
<1> HIDE DEF u, v
<1>3. /\ HasFields(v) /\ v.pc = pc /\ v.pos = u.pos /\ v.off = u.off
      /\ v.n = u.n /\ v.left = u.left /\ v.last = u.last /\ v.tries = u.tries
  BY <1>2 DEF HasFields
<1>4. up' \in StreamState
  BY <1>1, <1>3, StateFields DEF u, v
<1>5. Counters'
  BY <1>1, <1>3 DEF Counters, u, v
<1>6. up'.off = up.off /\ up'.pc \notin {"wait", "ok"} /\ EndOfAttempt(up')
  BY <1>3 DEF EndOfAttempt, u, v
<1>7. up.off <= up'.off /\ Holds(up'.off)
  BY <1>1, <1>6
<1> QED
  BY <1>4, <1>5, <1>6, <1>7, AttemptEnds

\* The reply to a buffer: only at the offset it should lead to the loop goes on.
LEMMA ChunkReplyInv == StreamInv /\ ChunkReply => StreamInv'
<1> SUFFICES ASSUME StreamInv, ChunkReply PROVE StreamInv'
  OBVIOUS
<1>1. CASE reply.offset = up.off + up.n
  <2> DEFINE u == up
             v == up'
             off == up.off + up.n
  <2>1. /\ up \in StreamState /\ up.off \in 0..Total
        /\ up.n \in Nat /\ up.pos = up.off + up.n /\ up.pos <= Total
        /\ ~up.last
    BY StateFields DEF StreamInv, TypeOK, Counters, ChunkReply
  <2>2. Holds(off)
    BY <1>1 DEF StreamInv, Replied, ChunkReply
  <2>3. HasFields(u) /\ v = [u EXCEPT !.pc = "loop", !.off = off]
    BY <1>1, <2>1, StateFields DEF ChunkReply, EndOfAttempt
  <2> HIDE DEF u, v
  <2>4. /\ HasFields(v) /\ v.pc = "loop" /\ v.pos = u.pos /\ v.off = off
        /\ v.n = u.n /\ v.left = u.left /\ v.last = u.last /\ v.tries = u.tries
    BY <2>3 DEF HasFields
  <2>5. up' \in StreamState
    BY <2>1, <2>4, StateFields DEF u, v
  <2>6. Counters'
    BY <2>1, <2>4 DEF Counters, u, v
  <2>7. EndOfAttempt(up')
    BY DEF ChunkReply, EndOfAttempt
  <2>8. up.off <= up'.off /\ Holds(up'.off) /\ up'.pc = "loop"
    BY <2>1, <2>2, <2>4 DEF u, v
  <2> QED
    BY <2>5, <2>6, <2>7, <2>8, AttemptEnds
<1>2. CASE reply.offset # up.off + up.n
  BY <1>2, RetryInv DEF ChunkReply
<1> QED
  BY <1>1, <1>2

\* The reply to the last PATCH: the length is declared by then.
LEMMA LastReplyInv == StreamInv /\ LastReply => StreamInv'
<1> SUFFICES ASSUME StreamInv, LastReply PROVE StreamInv'
  OBVIOUS
<1> DEFINE u == up
           v == up'
<1>1. up \in StreamState /\ up.off \in 0..Total /\ Holds(up.off)
  BY DEF StreamInv, TypeOK, Counters
<1>2. declared # Deferred
  BY DEF StreamInv, Replied, LastReply
<1>3. HasFields(u) /\ v = [u EXCEPT !.pc = "ok"]
  BY <1>1, StateFields DEF LastReply, EndOfAttempt
<1> HIDE DEF u, v
<1>4. /\ HasFields(v) /\ v.pc = "ok" /\ v.pos = u.pos /\ v.off = u.off
      /\ v.n = u.n /\ v.left = u.left /\ v.last = u.last /\ v.tries = u.tries
  BY <1>3 DEF HasFields
<1>5. up' \in StreamState
  BY <1>1, <1>4, StateFields DEF u, v
<1>6. Counters'
  BY <1>1, <1>4 DEF Counters, u, v
<1>7. EndOfAttempt(up')
  BY DEF LastReply, EndOfAttempt
<1>8. up.off <= up'.off /\ Holds(up'.off) /\ up'.pc = "ok"
  BY <1>1, <1>4 DEF u, v
<1> QED
  BY <1>2, <1>5, <1>6, <1>7, <1>8, AttemptEnds

-----------------------------------------------------------------------------
(* The TUS server                                                          *)

\* A request is served by storing the first j bytes of its body, if it is at
\* the end of what is stored, and answered.
LEMMA ServedInv ==
  ASSUME StreamInv, NEW r \in net, Served(r),
         declared' # declared => declared' = Total /\ IsStream(stored),
         declared' # Deferred => UNCHANGED stored,
         stored' \in Seq(1..Total), Len(stored) <= Len(stored'),
         \A i \in 1..Len(stored) : stored'[i] = stored[i],
         reply' # reply =>
           /\ r.live
           /\ reply'.code \in Nat /\ reply'.offset \in Nat
           /\ reply' = [code |-> reply'.code, offset |-> reply'.offset]
           /\ IsSuccess(reply'.code) =>
                IF up.last THEN declared' # Deferred
                ELSE reply'.offset = up.off + up.n =>
                       /\ up.off + up.n <= Len(stored')
                       /\ \A i \in 1..up.off + up.n : stored'[i] = i
  PROVE  StreamInv'
<1>0. TypeOK /\ Counters /\ Holds(up.off) /\ Requests /\ Live /\ Replied /\ Closed
  BY DEF StreamInv
<1>1. /\ up' = up /\ net' \subseteq net
      /\ up.off \in 0..Total /\ up.n \in Nat
      /\ Len(stored) \in Nat /\ Len(stored') \in Nat
  <2>1. up' = up /\ net' \subseteq net
    BY DEF Served
  <2>2. up \in StreamState /\ up.off \in 0..Total /\ stored \in Seq(1..Total)
    BY <1>0 DEF TypeOK, Counters
  <2>3. up.n \in Nat
    BY <2>2, StateFields
  <2>4. Len(stored) \in Nat /\ Len(stored') \in Nat
    BY <2>2, LenProperties
  <2> QED
    BY <2>1, <2>2, <2>3, <2>4
<1>2. ASSUME NEW len \in Nat, Holds(len)
      PROVE  len <= Len(stored') /\ \A i \in 1..len : stored'[i] = i
  <2>1. len <= Len(stored) /\ \A i \in 1..len : stored[i] = i
    BY <1>2 DEF Holds
  <2>2. len <= Len(stored') /\ \A i \in 1..len : i \in 1..Len(stored)
    BY <1>1, <2>1
  <2> QED
    BY <2>1, <2>2
<1>3. declared' \in Nat \cup {Deferred}
  <2>1. declared \in Nat \cup {Deferred} /\ Total \in Nat
    BY <1>0 DEF TypeOK
  <2>2. declared' = declared \/ declared' = Total
    OBVIOUS
  <2> QED
    BY <2>1, <2>2
<1>4. TypeOK'
  <2>1. reply' \in [code: Nat, offset: Nat]
    BY <1>0 DEF TypeOK
  <2> QED
    BY <1>0, <1>1, <1>3, <2>1 DEF TypeOK
<1>5. Counters'
  BY <1>0, <1>1 DEF Counters
<1>6. Holds(up.off)'
  <2>1. up.off <= Len(stored') /\ \A i \in 1..up.off : stored'[i] = i
    BY <1>0, <1>1, <1>2
  <2> QED
    BY <1>1, <2>1 DEF Holds
<1>7. Requests' /\ Live'
  BY <1>0, <1>1 DEF Requests, Live
<1>8. Replied'
  <2>1. up.pc # "wait" => reply' = None
    BY <1>0 DEF Replied, Live
  <2>2. CASE reply' = reply
    <3>1. declared # Deferred => declared' # Deferred
      BY <1>0 DEF Closed, Deferred
    <3>2. up.off + up.n \in Nat
      BY <1>1
    <3> QED
      BY <1>0, <1>1, <1>2, <2>1, <2>2, <3>1, <3>2 DEF Replied, Holds
  <2>3. CASE reply' # reply
    BY <1>0, <1>1, <2>1, <2>3 DEF Replied, Holds
  <2> QED
    BY <2>2, <2>3
<1>9. Closed'
  <2>1. declared # Deferred => declared' # Deferred
    BY <1>0 DEF Closed, Deferred
  <2> QED
    BY <1>0, <1>1, <2>1 DEF Closed, IsStream
<1> QED
  BY <1>4, <1>5, <1>6, <1>7, <1>8, <1>9 DEF StreamInv

\* What a part of a body leaves of what was stored before.
LEMMA StoredPart ==
  ASSUME StreamInv, NEW r \in net, NEW j \in 0..Len(r.body),
         stored' = stored \o SubSeq(r.body, 1, j)
  PROVE  /\ stored' \in Seq(1..Total)
         /\ Len(stored) <= Len(stored')
         /\ Len(stored') = Len(stored) + j
         /\ \A i \in 1..Len(stored) : stored'[i] = stored[i]
         /\ \A i \in 1..j : stored'[Len(stored) + i] = r.body[i]
<1> DEFINE part == SubSeq(r.body, 1, j)
<1>1. r.body \in Seq(1..Total) /\ stored \in Seq(1..Total)
  BY DEF StreamInv, Requests, TypeOK
<1>2. /\ part \in Seq(1..Total) /\ Len(part) = j
      /\ \A i \in 1..j : part[i] = r.body[i]
  BY <1>1, PartOfBody
<1>3. stored' = stored \o part
  OBVIOUS
<1> HIDE DEF part
<1>4. /\ stored \o part \in Seq(1..Total)
      /\ Len(stored \o part) = Len(stored) + Len(part)
      /\ Len(stored) <= Len(stored \o part)
      /\ \A i \in 1..Len(stored) : (stored \o part)[i] = stored[i]
      /\ \A i \in 1..Len(part) : (stored \o part)[Len(stored) + i] = part[i]
  BY <1>1, <1>2, AppendKeeps
<1> QED
  BY <1>2, <1>3, <1>4

LEMMA AcceptsInv ==
  ASSUME StreamInv, NEW r \in net, NEW j \in 0..Len(r.body), ServerAccepts(r, j)
  PROVE  StreamInv'
<1>1. /\ r.offset = Len(stored) /\ declared = Deferred /\ declared' = declared
      /\ r.whole /\ ~r.last /\ Served(r)
      /\ reply' = IF r.live THEN [code |-> NoContent, offset |-> r.offset + j]
                  ELSE reply
      /\ stored' = stored \o SubSeq(r.body, 1, j)
  BY DEF ServerAccepts, Takes, Answer
<1>2. /\ stored' \in Seq(1..Total)
      /\ Len(stored) <= Len(stored')
      /\ Len(stored') = Len(stored) + j
      /\ \A i \in 1..Len(stored) : stored'[i] = stored[i]
      /\ \A i \in 1..j : stored'[Len(stored) + i] = r.body[i]
  BY <1>1, StoredPart
<1>3. r \in Request /\ r.offset \in Nat /\ Len(r.body) \in Nat /\ j \in Nat
      /\ Len(stored) \in Nat
  BY LenProperties DEF StreamInv, TypeOK, Request
<1>4. ASSUME r.live, r.offset + j = up.off + up.n
      PROVE  /\ up.off + up.n <= Len(stored')
             /\ \A i \in 1..up.off + up.n : stored'[i] = i
  <2>1. /\ r.offset = up.off /\ r.body = Bytes(up.off, up.n) /\ up.pc = "wait"
    BY <1>1, <1>4 DEF StreamInv, Live
  <2>2. /\ up.off \in Nat /\ up.n \in Nat /\ up.off + up.n <= Total
        /\ Holds(up.off)
    BY <2>1, StateFields DEF StreamInv, TypeOK, Counters
  <2>3. j = up.n /\ Len(stored) = up.off
    BY <1>1, <1>3, <1>4, <2>1, <2>2
  <2>4. \A i \in 1..up.n : r.body[i] = up.off + i
    BY <2>1, <2>2, BytesOfStream
  <2>5. ASSUME NEW i \in 1..up.off + up.n
        PROVE  stored'[i] = i
    <3>1. CASE i <= up.off
      BY <1>2, <2>2, <2>3, <3>1 DEF Holds
    <3>2. CASE i > up.off
      <4>1. i - up.off \in 1..up.n /\ up.off + (i - up.off) = i
        BY <2>2, <3>2
      <4>2. /\ stored'[up.off + (i - up.off)] = r.body[i - up.off]
            /\ r.body[i - up.off] = up.off + (i - up.off)
        BY <1>2, <2>3, <2>4, <4>1
      <4> QED
        BY <4>1, <4>2
    <3> QED
      BY <2>2, <3>1, <3>2
  <2> QED
    BY <1>2, <2>3, <2>5
<1>5. ASSUME r.live
      PROVE  ~up.last
  BY <1>1, <1>5 DEF StreamInv, Live
<1>6. ASSUME reply' # reply
      PROVE  /\ r.live
             /\ reply'.code = NoContent /\ reply'.offset = r.offset + j
             /\ reply' = [code |-> reply'.code, offset |-> reply'.offset]
  BY <1>1, <1>6
<1>7. NoContent \in Nat /\ r.offset + j \in Nat
  BY <1>3 DEF NoContent
<1> QED
  BY <1>1, <1>2, <1>4, <1>5, <1>6, <1>7, ServedInv

\* A request for the end of the stream finds all of it, or is too early.
LEMMA ClosesInv ==
  ASSUME StreamInv, NEW r \in net, ServerCloses(r)
  PROVE  StreamInv'
<1>1. /\ r.last /\ r.offset = Len(stored) /\ declared' = r.offset
      /\ stored' = stored /\ Served(r)
      /\ reply' = IF r.live THEN [code |-> NoContent, offset |-> r.offset]
                  ELSE reply
  BY DEF ServerCloses, Answer
<1>2. r.offset = Total /\ r.offset <= up.off /\ up.off \in 0..Total
  BY <1>1 DEF StreamInv, Requests, Counters
<1>3. up.off = Total
  BY <1>2
<1>4. IsStream(stored)
  BY <1>1, <1>2, <1>3, HoldsAll DEF StreamInv, TypeOK
<1>5. declared' # Deferred
  BY <1>1, <1>2 DEF Deferred
<1>6. r.live => up.last
  BY <1>1 DEF StreamInv, Live
<1>7. ASSUME reply' # reply
      PROVE  /\ r.live
             /\ reply'.code \in Nat /\ reply'.offset \in Nat
             /\ reply' = [code |-> reply'.code, offset |-> reply'.offset]
  BY <1>1, <1>2, <1>7 DEF NoContent
<1>8. stored \in Seq(1..Total) /\ Len(stored) <= Len(stored)
  BY LenProperties DEF StreamInv, TypeOK
<1> QED
  BY <1>1, <1>2, <1>4, <1>5, <1>6, <1>7, <1>8, ServedInv

\* An answer other than success.
LEMMA NoSuccess ==
  ASSUME NEW code \in ErrorCodes \cup {NoReply, Conflict}
  PROVE  code \in Nat /\ ~IsSuccess(code)
BY DEF NoReply, Conflict, IsSuccess

LEMMA ConflictInv ==
  ASSUME StreamInv, NEW r \in net, ServerConflict(r)
  PROVE  StreamInv'
<1>1. /\ UNCHANGED <<stored, declared>> /\ Served(r)
      /\ reply' = IF r.live THEN [code |-> Conflict, offset |-> 0] ELSE reply
  BY DEF ServerConflict, Answer
<1>2. ASSUME reply' # reply
      PROVE  /\ r.live
             /\ reply'.code = Conflict /\ reply'.offset = 0
             /\ reply' = [code |-> reply'.code, offset |-> reply'.offset]
  BY <1>1, <1>2
<1>3. Conflict \in Nat /\ ~IsSuccess(Conflict)
  BY NoSuccess
<1>4. stored \in Seq(1..Total) /\ Len(stored) <= Len(stored)
  BY LenProperties DEF StreamInv, TypeOK
<1> QED
  BY <1>1, <1>2, <1>3, <1>4, ServedInv

LEMMA StoresPartInv ==
  ASSUME StreamInv, NEW r \in net, NEW j \in 0..Len(r.body),
         NEW code \in ErrorCodes \cup {NoReply}, ServerStoresPart(r, j, code)
  PROVE  StreamInv'
<1>1. /\ declared = Deferred /\ declared' = declared /\ Served(r)
      /\ reply' = IF r.live THEN [code |-> code, offset |-> 0] ELSE reply
      /\ stored' = stored \o SubSeq(r.body, 1, j)
  BY DEF ServerStoresPart, Takes, Answer
<1>2. /\ stored' \in Seq(1..Total)
      /\ Len(stored) <= Len(stored')
      /\ \A i \in 1..Len(stored) : stored'[i] = stored[i]
  BY <1>1, StoredPart
<1>3. ASSUME reply' # reply
      PROVE  /\ r.live
             /\ reply'.code = code /\ reply'.offset = 0
             /\ reply' = [code |-> reply'.code, offset |-> reply'.offset]
  BY <1>1, <1>3
<1>4. code \in Nat /\ ~IsSuccess(code)
  BY NoSuccess
<1> QED
  BY <1>1, <1>2, <1>3, <1>4, ServedInv

-----------------------------------------------------------------------------
(* The theorems                                                            *)

LEMMA StepInv == StreamInv /\ [Next]_vars => StreamInv'
<1> SUFFICES ASSUME StreamInv, [Next]_vars PROVE StreamInv'
  OBVIOUS
<1>1. CASE Begin \/ ReadEOF \/ ReadError \/ \E n \in 1..ChunkSize : ReadSome(n)
  BY <1>1, BeginInv, ReadEOFInv, ReadErrorInv, ReadSomeInv
<1>2. CASE \E k \in 0..up.n : SendUnread(k) \/ SendRewound(k)
  BY <1>2, SendInv
<1>3. CASE TransportError \/ RetryableReply
  BY <1>3, RetryInv DEF TransportError, RetryableReply, RetryOrGiveUp
<1>4. CASE PermanentReply
  BY <1>4, RetryInv DEF PermanentReply
<1>5. CASE ChunkReply \/ LastReply
  BY <1>5, ChunkReplyInv, LastReplyInv
<1>6. CASE ServerStep
  BY <1>6, AcceptsInv, ClosesInv, ConflictInv, StoresPartInv DEF ServerStep
<1>7. CASE UNCHANGED vars
  BY <1>7 DEF vars, StreamInv, TypeOK, Counters, Holds, Requests, Live, Replied,
              Closed, IsStream
<1> QED
  BY <1>1, <1>2, <1>3, <1>4, <1>5, <1>6, <1>7 DEF Next, ClientStep

\* In every reachable state of uploadUnknownSize the server has the stream up
\* to the client's offset, and late requests lie behind it.
THEOREM StreamInductive == Spec => []StreamInv
<1>1. Init => StreamInv
  BY InitInv
<1>2. StreamInv /\ [Next]_vars => StreamInv'
  BY StepInv
<1> QED
  BY <1>1, <1>2, PTL DEF Spec

\* uploadUnknownSize returns nil only when the server has the whole stream, in
\* order, and knows that it is complete.
THEOREM StreamExact == Spec => []StreamedExact
<1>1. StreamInv => StreamedExact
  BY DEF StreamInv, Closed, StreamedExact
<1> QED
  BY <1>1, StreamInductive, PTL

\* Whatever becomes of the call, the server never takes a part of the stream
\* for a complete artifact.
THEOREM NoShortArtifact == Spec => []NeverDeclaredShort
<1>1. StreamInv => NeverDeclaredShort
  BY DEF StreamInv, Closed, NeverDeclaredShort
<1> QED
  BY <1>1, StreamInductive, PTL
=============================================================================
