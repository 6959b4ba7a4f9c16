-------------------------- MODULE HttpRetryProofs --------------------------
(***************************************************************************)
(* Proofs about HttpRetry for every timeout, retry budget, set of replies  *)
(* and number of calls: OkMeansApplied, DownloadExact, StreamAtMostOnce    *)
(* and CallBounded.                                                        *)
(***************************************************************************)
EXTENDS HttpRetry, SequenceTheorems, TLAPS

-----------------------------------------------------------------------------
(* The inductive invariant                                                 *)

\* A call under way has no outcome, and a reply of success is one to a request
\* that was carried out.
Underway ==
  /\ pc # "idle" => outcome = "none"
  /\ IsSuccess(reply) => applied > 0

\* As long as nothing was read of a stream, however many attempts failed, no
\* attempt has sent all of it.
Unsent ==
  call.body = "stream" /\ unread = "all" =>
    applied = 0 /\ late = 0 /\ sent # "whole"

\* An attempt begins within the budget and takes no longer than it waited.
Clock ==
  /\ waited <= Timeout
  /\ pc = "send" => elapsed <= MaxElapsed
  /\ pc = "wait" => elapsed <= MaxElapsed + waited
  /\ elapsed <= MaxElapsed + Timeout

RetryInv ==
  /\ TypeOK
  /\ Underway
  /\ OkMeansApplied
  /\ DownloadExact
  /\ Unsent
  /\ StreamAtMostOnce
  /\ Clock

USE RetryAssumption

-----------------------------------------------------------------------------
(* The pieces of replies                                                   *)

Pieces == {"part", "all"}

\* A destination that is written to ends with what was written last, and a file
\* or the memory hold nothing else.
LEMMA WrittenPieces ==
  ASSUME out \in Seq(Pieces), NEW piece \in Pieces
  PROVE  /\ Written(piece) \in Seq(Pieces)
         /\ call.handler \in {"file", "stdout", "log", "memory"} /\ piece = "all" =>
              /\ Written(piece) # <<>>
              /\ Written(piece)[Len(Written(piece))] = "all"
              /\ call.handler \in {"file", "memory"} => Len(Written(piece)) = 1
<1>1. /\ <<piece>> \in Seq(Pieces) /\ Len(<<piece>>) = 1
      /\ <<piece>>[1] = piece /\ <<piece>> # <<>>
  OBVIOUS
<1>2. /\ Append(out, piece) \in Seq(Pieces)
      /\ Len(Append(out, piece)) = Len(out) + 1
      /\ Append(out, piece)[Len(out) + 1] = piece
      /\ Append(out, piece) # <<>>
  BY AppendProperties
<1>3. CASE call.handler = "file"
  BY <1>1, <1>3 DEF Written
<1>4. CASE call.handler \in {"stdout", "log"}
  BY <1>2, <1>4 DEF Written
<1>5. CASE call.handler = "memory"
  BY <1>1, <1>5 DEF Written
<1>6. CASE call.handler \notin {"file", "stdout", "log", "memory"}
  BY <1>6 DEF Written
<1> QED
  BY <1>3, <1>4, <1>5, <1>6

LEMMA BrokenOffPieces ==
  ASSUME out \in Seq(Pieces)
  PROVE  BrokenOff \in Seq(Pieces)
BY WrittenPieces DEF BrokenOff, Pieces

\* A call's shape.
LEMMA CallFields ==
  ASSUME TypeOK
  PROVE  call.handler \in Handlers /\ out \in Seq(Pieces)
BY DEF TypeOK, Call, Pieces

-----------------------------------------------------------------------------
(* The steps                                                               *)

LEMMA InitInv == Init => RetryInv
<1> SUFFICES ASSUME Init PROVE RetryInv
  OBVIOUS
<1>1. TypeOK
  <2>1. out \in Seq({"part", "all"})
    BY EmptySeq DEF Init
  <2>2. calls \in 0..MaxCalls
    BY DEF Init
  <2>3. /\ pc = "idle" /\ call \in Call /\ timeoutSet = FALSE /\ reply = NoReply
        /\ elapsed = 0 /\ waited = 0 /\ late = 0 /\ applied = 0
        /\ unread = "none" /\ sent = "none" /\ outcome = "none"
    BY DEF Init
  <2> QED
    BY <2>1, <2>2, <2>3 DEF TypeOK
<1> QED
  BY <1>1 DEF Init, RetryInv, Underway, OkMeansApplied, DownloadExact, Unsent,
              StreamAtMostOnce, Clock, IsSuccess

LEMMA ConnectInv ==
  ASSUME RetryInv, NEW c \in Call, Connect(c)
  PROVE  RetryInv'
<1>1. TypeOK'
  BY DEF RetryInv, TypeOK, Connect
<1> QED
  BY <1>1 DEF Connect, RetryInv, Underway, OkMeansApplied, DownloadExact, Unsent,
              StreamAtMostOnce, Clock, IsSuccess

\* Of a stream, a whole body is sent only by an attempt that starts with it.
LEMMA AttemptInv ==
  ASSUME RetryInv, NEW form \in {"whole", "cut"}, NEW rest \in {"all", "part", "none"},
         Attempt(form, rest),
         form = "whole" => rest = "none",
         rest = "all" => unread = "all",
         call.body = "stream" /\ form = "whole" => unread = "all"
  PROVE  RetryInv'
<1>1. /\ pc = "send" /\ pc' = "wait" /\ waited' = 0 /\ sent' = form /\ unread' = rest
      /\ UNCHANGED <<call, timeoutSet, elapsed, reply, late, applied, out, outcome,
                     calls>>
  BY DEF Attempt
<1>2. TypeOK'
  BY <1>1 DEF RetryInv, TypeOK
<1>3. Underway' /\ OkMeansApplied' /\ DownloadExact' /\ Unsent'
  BY <1>1 DEF RetryInv, TypeOK, Underway, OkMeansApplied, DownloadExact, Unsent
<1>4. StreamAtMostOnce'
  BY <1>1 DEF RetryInv, TypeOK, Unsent, StreamAtMostOnce
<1>5. Clock'
  BY <1>1 DEF RetryInv, TypeOK, Clock
<1> QED
  BY <1>2, <1>3, <1>4, <1>5 DEF RetryInv

LEMMA AttemptStartInv == RetryInv /\ AttemptStart => RetryInv'
<1> SUFFICES ASSUME RetryInv, AttemptStart PROVE RetryInv'
  OBVIOUS
<1>1. CASE SendWithoutBody
  BY <1>1, AttemptInv DEF SendWithoutBody
<1>2. CASE SendAll
  BY <1>2, AttemptInv DEF SendAll
<1>3. CASE SendCut
  <2>1. unread \in {"all", "part", "none"}
    BY DEF RetryInv, TypeOK
  <2>2. PICK rest \in Leftovers[unread] : Attempt("cut", rest)
    BY <1>3 DEF SendCut
  <2>3. rest \in {"all", "part", "none"} /\ (rest = "all" => unread = "all")
    BY <2>1, <2>2 DEF Leftovers
  <2> QED
    BY <2>2, <2>3, AttemptInv
<1>4. CASE SendRewound
  BY <1>4, AttemptInv DEF SendRewound
<1> QED
  BY <1>1, <1>2, <1>3, <1>4 DEF AttemptStart

\* A request that is given up may still be carried out, once.
LEMMA AttemptFailsInv ==
  ASSUME RetryInv, pc = "wait", NEW left \in Seq(Pieces), AttemptFails(left)
  PROVE  RetryInv'
<1>1. /\ pc' = "retry" /\ sent' = "none" /\ reply' = NoReply /\ out' = left
      /\ late' = IF sent = "whole" THEN late + 1 ELSE late
      /\ UNCHANGED <<call, timeoutSet, elapsed, waited, unread, applied, outcome, calls>>
  BY DEF AttemptFails, GiveUpRequest
<1>2. TypeOK'
  BY <1>1 DEF RetryInv, TypeOK, Pieces
<1>3. Underway' /\ OkMeansApplied' /\ DownloadExact'
  BY <1>1 DEF RetryInv, Underway, OkMeansApplied, DownloadExact, IsSuccess
<1>4. Unsent' /\ StreamAtMostOnce'
  BY <1>1 DEF RetryInv, TypeOK, Unsent, StreamAtMostOnce
<1>5. Clock'
  BY <1>1 DEF RetryInv, TypeOK, Clock
<1> QED
  BY <1>2, <1>3, <1>4, <1>5 DEF RetryInv

\* A call that ends has what its outcome asks for.
LEMMA CallReturnsInv ==
  ASSUME RetryInv, NEW result \in {"ok", "permanent", "gaveup"},
         NEW left \in Seq(Pieces), CallReturns(result, left),
         result = "ok" /\ call.handler # "log" => applied > 0,
         result = "ok" /\ call.handler # "none" =>
           /\ left # <<>> /\ left[Len(left)] = "all"
           /\ call.handler \in {"file", "memory"} => Len(left) = 1
  PROVE  RetryInv'
<1>1. /\ pc' = "idle" /\ sent' = "none" /\ reply' = NoReply /\ outcome' = result
      /\ out' = left
      /\ UNCHANGED <<call, timeoutSet, elapsed, waited, unread, late, applied, calls>>
  BY DEF CallReturns
<1>2. TypeOK'
  BY <1>1 DEF RetryInv, TypeOK, Pieces
<1>3. Underway' /\ OkMeansApplied' /\ DownloadExact'
  BY <1>1 DEF RetryInv, Underway, OkMeansApplied, DownloadExact, IsSuccess
<1>4. Unsent' /\ StreamAtMostOnce'
  BY <1>1 DEF RetryInv, TypeOK, Unsent, StreamAtMostOnce
<1>5. Clock'
  BY <1>1 DEF RetryInv, TypeOK, Clock
<1> QED
  BY <1>2, <1>3, <1>4, <1>5 DEF RetryInv

LEMMA ReplyStepInv == RetryInv /\ ReplyStep => RetryInv'
<1> SUFFICES ASSUME RetryInv, ReplyStep PROVE RetryInv'
  OBVIOUS
<1>0. TypeOK /\ call.handler \in Handlers /\ out \in Seq(Pieces)
  BY CallFields DEF RetryInv
<1>1. CASE SuccessReply
  BY <1>0, <1>1, CallReturnsInv DEF SuccessReply, RetryInv, Underway
<1>2. CASE PermanentReply
  BY <1>0, <1>2, CallReturnsInv DEF PermanentReply
<1>3. CASE RetryableReply \/ HandlerFails
  BY <1>0, <1>3, AttemptFailsInv DEF RetryableReply, HandlerFails
<1>4. CASE HandlerAccepts
  <2>1. /\ call.handler \in {"file", "stdout", "log", "memory"}
        /\ CallReturns("ok", Written("all"))
        /\ call.handler # "log" => applied > 0
    BY <1>0, <1>4 DEF HandlerAccepts, Handlers, Reads, RetryInv, Underway
  <2>2. /\ Written("all") \in Seq(Pieces)
        /\ Written("all") # <<>>
        /\ Written("all")[Len(Written("all"))] = "all"
        /\ call.handler \in {"file", "memory"} => Len(Written("all")) = 1
    BY <1>0, <2>1, WrittenPieces DEF Pieces
  <2> QED
    BY <2>1, <2>2, CallReturnsInv
<1> QED
  BY <1>1, <1>2, <1>3, <1>4 DEF ReplyStep

LEMMA BrokenInv == RetryInv /\ (TransportError \/ TimedOut) => RetryInv'
<1> SUFFICES ASSUME RetryInv, TransportError \/ TimedOut PROVE RetryInv'
  OBVIOUS
<1>1. BrokenOff \in Seq(Pieces)
  BY CallFields, BrokenOffPieces DEF RetryInv
<1> QED
  BY <1>1, AttemptFailsInv DEF TransportError, TimedOut

LEMMA PauseInv == RetryInv /\ Pause => RetryInv'
<1> SUFFICES ASSUME RetryInv, Pause PROVE RetryInv'
  OBVIOUS
<1>1. CASE GiveUp
  BY <1>1, CallFields, CallReturnsInv DEF GiveUp, RetryInv
<1>2. ASSUME NEW interval \in 1..MaxBackoff, BackOff(interval)
      PROVE  RetryInv'
  <2>1. /\ pc = "retry" /\ pc' = "send" /\ elapsed' = elapsed + interval
        /\ elapsed + interval <= MaxElapsed
        /\ UNCHANGED <<call, timeoutSet, waited, unread, sent, reply, late, applied,
                       out, outcome, calls>>
    BY <1>2 DEF BackOff
  <2>2. TypeOK'
    BY <2>1 DEF RetryInv, TypeOK
  <2>3. Underway' /\ OkMeansApplied' /\ DownloadExact' /\ Unsent' /\ StreamAtMostOnce'
    BY <2>1 DEF RetryInv, Underway, OkMeansApplied, DownloadExact, Unsent,
                StreamAtMostOnce
  <2>4. Clock'
    BY <2>1 DEF RetryInv, TypeOK, Clock
  <2> QED
    BY <2>2, <2>3, <2>4 DEF RetryInv
<1> QED
  BY <1>1, <1>2 DEF Pause

LEMMA ServeInv ==
  ASSUME RetryInv, NEW code \in Codes, Serve(code)
  PROVE  RetryInv'
<1>1. /\ pc = "wait" /\ reply' = code /\ sent' = "served"
      /\ \/ sent = "whole" /\ applied' = applied + 1
         \/ ~IsSuccess(code) /\ applied' = applied /\ sent \in {"whole", "cut"}
      /\ UNCHANGED <<pc, call, timeoutSet, elapsed, waited, unread, late, out, outcome,
                     calls>>
  BY DEF Serve
<1>2. TypeOK'
  BY <1>1 DEF RetryInv, TypeOK
<1>3. Underway' /\ OkMeansApplied' /\ DownloadExact'
  BY <1>1 DEF RetryInv, TypeOK, Underway, OkMeansApplied, DownloadExact
<1>4. Unsent' /\ StreamAtMostOnce'
  BY <1>1 DEF RetryInv, TypeOK, Unsent, StreamAtMostOnce
<1>5. Clock'
  BY <1>1 DEF RetryInv, Clock
<1> QED
  BY <1>2, <1>3, <1>4, <1>5 DEF RetryInv

LEMMA ServeLateInv == RetryInv /\ ServeLate => RetryInv'
<1> SUFFICES ASSUME RetryInv, ServeLate PROVE RetryInv'
  OBVIOUS
<1>1. /\ late > 0 /\ late' = late - 1 /\ applied' = applied + 1
      /\ UNCHANGED <<pc, call, timeoutSet, elapsed, waited, unread, sent, reply, out,
                     outcome, calls>>
  BY DEF ServeLate
<1>2. TypeOK'
  BY <1>1 DEF RetryInv, TypeOK
<1>3. Underway' /\ OkMeansApplied' /\ DownloadExact'
  BY <1>1 DEF RetryInv, TypeOK, Underway, OkMeansApplied, DownloadExact
<1>4. Unsent' /\ StreamAtMostOnce'
  BY <1>1 DEF RetryInv, TypeOK, Unsent, StreamAtMostOnce
<1>5. Clock'
  BY <1>1 DEF RetryInv, Clock
<1> QED
  BY <1>2, <1>3, <1>4, <1>5 DEF RetryInv

LEMMA TickInv == RetryInv /\ Tick => RetryInv'
<1> SUFFICES ASSUME RetryInv, Tick PROVE RetryInv'
  OBVIOUS
<1>1. /\ pc = "wait" /\ waited < Timeout /\ waited' = waited + 1
      /\ elapsed' = elapsed + 1
      /\ UNCHANGED <<pc, call, timeoutSet, unread, sent, reply, late, applied, out,
                     outcome, calls>>
  BY DEF Tick
<1>2. TypeOK'
  BY <1>1 DEF RetryInv, TypeOK
<1>3. Underway' /\ OkMeansApplied' /\ DownloadExact' /\ Unsent' /\ StreamAtMostOnce'
  BY <1>1 DEF RetryInv, Underway, OkMeansApplied, DownloadExact, Unsent,
              StreamAtMostOnce
<1>4. Clock'
  BY <1>1 DEF RetryInv, TypeOK, Clock
<1> QED
  BY <1>2, <1>3, <1>4 DEF RetryInv

LEMMA StepInv == RetryInv /\ [Next]_vars => RetryInv'
<1> SUFFICES ASSUME RetryInv, [Next]_vars PROVE RetryInv'
  OBVIOUS
<1>1. CASE \E c \in Call : Connect(c)
  BY <1>1, ConnectInv
<1>2. CASE AttemptStart \/ ReplyStep \/ Pause
  BY <1>2, AttemptStartInv, ReplyStepInv, PauseInv
<1>3. CASE TransportError \/ TimedOut
  BY <1>3, BrokenInv
<1>4. CASE ServeLate \/ Tick \/ \E code \in Codes : Serve(code)
  BY <1>4, ServeLateInv, TickInv, ServeInv
<1>5. CASE UNCHANGED vars
  BY <1>5 DEF vars, RetryInv, TypeOK, Underway, OkMeansApplied, DownloadExact,
              Unsent, StreamAtMostOnce, Clock
<1> QED
  BY <1>1, <1>2, <1>3, <1>4, <1>5 DEF Next

-----------------------------------------------------------------------------
(* The theorems                                                            *)

\* In every reachable state of the adapter its clock, the request in flight and
\* what the service has done agree.
THEOREM RetryInductive == Spec => []RetryInv
<1>1. Init => RetryInv
  BY InitInv
<1>2. RetryInv /\ [Next]_vars => RetryInv'
  BY StepInv
<1> QED
  BY <1>1, <1>2, PTL DEF Spec

\* A call that returns nil was carried out by the service.
THEOREM OkApplied == Spec => []OkMeansApplied
<1>1. RetryInv => OkMeansApplied
  BY DEF RetryInv
<1> QED
  BY <1>1, RetryInductive, PTL

\* A download that returns nil is complete, and a file holds nothing else.
THEOREM DownloadComplete == Spec => []DownloadExact
<1>1. RetryInv => DownloadExact
  BY DEF RetryInv
<1> QED
  BY <1>1, RetryInductive, PTL

\* doWithRetry never has a stream carried out twice.
THEOREM StreamOnce == Spec => []StreamAtMostOnce
<1>1. RetryInv => StreamAtMostOnce
  BY DEF RetryInv
<1> QED
  BY <1>1, RetryInductive, PTL

\* With client.Timeout set, the retry budget and one timeout bound a call.
THEOREM Bounded == Spec => []CallBounded
<1>1. RetryInv => CallBounded
  BY DEF RetryInv, Clock, CallBounded
<1> QED
  BY <1>1, RetryInductive, PTL
=============================================================================
