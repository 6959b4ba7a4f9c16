----------------------------- MODULE HttpRetry -----------------------------
(***************************************************************************)
(* The REST adapter's Connect and doWithRetry (pkg/adapter/adapter.go): a  *)
(* sequence of calls through one adapter, each call a sequence of attempts *)
(* with the same http.Request, and what the attempts do at the server.     *)
(* Time is counted in ticks, none longer than the shortest back-off.       *)
(***************************************************************************)
EXTENDS Naturals, Sequences, RetryPolicy

CONSTANTS
  Timeout,      \* the adapter's TimeoutSec, in ticks
  MaxElapsed,   \* defaultMaxElapsedTime, in ticks
  MaxBackoff,   \* bound: longest interval between two attempts
  Codes,        \* status codes the service may reply with
  MaxCalls      \* bound: calls made through the adapter

ASSUME RetryAssumption ==
  /\ Timeout \in Nat \ {0} /\ MaxElapsed \in Nat /\ MaxBackoff \in Nat \ {0}
  /\ Codes \subseteq Nat \ {NoReply} /\ MaxCalls \in Nat

\* What is known of a request body: absent, an in-memory reader (GetBody is
\* set), or any other reader.
Bodies == {"none", "memory", "stream"}

\* Where the response handler puts the body of the reply: there is none; a file
\* made anew, or standard output (artifact download); standard output, whatever
\* the reply (order logs); memory (downloadArtifactBytes of the MCP server).
Handlers == {"none", "file", "stdout", "log", "memory"}

VARIABLES
  pc,          \* "idle", "send", "wait" (in client.Do) or "retry"
  call,        \* shape of the call: body, deadline in its context, handler
  timeoutSet,  \* client.Timeout of the adapter's http.Client is set
  elapsed,     \* ticks since the call began
  waited,      \* ticks since the attempt began
  unread,      \* what the attempts left of the body: "all", "part", "none"
  sent,        \* the live request: "none", "whole", "cut", or "served"
  reply,       \* its status code, NoReply if there is none yet
  late,        \* complete requests of given-up attempts still on the wire
  applied,     \* times the service carried out the call
  out,         \* pieces of replies at the handler's destination
  outcome,     \* of the last call: "none", "ok", "permanent", "gaveup"
  calls        \* calls begun

vars == <<pc, call, timeoutSet, elapsed, waited, unread, sent, reply, late,
          applied, out, outcome, calls>>

\* The program downloads with GET; a context of the MCP server has a deadline,
\* the one of a command has none.
Call ==
  {c \in [body: Bodies, deadline: BOOLEAN, handler: Handlers] :
     c.handler # "none" =>
       c.body = "none" /\ c.deadline = (c.handler = "memory")}

TypeOK ==
  /\ pc \in {"idle", "send", "wait", "retry"}
  /\ call \in Call
  /\ timeoutSet \in BOOLEAN
  /\ elapsed \in Nat /\ waited \in Nat
  /\ unread \in {"all", "part", "none"}
  /\ sent \in {"none", "whole", "cut", "served"}
  /\ reply \in Codes \cup {NoReply}
  /\ reply # NoReply => pc = "wait" /\ sent = "served"
  /\ late \in Nat /\ applied \in Nat
  /\ out \in Seq({"part", "all"})
  /\ outcome \in {"none", "ok", "permanent", "gaveup"}
  /\ calls \in 0..MaxCalls

Init ==
  /\ pc = "idle"
  /\ call \in Call
  /\ timeoutSet = FALSE
  /\ elapsed = 0 /\ waited = 0
  /\ unread = "none" /\ sent = "none" /\ reply = NoReply
  /\ late = 0 /\ applied = 0
  /\ out = <<>> /\ outcome = "none" /\ calls = 0

-----------------------------------------------------------------------------
(* Connect                                                                 *)

\* A context with a deadline leaves client.Timeout as it is, and is not
\* passed on to the request.
Connect(c) ==
  /\ pc = "idle"
  /\ calls < MaxCalls
  /\ calls' = calls + 1
  /\ pc' = "send"
  /\ call' = c
  /\ timeoutSet' = (timeoutSet \/ ~c.deadline)
  /\ unread' = IF c.body = "none" THEN "none" ELSE "all"
  /\ elapsed' = 0 /\ waited' = 0
  /\ sent' = "none" /\ reply' = NoReply
  /\ late' = 0 /\ applied' = 0
  /\ out' = <<>> /\ outcome' = "none"

-----------------------------------------------------------------------------
(* One attempt: client.Do(req)                                             *)

Attempt(form, rest) ==
  /\ pc = "send"
  /\ pc' = "wait"
  /\ waited' = 0
  /\ sent' = form
  /\ unread' = rest
  /\ UNCHANGED <<call, timeoutSet, elapsed, reply, late, applied,
                 out, outcome, calls>>

SendWithoutBody == call.body = "none" /\ Attempt("whole", "none")

\* Mutant: every attempt has all of the body.
SendAllAgain == call.body # "none" /\ Attempt("whole", "none")

SendAll == unread = "all" /\ Attempt("whole", "none")

\* What may be left of a body by an attempt that does not send all of it.
Leftovers == [all |-> {"all", "part", "none"}, part |-> {"part", "none"},
              none |-> {"none"}]

\* The attempt fails before the transport reads the body (dial, TLS), the
\* transport stops reading it, or finds less than Content-Length.
SendCut ==
  /\ call.body # "none"
  /\ \E rest \in Leftovers[unread] : Attempt("cut", rest)

\* The transport may rewind an in-memory body when a reused connection broke.
SendRewound ==
  /\ call.body = "memory" /\ unread # "all"
  /\ Attempt("whole", "none")

\* What becomes of the request the client stops waiting for.
GiveUpRequest == late' = IF sent = "whole" THEN late + 1 ELSE late

AttemptFails(left) ==
  /\ pc' = "retry"
  /\ sent' = "none" /\ reply' = NoReply
  /\ GiveUpRequest
  /\ out' = left
  /\ UNCHANGED <<call, timeoutSet, elapsed, waited, unread, applied, outcome,
                 calls>>

CallReturns(result, left) ==
  /\ pc' = "idle"
  /\ sent' = "none" /\ reply' = NoReply
  /\ outcome' = result
  /\ out' = left
  /\ UNCHANGED <<call, timeoutSet, elapsed, waited, unread, late, applied,
                 calls>>

\* Mutant: a second attempt goes on where the file ends.
WrittenAppending(piece) ==
  IF call.handler = "memory"
  THEN IF piece = "all" THEN <<piece>> ELSE out
  ELSE Append(out, piece)

\* What the destination holds once the handler has read a piece of the body.
\* os.Create truncates the file; the variable is assigned after a full read.
Written(piece) ==
  CASE call.handler = "file"              -> <<piece>>
    [] call.handler \in {"stdout", "log"} -> Append(out, piece)
    [] call.handler = "memory" /\ piece = "all" -> <<piece>>
    [] OTHER -> out

\* Whether the handler reads the reply: the one for order logs never looks at
\* the status code.
Reads == reply # NoReply /\ (call.handler = "log" \/ IsSuccess(reply))

\* What is left when the exchange breaks off: the handler may be in the middle
\* of the body.
BrokenOff == IF call.handler # "none" /\ Reads THEN Written("part") ELSE out

\* client.Do returns an error, or the reply's body cannot be read.
TransportError == pc = "wait" /\ AttemptFails(BrokenOff)

\* The same when client.Timeout strikes, which covers reading the body.
TimedOut ==
  /\ pc = "wait" /\ timeoutSet /\ waited = Timeout
  /\ AttemptFails(BrokenOff)

\* Mutant: every reply is a success.
SuccessReplyAny ==
  /\ pc = "wait" /\ call.handler = "none"
  /\ reply # NoReply
  /\ CallReturns("ok", out)

SuccessReply ==
  /\ pc = "wait" /\ call.handler = "none"
  /\ IsSuccess(reply)
  /\ CallReturns("ok", out)

PermanentReply ==
  /\ pc = "wait" /\ call.handler = "none"
  /\ IsPermanent(reply)
  /\ CallReturns("permanent", out)

RetryableReply ==
  /\ pc = "wait" /\ call.handler = "none"
  /\ IsRetryableStatusCode(reply)
  /\ AttemptFails(out)

\* A handler decides for itself: nil ends the call, and any error it returns
\* is tried again, for a 404 too.
HandlerAccepts ==
  /\ pc = "wait" /\ call.handler # "none"
  /\ Reads
  /\ CallReturns("ok", Written("all"))

\* ... for a reply it refuses, or a file it cannot create.
HandlerFails ==
  /\ pc = "wait" /\ call.handler # "none"
  /\ reply # NoReply
  /\ ~Reads \/ call.handler = "file"
  /\ AttemptFails(out)

-----------------------------------------------------------------------------
(* backoff.Retry                                                           *)

\* Mutant: no budget.
BackOffUnlimited(interval) ==
  /\ pc = "retry"
  /\ pc' = "send"
  /\ elapsed' = elapsed + interval
  /\ UNCHANGED <<call, timeoutSet, waited, unread, sent, reply, late, applied,
                 out, outcome, calls>>

\* Mutant: the budget is counted anew for every attempt.
BackOffAnew(interval) ==
  /\ pc = "retry"
  /\ elapsed + interval <= MaxElapsed
  /\ pc' = "send"
  /\ elapsed' = 0
  /\ UNCHANGED <<call, timeoutSet, waited, unread, sent, reply, late, applied,
                 out, outcome, calls>>

BackOff(interval) ==
  /\ pc = "retry"
  /\ elapsed + interval <= MaxElapsed
  /\ pc' = "send"
  /\ elapsed' = elapsed + interval
  /\ UNCHANGED <<call, timeoutSet, waited, unread, sent, reply, late, applied,
                 out, outcome, calls>>

GiveUp ==
  /\ pc = "retry"
  /\ \E interval \in 1..MaxBackoff : elapsed + interval > MaxElapsed
  /\ CallReturns("gaveup", out)

-----------------------------------------------------------------------------
(* The service and the clock                                               *)

\* The service carries out a complete request, or only answers.
Serve(code) ==
  /\ pc = "wait" /\ reply = NoReply
  /\ \/ sent = "whole" /\ applied' = applied + 1
     \/ sent \in {"whole", "cut"} /\ ~IsSuccess(code) /\ UNCHANGED applied
  /\ reply' = code
  /\ sent' = "served"
  /\ UNCHANGED <<pc, call, timeoutSet, elapsed, waited, unread, late,
                 out, outcome, calls>>

\* A request the client gave up on is carried out.
ServeLate ==
  /\ late > 0
  /\ late' = late - 1
  /\ applied' = applied + 1
  /\ UNCHANGED <<pc, call, timeoutSet, elapsed, waited, unread, sent, reply,
                 out, outcome, calls>>

\* Without client.Timeout the clock stands still at the bound of the model.
Tick ==
  /\ pc = "wait"
  /\ waited < Timeout
  /\ waited' = waited + 1
  /\ elapsed' = elapsed + 1
  /\ UNCHANGED <<pc, call, timeoutSet, unread, sent, reply, late, applied,
                 out, outcome, calls>>

-----------------------------------------------------------------------------

AttemptStart == SendWithoutBody \/ SendAll \/ SendCut \/ SendRewound

ReplyStep ==
  \/ SuccessReply
  \/ PermanentReply
  \/ RetryableReply
  \/ HandlerAccepts
  \/ HandlerFails

Pause == GiveUp \/ \E interval \in 1..MaxBackoff : BackOff(interval)

Next ==
  \/ \E c \in Call : Connect(c)
  \/ AttemptStart
  \/ TransportError
  \/ TimedOut
  \/ ReplyStep
  \/ Pause
  \/ \E code \in Codes : Serve(code)
  \/ ServeLate
  \/ Tick

\* The process runs on and time passes; the network may stay silent.
Spec ==
  /\ Init /\ [][Next]_vars
  /\ WF_vars(AttemptStart) /\ WF_vars(Pause)
  /\ WF_vars(TimedOut) /\ WF_vars(Tick)

-----------------------------------------------------------------------------

\* A call that succeeds has been carried out; the logs of an order may also be
\* an error reply, printed.
OkMeansApplied == outcome = "ok" /\ call.handler # "log" => applied > 0

\* A download that succeeds ends with the whole body, and a file or the bytes
\* handed on hold nothing else, whatever broke off before: standard output may.
DownloadExact ==
  outcome = "ok" /\ call.handler # "none" =>
    /\ out # <<>> /\ out[Len(out)] = "all"
    /\ call.handler \in {"file", "memory"} => Len(out) = 1

\* However often it is tried, a request with a body that cannot be rewound
\* is carried out at most once, late requests included.
StreamAtMostOnce ==
  call.body = "stream" =>
    applied + late + (IF sent = "whole" THEN 1 ELSE 0) <= 1

\* With client.Timeout set no call outlasts the retry budget by more than
\* one timeout.
CallBounded == timeoutSet => elapsed <= MaxElapsed + Timeout

\* ... and it returns.
TimedCallReturns == (pc # "idle" /\ timeoutSet) ~> pc = "idle"
=============================================================================
