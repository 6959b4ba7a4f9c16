---------------------------- MODULE QueueCommands ----------------------------
(***************************************************************************)
(* `ivcap queue` (cmd/queue.go, pkg/queue.go) in terminals that share the  *)
(* history file (cmd/common.go, saved by Execute in cmd/root.go).  A       *)
(* command prints items as @1, @2, ... and saves what these stand for when *)
(* it ends; the next one looks its argument up there.  The other listings  *)
(* of ivcap use the same helpers in the same order.                        *)
(*                                                                         *)
(* Replies are lost and requests sent again; a service that takes messages *)
(* out of a queue, or makes one, does so each time.                        *)
(***************************************************************************)
EXTENDS Naturals, Sequences, FiniteSets, SequencesExt, FiniteSetsExt

CONSTANTS
  Terminals,
  Queues,          \* number of queues there are at first
  Backlog,         \* messages in each of these
  PageSize,        \* items on a page of the listing
  Limits,          \* values of --limit for dequeue
  MaxCommands, MaxFaults

ASSUME QueueAssumption ==
  /\ Queues \in Nat /\ Backlog \in Nat /\ PageSize \in Nat \ {0}
  /\ Limits \subseteq Nat /\ MaxCommands \in Nat /\ MaxFaults \in Nat

VARIABLES
  file,       \* history file: what @1, @2, ... stand for; <<>> if unreadable
  queues,     \* messages of each queue there ever was
  live,       \* queues that exist
  accepted,   \* messages the service has accepted
  out,        \* messages in the file given to dequeue, of each terminal
  cmd,        \* the command of each terminal
  shown,      \* [token, item] as printed last, of each terminal
  stale,      \* terminals whose tokens on screen are not those of the file
  walk,       \* the pages each terminal has gone through
  commands, faults

vars == <<file, queues, live, accepted, out, cmd, shown, stale, walk, commands, faults>>

-----------------------------------------------------------------------------
(* Tokens                                                                  *)

Queue(q) == [kind |-> "queue", id |-> q]
Page(q)  == [kind |-> "page", id |-> q]      \* what comes after queue q
NoItem   == [kind |-> "none", id |-> 0]

\* Mutant: tokens count from the map's length before the entry is added.
MakeHistoryLow(items) ==
  [history |-> items,
   printed |-> [i \in DOMAIN items |-> [token |-> i - 1, item |-> items[i]]]]

\* MakeHistory, called for one item after the other: the entries of the map,
\* and the token that is printed for each, one more than there are before it.
MakeHistory(items) ==
  [history |-> items,
   printed |-> [i \in DOMAIN items |-> [token |-> i, item |-> items[i]]]]

NoHistory == MakeHistory(<<>>)

\* GetHistory: NoItem for a token that is unknown.
GetHistory(token) == IF token \in DOMAIN file THEN file[token] ELSE NoItem

\* Mutant: the first link is followed, whatever it is.
FirstLink(links) == IF links = <<>> THEN <<>> ELSE <<links[1].page>>

\* findNextQueuePage
FindNextPage(links) ==
  LET next == {i \in DOMAIN links : links[i].rel = "next"}
  IN  IF next = {} THEN <<>> ELSE <<links[Min(next)].page>>

\* printListResponse and addNextPageRow: the page has the last token.
Table(ids, links) ==
  LET rows == [i \in DOMAIN ids |-> Queue(ids[i])]
      next == FindNextPage(links)
  IN  MakeHistory(IF next = <<>> THEN rows ELSE Append(rows, Page(next[1])))

-----------------------------------------------------------------------------
(* The queue service                                                       *)

\* The numbers in S, from the least to the greatest.
Ascending(S) ==
  CHOOSE s \in [1..Cardinality(S) -> S] : \A i, j \in DOMAIN s : i < j => s[i] < s[j]

\* A page of the queues after q: the ids of the first ones, and links to this
\* page and the next.
ListedAfter(q) ==
  LET after == {i \in live : i > q}
      first == {i \in after : Cardinality({j \in after : j < i}) < PageSize}
      ids == Ascending(first)
  IN  [ids |-> ids,
       links |-> <<[rel |-> "self", page |-> q]>> \o
                 IF first = after THEN <<>>
                 ELSE <<[rel |-> "next", page |-> Last(ids)]>>]

-----------------------------------------------------------------------------

\* target is what the command resolved its argument to, meant what the
\* terminal had shown under it; before is the file when it began.
Locals(op, result) ==
  [pc |-> "done", result |-> result, op |-> op, target |-> NoItem,
   meant |-> NoItem, sure |-> FALSE, limit |-> 1, again |-> FALSE,
   table |-> NoHistory, payload |-> <<>>, taken |-> <<>>, before |-> <<>>]

NoWalk == [seen |-> <<>>, began |-> {}, next |-> <<>>, sure |-> FALSE]

Init ==
  /\ file = <<>>
  /\ queues = [q \in 1..Queues |-> [i \in 1..Backlog |-> (q - 1) * Backlog + i]]
  /\ live = 1..Queues
  /\ accepted = Queues * Backlog
  /\ out = [t \in Terminals |-> <<>>]
  /\ cmd = [t \in Terminals |-> Locals("none", "none")]
  /\ shown = [t \in Terminals |-> <<>>]
  /\ stale = {}
  /\ walk = [t \in Terminals |-> NoWalk]
  /\ commands = 0 /\ faults = 0

Step(t, new) == cmd' = [cmd EXCEPT ![t] = new]
At(t, op, pc) == cmd[t].op = op /\ cmd[t].pc = pc
End(t, result) == Step(t, [cmd[t] EXCEPT !.pc = "done", !.result = result])
Fault == faults < MaxFaults /\ faults' = faults + 1

service == <<queues, live, accepted>>
screen == <<shown, stale, walk>>

-----------------------------------------------------------------------------
(* Commands begin                                                          *)

Ready(t) ==
  /\ cmd[t].pc = "done" /\ commands < MaxCommands
  /\ commands' = commands + 1
  /\ UNCHANGED <<file, service, out, screen, faults>>

Blank(t, op) == [Locals(op, "none") EXCEPT !.pc = "request", !.before = out[t]]

\* queue list, and queue create; no token is looked up.
BeginPlain(t, op) ==
  /\ Ready(t)
  /\ Step(t, [Blank(t, op) EXCEPT !.sure = TRUE])

\* queue list --page, get, enqueue, dequeue and delete look up one that is on
\* the terminal's screen.
BeginWith(t, op, entry, limit) ==
  LET target == GetHistory(entry.token)
      begun == [Blank(t, op) EXCEPT !.target = target, !.meant = entry.item,
                                    !.sure = t \notin stale, !.limit = limit]
  IN  /\ Ready(t)
      /\ entry.item.kind = (IF op = "list" THEN "page" ELSE "queue")
      /\ Step(t, IF target # NoItem THEN begun
                 ELSE [begun EXCEPT !.pc = "done", !.result = "failed"])

Begin(t) ==
  \/ \E op \in {"list", "create"} : BeginPlain(t, op)
  \/ \E op \in {"list", "get", "enqueue", "delete"}, entry \in ToSet(shown[t]) :
       BeginWith(t, op, entry, 1)
  \/ \E entry \in ToSet(shown[t]), limit \in Limits : BeginWith(t, "dequeue", entry, limit)

-----------------------------------------------------------------------------
(* list and get                                                            *)

\* runListQueueCmd, up to the printed table.  An item that is no page makes
\* the service refuse; where nothing is listed, saveHistory has nothing to save
\* and leaves the file as it is.
ShowList(t) ==
  LET from == cmd[t].target
      reply == ListedAfter(from.id)
      table == Table(reply.ids, reply.links)
      follows == walk[t].next = <<cmd[t].meant.id>> /\ cmd[t].sure /\ walk[t].sure
  IN  /\ At(t, "list", "request") /\ from.kind # "queue"
      /\ IF table = NoHistory
         THEN End(t, "ok")
         ELSE Step(t, [cmd[t] EXCEPT !.pc = "save", !.table = table])
      /\ shown' = [shown EXCEPT ![t] = table.printed]
      /\ stale' = stale \cup {t}
      /\ walk' = [walk EXCEPT ![t] =
           [seen |-> IF from = NoItem THEN reply.ids ELSE @.seen \o reply.ids,
            began |-> IF from = NoItem THEN live ELSE @.began,
            next |-> FindNextPage(reply.links),
            sure |-> from = NoItem \/ follows]]
      /\ UNCHANGED <<file, service, out, commands, faults>>

\* runReadQueueCmd
ShowQueue(t) ==
  LET table == MakeHistory(<<cmd[t].target>>)
  IN  /\ At(t, "get", "request") /\ cmd[t].target \in {Queue(q) : q \in live}
      /\ Step(t, [cmd[t] EXCEPT !.pc = "save", !.table = table])
      /\ shown' = [shown EXCEPT ![t] = table.printed]
      /\ stale' = stale \cup {t}
      /\ UNCHANGED <<file, service, out, walk, commands, faults>>

\* With --output json or yaml, or --no-history, there are no tokens and
\* nothing to save.
ShowPlain(t) ==
  /\ At(t, "list", "request") \/ At(t, "get", "request")
  /\ End(t, "ok")
  /\ UNCHANGED <<file, service, out, screen, commands, faults>>

\* saveHistory; os.WriteFile empties the file before it writes.
TruncateHistory(t) ==
  /\ cmd[t].pc = "save"
  /\ file' = <<>>
  /\ stale' = stale \cup {t}
  /\ Step(t, [cmd[t] EXCEPT !.pc = "write"])
  /\ UNCHANGED <<service, out, shown, walk, commands, faults>>

\* Mutant: the new tokens go behind those of the last command.
AppendHistory(t) ==
  /\ cmd[t].pc \in {"save", "write"}
  /\ file' = file \o cmd[t].table.history
  /\ stale' = Terminals \ {t}
  /\ End(t, "ok")
  /\ UNCHANGED <<service, out, shown, walk, commands, faults>>

\* What another terminal wrote since stays behind the new text, or makes the
\* file unreadable.
WriteHistory(t) ==
  LET mine == cmd[t].table.history
      rest == SubSeq(file, Len(mine) + 1, Len(file))
  IN  /\ cmd[t].pc = "write"
      /\ file' \in IF file = <<>> THEN {mine} ELSE {mine \o rest, <<>>}
      /\ stale' = Terminals \ {t}
      /\ End(t, "ok")
      /\ UNCHANGED <<service, out, shown, walk, commands, faults>>

-----------------------------------------------------------------------------
(* create, enqueue and delete                                              *)

\* The reply comes, or is lost and the request is sent again.
Answered(t) ==
  \/ End(t, "ok") /\ UNCHANGED faults
  \/ Fault /\ Step(t, [cmd[t] EXCEPT !.again = TRUE])

Targets(t) == {q \in live : cmd[t].target = Queue(q)}

CreateQueue(t) ==
  /\ At(t, "create", "request")
  /\ queues' = Append(queues, <<>>)
  /\ live' = live \cup {Len(queues) + 1}
  /\ Answered(t)
  /\ UNCHANGED <<file, accepted, out, screen, commands>>

Enqueue(t) ==
  /\ At(t, "enqueue", "request")
  /\ \E q \in Targets(t) : queues' = [queues EXCEPT ![q] = Append(@, accepted + 1)]
  /\ accepted' = accepted + 1
  /\ Answered(t)
  /\ UNCHANGED <<file, live, out, screen, commands>>

DeleteQueue(t) ==
  /\ At(t, "delete", "request")
  /\ \E q \in Targets(t) : live' = live \ {q}
  /\ Answered(t)
  /\ UNCHANGED <<file, queues, accepted, out, screen, commands>>

-----------------------------------------------------------------------------
(* dequeue                                                                 *)

\* DequeueRaw: at least one is asked for.
Dequeue(t) ==
  /\ At(t, "dequeue", "request")
  /\ \E q \in Targets(t) :
       LET n == Min({Max({cmd[t].limit, 1}), Len(queues[q])})
           messages == SubSeq(queues[q], 1, n)
           taken == cmd[t].taken \o messages
       IN  /\ queues' = [queues EXCEPT ![q] = SubSeq(@, n + 1, Len(@))]
           /\ \/ /\ Step(t, [cmd[t] EXCEPT !.pc = "format", !.payload = messages,
                                           !.taken = taken])
                 /\ UNCHANGED faults
              \/ Fault /\ Step(t, [cmd[t] EXCEPT !.again = TRUE, !.taken = taken])
  /\ UNCHANGED <<file, live, accepted, out, screen, commands>>

\* Mutant: the file is opened before the reply is looked at.
OpensAtOnce(t) ==
  /\ At(t, "dequeue", "format") /\ cmd[t].payload = <<>>
  /\ out' = [out EXCEPT ![t] = <<>>]
  /\ End(t, "failed")
  /\ UNCHANGED <<file, service, screen, commands, faults>>

\* printDequeueResponse: json.Indent refuses a reply without content.
FormatFails(t) ==
  /\ At(t, "dequeue", "format") /\ cmd[t].payload = <<>>
  /\ End(t, "failed")
  /\ UNCHANGED <<file, service, out, screen, commands, faults>>

\* safeOpen, by os.Create.
OpenFile(t) ==
  /\ At(t, "dequeue", "format")
  /\ out' = [out EXCEPT ![t] = <<>>]
  /\ Step(t, [cmd[t] EXCEPT !.pc = "fill"])
  /\ UNCHANGED <<file, service, screen, commands, faults>>

SaveMessages(t) ==
  /\ At(t, "dequeue", "fill")
  /\ out' = [out EXCEPT ![t] = cmd[t].payload]
  /\ End(t, "ok")
  /\ UNCHANGED <<file, service, screen, commands, faults>>

-----------------------------------------------------------------------------

\* The service refuses, an error ends the command, or it is killed, perhaps
\* while it writes its messages.
Fail(t) ==
  /\ cmd[t].pc # "done"
  /\ End(t, IF cmd[t].pc = "fill" THEN "cut" ELSE "failed")
  /\ UNCHANGED <<file, service, out, screen, commands, faults>>

Showing(t) ==
  \/ ShowList(t) \/ ShowQueue(t) \/ ShowPlain(t)
  \/ TruncateHistory(t) \/ WriteHistory(t)

Queueing(t) ==
  \/ CreateQueue(t) \/ Enqueue(t) \/ DeleteQueue(t)
  \/ Dequeue(t) \/ FormatFails(t) \/ OpenFile(t) \/ SaveMessages(t)

Next == \E t \in Terminals : Begin(t) \/ Showing(t) \/ Queueing(t) \/ Fail(t)

Spec == Init /\ [][Next]_vars

-----------------------------------------------------------------------------
(* Properties                                                              *)

\* A token that is on the screen of a terminal stands for the item it was
\* printed for when a later command looks it up (MakeHistory, saveHistory,
\* GetHistory), so that `queue delete @2` deletes the queue that was listed as
\* @2; that is, as long as the command that printed it came to its end and no
\* other terminal began to save tokens of its own.
TokensMeanShown ==
  \A t \in Terminals :
    cmd[t].pc # "done" /\ cmd[t].sure => cmd[t].target = cmd[t].meant

\* Who follows the "..." token of a listing page by page (addNextPageRow,
\* createListRequest) sees no queue twice, and at the end has seen each that
\* existed all the while.
PagesCover ==
  \A t \in Terminals : walk[t].sure =>
    /\ IsInjective(walk[t].seen)
    /\ walk[t].next = <<>> => walk[t].began \cap live \subseteq ToSet(walk[t].seen)

\* What runDequeueCmd leaves in the file.  A dequeue that succeeds leaves the
\* messages the service took out for its last request, in their order and no
\* more than was asked for; they are all that were taken out unless a reply was
\* lost on the way.  One that fails, unless it was cut off while it wrote, leaves
\* the file as it found it: messages an earlier one has saved are not lost.
DequeueExact ==
  \A t \in Terminals : At(t, "dequeue", "done") =>
    /\ cmd[t].result = "ok" =>
         /\ IsSuffix(out[t], cmd[t].taken)
         /\ Len(out[t]) <= Max({cmd[t].limit, 1})
         /\ ~cmd[t].again => out[t] = cmd[t].taken
         /\ \A i, j \in DOMAIN out[t] : i < j => out[t][i] < out[t][j]
    /\ cmd[t].result = "failed" => out[t] = cmd[t].before
=============================================================================
