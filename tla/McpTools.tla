------------------------------ MODULE McpTools ------------------------------
(***************************************************************************)
(* Tool discovery in the MCP server (pkg/mcp/server.go): the handler of    *)
(* select_tools finds tools on the platform, makes them the selection of   *)
(* its session, registers them with the server, whose registry all the     *)
(* sessions share, and tells the client; the filter of tools/list shows a  *)
(* session its selection.  mcp-go runs the handlers concurrently.  The     *)
(* built-in tools, always registered and always shown, are left out.       *)
(***************************************************************************)
EXTENDS Naturals

CONSTANTS
  Handlers,      \* handlers that may run at a time
  Sessions,      \* one with stdio, one per client with SSE
  Tools,         \* tool names
  Services,      \* services of the platform
  NoService,     \* the empty service id
  MaxRequests    \* bound: requests served

ASSUME ToolsAssumption ==
  /\ NoService \notin Services
  /\ MaxRequests \in Nat

VARIABLES
  selected,   \* the allowlist of each session, and the names of its order
  registry,   \* tools registered with the server, by name
  handler,    \* locals of the handlers
  requests,   \* requests begun
  told,       \* per session: the tools announced by its last select_tools,
              \* when no other one of the session overlapped it
  ever,       \* per session: all it ever selected
  listed      \* the last reply to tools/list

vars == <<selected, registry, handler, requests, told, ever, listed>>

\* service is the id reported to the client, target the one its handler calls.
Tool == [service: Services, target: Services \cup {NoService}]
Inventory == UNION {[names -> Tool] : names \in SUBSET Tools}

\* What was found, or announced; Nothing stands for "not known to the client".
Nothing == [known |-> FALSE, tools |-> <<>>]
Known(tools) == [known |-> TRUE, tools |-> tools]

\* "search" to "notify" are the steps of select_tools, "filter" and "order"
\* those of tools/list.
Locals ==
  [pc: {"idle", "search", "allow", "register", "notify", "filter", "order"},
   session: Sessions, found: Inventory, alone: BOOLEAN,
   tools: SUBSET Tools, allowed: SUBSET Tools,
   due: [known: BOOLEAN, tools: Inventory]]

TypeOK ==
  /\ selected \in [Sessions -> SUBSET Tools]
  /\ registry \in Inventory
  /\ handler \in [Handlers -> Locals]
  /\ requests \in 0..MaxRequests
  /\ told \in [Sessions -> [known: BOOLEAN, tools: Inventory]]
  /\ ever \in [Sessions -> SUBSET Tools]
  /\ listed \in [session: Sessions, names: SUBSET Tools,
                 due: [known: BOOLEAN, tools: Inventory]]

Idle(s) == [pc |-> "idle", session |-> s, found |-> <<>>, alone |-> FALSE,
            tools |-> {}, allowed |-> {}, due |-> Nothing]

Init ==
  /\ selected = [s \in Sessions |-> {}]
  /\ registry = <<>>
  /\ \E s \in Sessions :
       /\ handler = [h \in Handlers |-> Idle(s)]
       /\ listed = [session |-> s, names |-> {}, due |-> Nothing]
  /\ requests = 0
  /\ told = [s \in Sessions |-> Nothing]
  /\ ever = [s \in Sessions |-> {}]

Step(h, locals) == handler' = [handler EXCEPT ![h] = locals]

-----------------------------------------------------------------------------
(* select_tools                                                            *)

Selecting(h) == handler[h].pc \in {"search", "allow", "register", "notify"}

\* From now on the session's client does not know what to expect of a list.
BeginSelect(h, s) ==
  /\ handler[h].pc = "idle"
  /\ requests < MaxRequests
  /\ requests' = requests + 1
  /\ LET others == {g \in Handlers : handler[g].pc # "idle"
                                     /\ handler[g].session = s}
     IN  handler' = [g \in Handlers |->
           IF g = h THEN [Idle(s) EXCEPT !.pc = "search",
                            !.alone = \A o \in others : ~Selecting(o)]
           ELSE IF g \in others
           THEN [handler[g] EXCEPT !.alone = FALSE, !.due = Nothing]
           ELSE handler[g]]
  /\ told' = [told EXCEPT ![s] = Nothing]
  /\ UNCHANGED <<selected, registry, ever, listed>>

\* What parseTool makes of an aspect of service v: the handler calls the
\* aspect's own service-id, an empty one is replaced in the report only.
ParsedTools(v) == {[service |-> v, target |-> id] : id \in {v, NoService}}

\* discoverToolsViaServiceSearch: any tools, each of one of the services; a
\* name found twice is the later service's.
Discover(h) ==
  /\ handler[h].pc = "search"
  /\ \E names \in SUBSET Tools :
       \E found \in [names -> UNION {ParsedTools(v) : v \in Services}] :
         Step(h, [handler[h] EXCEPT !.pc = "allow", !.found = found])
  /\ UNCHANGED <<selected, registry, requests, told, ever, listed>>

\* No adapter (login required), or the platform fails: nothing is changed.
DiscoveryFails(h) ==
  /\ handler[h].pc = "search"
  /\ Step(h, Idle(handler[h].session))
  /\ UNCHANGED <<selected, registry, requests, told, ever, listed>>

\* Mutant: the selection of stdio's static session id is replaced.
SetSessionAllowlistStatic(h) ==
  /\ handler[h].pc = "allow"
  /\ LET names == DOMAIN handler[h].found
     IN  /\ selected' = [s \in Sessions |-> names]
         /\ ever' = [ever EXCEPT ![handler[h].session] = @ \cup names]
  /\ Step(h, [handler[h] EXCEPT !.pc = "register"])
  /\ UNCHANGED <<registry, requests, told, listed>>

\* Mutant: the new selection is added to the old one.
SetSessionAllowlistMerging(h) ==
  /\ handler[h].pc = "allow"
  /\ LET names == DOMAIN handler[h].found
     IN  /\ selected' = [selected EXCEPT ![handler[h].session] = @ \cup names]
         /\ ever' = [ever EXCEPT ![handler[h].session] = @ \cup names]
  /\ Step(h, [handler[h] EXCEPT !.pc = "register"])
  /\ UNCHANGED <<registry, requests, told, listed>>

SetSessionAllowlist(h) ==
  /\ handler[h].pc = "allow"
  /\ LET s     == handler[h].session
         names == DOMAIN handler[h].found
     IN  /\ selected' = [selected EXCEPT ![s] = names]
         /\ ever' = [ever EXCEPT ![s] = @ \cup names]
  /\ Step(h, [handler[h] EXCEPT !.pc = "register"])
  /\ UNCHANGED <<registry, requests, told, listed>>

\* The list_changed notification reaches the client of h.
Announce(h) ==
  told' = IF handler[h].alone
          THEN [told EXCEPT ![handler[h].session] = Known(handler[h].found)]
          ELSE told

\* Mutant: a tool that is registered is not registered again.
AddNewTools(h) ==
  /\ handler[h].pc = "register"
  /\ registry' = [n \in DOMAIN registry \cup DOMAIN handler[h].found |->
                    IF n \in DOMAIN registry THEN registry[n]
                    ELSE handler[h].found[n]]
  /\ IF DOMAIN handler[h].found # {} THEN Announce(h) ELSE UNCHANGED told
  /\ Step(h, [handler[h] EXCEPT !.pc = "notify"])
  /\ UNCHANGED <<selected, requests, ever, listed>>

\* AddTools replaces tools of the same name, and notifies every client.
AddTools(h) ==
  /\ handler[h].pc = "register"
  /\ LET found == handler[h].found
     IN  /\ registry' = [n \in DOMAIN registry \cup DOMAIN found |->
                           IF n \in DOMAIN found THEN found[n]
                           ELSE registry[n]]
         /\ IF DOMAIN found # {} THEN Announce(h) ELSE UNCHANGED told
  /\ Step(h, [handler[h] EXCEPT !.pc = "notify"])
  /\ UNCHANGED <<selected, requests, ever, listed>>

NotifyAndReturn(h) ==
  /\ handler[h].pc = "notify"
  /\ Announce(h)
  /\ Step(h, Idle(handler[h].session))
  /\ UNCHANGED <<selected, registry, requests, ever, listed>>

-----------------------------------------------------------------------------
(* tools/list                                                              *)

\* The server takes the registered tools, then calls the filter.
BeginList(h, s) ==
  /\ handler[h].pc = "idle"
  /\ requests < MaxRequests
  /\ requests' = requests + 1
  /\ Step(h, [Idle(s) EXCEPT !.pc = "filter", !.tools = DOMAIN registry,
                             !.due = told[s]])
  /\ UNCHANGED <<selected, registry, told, ever, listed>>

\* getSessionAllowlist and getSessionToolOrder take the lock one after the
\* other.
GetSessionAllowlist(h) ==
  /\ handler[h].pc = "filter"
  /\ Step(h, [handler[h] EXCEPT !.pc = "order",
                                !.allowed = selected[handler[h].session]])
  /\ UNCHANGED <<selected, registry, requests, told, ever, listed>>

FilterByOrder(h) ==
  /\ handler[h].pc = "order"
  /\ LET l == handler[h]
     IN  listed' = [session |-> l.session, due |-> l.due,
                    names |-> selected[l.session] \cap l.allowed \cap l.tools]
  /\ Step(h, Idle(handler[h].session))
  /\ UNCHANGED <<selected, registry, requests, told, ever>>

-----------------------------------------------------------------------------

Next == \E h \in Handlers :
  \/ \E s \in Sessions : BeginSelect(h, s) \/ BeginList(h, s)
  \/ Discover(h)
  \/ DiscoveryFails(h)
  \/ SetSessionAllowlist(h)
  \/ AddTools(h)
  \/ NotifyAndReturn(h)
  \/ GetSessionAllowlist(h)
  \/ FilterByOrder(h)

Spec == Init /\ [][Next]_vars

-----------------------------------------------------------------------------

\* A client that lists the tools once it was notified gets the tools its
\* select_tools found, all of them and no others, whatever the other sessions
\* do meanwhile and unless its own session selects again.
ListFollowsSelection ==
  listed.due.known => listed.names = DOMAIN listed.due.tools

\* A session is never shown a tool it did not select, the filter's two
\* separate reads of the selection notwithstanding.
SessionsSeparate == listed.names \subseteq ever[listed.session]

\* A call of an announced tool goes to the service announced with it, and fails
\* for want of a service only where the announced tool's own aspect names none:
\* as long as no other session selects a tool of that name, which the registry
\* shared by all sessions would replace.
CallsAnnouncedService ==
  \A s \in Sessions : told[s].known =>
    \A n \in DOMAIN told[s].tools :
      \/ \E other \in Sessions \ {s} : n \in ever[other]
      \/ /\ n \in DOMAIN registry
         /\ registry[n].target \in {told[s].tools[n].service, NoService}
         /\ registry[n].target = NoService =>
              told[s].tools[n].target = NoService

\* server.go:435 says that an aspect without a service-id falls back to the
\* service it was found for: a tool announced with a service calls that one.
FallsBackToService ==
  \A s \in Sessions : told[s].known =>
    \A n \in DOMAIN told[s].tools :
      told[s].tools[n].target = told[s].tools[n].service
=============================================================================
