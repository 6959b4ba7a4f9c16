------------------------------ MODULE McpProofs ------------------------------
(***************************************************************************)
(* Proofs about McpTools for every set of handlers, sessions, tools and    *)
(* services and every number of requests: ListFollowsSelection,            *)
(* SessionsSeparate and, where aspects name their service,                 *)
(* CallsAnnouncedService; and about JobWatch, for every number of checks:  *)
(* ShownIsFinal.                                                      *)
(***************************************************************************)
EXTENDS McpTools, JobWatch, SequenceTheorems, TLAPS

-----------------------------------------------------------------------------
(* Types                                                                   *)

LEMMA InventoryFunctions ==
  \A f : f \in Inventory <=>
    /\ f = [n \in DOMAIN f |-> f[n]]
    /\ DOMAIN f \subseteq Tools
    /\ \A n \in DOMAIN f : f[n] \in Tool
BY DEF Inventory

LEMMA NoTools == <<>> \in Inventory /\ DOMAIN <<>> = {}
<1>1. <<>> \in Seq(Tool) /\ Len(<<>>) = 0
  BY EmptySeq
<1>2. <<>> \in [{} -> Tool]
  BY <1>1, LenProperties
<1> QED
  BY <1>2 DEF Inventory

LEMMA TypeInit ==
  ASSUME Init
  PROVE  TypeOK
<1>1. PICK s \in Sessions :
        /\ handler = [h \in Handlers |-> Idle(s)]
        /\ listed = [session |-> s, names |-> {}, due |-> Nothing]
  BY DEF Init
<1>2. Nothing \in [known: BOOLEAN, tools: Inventory]
  BY NoTools DEF Nothing
<1>3. Idle(s) \in Locals
  BY <1>2, NoTools DEF Idle, Locals
<1>4. handler \in [Handlers -> Locals]
  BY <1>1, <1>3
<1>5. /\ told \in [Sessions -> [known: BOOLEAN, tools: Inventory]]
      /\ listed \in [session: Sessions, names: SUBSET Tools,
                     due: [known: BOOLEAN, tools: Inventory]]
  BY <1>1, <1>2 DEF Init
<1> QED
  BY <1>4, <1>5, NoTools, ToolsAssumption DEF Init, TypeOK

\* Telling a client what was found keeps the type of what clients know.
LEMMA AnnounceType ==
  ASSUME TypeOK, NEW h \in Handlers, Announce(h) \/ UNCHANGED told
  PROVE  told' \in [Sessions -> [known: BOOLEAN, tools: Inventory]]
<1>1. /\ handler[h].found \in Inventory
      /\ told \in [Sessions -> [known: BOOLEAN, tools: Inventory]]
  BY DEF TypeOK, Locals
<1>2. Known(handler[h].found) \in [known: BOOLEAN, tools: Inventory]
  BY <1>1 DEF Known
<1> QED
  BY <1>1, <1>2 DEF Announce

LEMMA IdleType ==
  \A s \in Sessions : Idle(s) \in Locals
<1>1. Nothing \in [known: BOOLEAN, tools: Inventory]
  BY NoTools DEF Nothing
<1> QED
  BY <1>1, NoTools DEF Idle, Locals

HasFields(l) ==
  l = [pc |-> l.pc, session |-> l.session, found |-> l.found,
       alone |-> l.alone, tools |-> l.tools, allowed |-> l.allowed, due |-> l.due]

Due == [known: BOOLEAN, tools: Inventory]

\* A record of locals, field by field.
LEMMA LocalsFields ==
  \A l : l \in Locals <=>
    /\ HasFields(l)
    /\ l.pc \in {"idle", "search", "allow", "register", "notify", "filter", "order"}
    /\ l.session \in Sessions
    /\ l.found \in Inventory
    /\ l.alone \in BOOLEAN
    /\ l.tools \in SUBSET Tools
    /\ l.allowed \in SUBSET Tools
    /\ l.due \in Due
BY DEF Locals, HasFields, Due

LEMMA RequestsType ==
  ASSUME TypeOK, requests < MaxRequests, requests' = requests + 1
  PROVE  requests' \in 0..MaxRequests
<1>1. requests \in 0..MaxRequests /\ MaxRequests \in Nat
  BY ToolsAssumption DEF TypeOK
<1> QED
  BY <1>1

LEMMA BeginSelectType ==
  ASSUME TypeOK, NEW h \in Handlers, NEW s \in Sessions, BeginSelect(h, s)
  PROVE  TypeOK'
<1> DEFINE D == [known: BOOLEAN, tools: Inventory]
<1>1. Nothing \in D
  BY NoTools DEF Nothing
<1>2. told' \in [Sessions -> D]
  BY <1>1 DEF TypeOK, BeginSelect
<1>3. requests' \in 0..MaxRequests
  BY RequestsType DEF BeginSelect
<1>4. ASSUME NEW b \in BOOLEAN
      PROVE  [Idle(s) EXCEPT !.pc = "search", !.alone = b] \in Locals
  <2> DEFINE l == Idle(s)
             m == [Idle(s) EXCEPT !.pc = "search", !.alone = b]
  <2>1. /\ HasFields(l) /\ l.session \in Sessions /\ l.found \in Inventory
        /\ l.tools \in SUBSET Tools /\ l.allowed \in SUBSET Tools /\ l.due \in Due
    BY IdleType, LocalsFields
  <2>2. m = [l EXCEPT !.pc = "search", !.alone = b]
    OBVIOUS
  <2> HIDE DEF m, l
  <2>3. /\ HasFields(m) /\ m.pc = "search" /\ m.alone = b
        /\ m.session = l.session /\ m.found = l.found
        /\ m.tools = l.tools /\ m.allowed = l.allowed /\ m.due = l.due
    BY <2>1, <2>2 DEF HasFields
  <2>4. m \in Locals
    BY <2>1, <2>3, LocalsFields
  <2> QED
    BY <2>4 DEF m, l
<1>5. ASSUME NEW g \in Handlers
      PROVE  [handler[g] EXCEPT !.alone = FALSE, !.due = Nothing] \in Locals
  <2> DEFINE l == handler[g]
             m == [handler[g] EXCEPT !.alone = FALSE, !.due = Nothing]
  <2>1. l \in Locals /\ Nothing \in Due
    BY <1>1 DEF TypeOK, Due
  <2>2. HasFields(l)
    BY <2>1, LocalsFields
  <2>3. m = [l EXCEPT !.alone = FALSE, !.due = Nothing]
    OBVIOUS
  <2> HIDE DEF m, l
  <2>4. /\ HasFields(m) /\ m.pc = l.pc /\ m.alone = FALSE
        /\ m.session = l.session /\ m.found = l.found
        /\ m.tools = l.tools /\ m.allowed = l.allowed /\ m.due = Nothing
    BY <2>2, <2>3 DEF HasFields
  <2>5. m \in Locals
    BY <2>1, <2>4, LocalsFields
  <2> QED
    BY <2>5 DEF m, l
<1>6. \A g \in Handlers : handler'[g] \in Locals
  BY <1>4, <1>5 DEF TypeOK, BeginSelect
<1>7. handler' \in [Handlers -> Locals]
  BY <1>6 DEF BeginSelect
<1> QED
  BY <1>2, <1>3, <1>7 DEF TypeOK, BeginSelect

LEMMA TypeStep ==
  ASSUME TypeOK, [Next]_vars
  PROVE  TypeOK'
<1> DEFINE D == [known: BOOLEAN, tools: Inventory]
<1>0. handler \in [Handlers -> Locals]
  BY DEF TypeOK
<1>1. ASSUME NEW h \in Handlers, NEW s \in Sessions, BeginSelect(h, s)
      PROVE  TypeOK'
  BY <1>1, BeginSelectType
<1>2. ASSUME NEW h \in Handlers, NEW s \in Sessions, BeginList(h, s)
      PROVE  TypeOK'
  <2>1. [Idle(s) EXCEPT !.pc = "filter", !.tools = DOMAIN registry, !.due = told[s]]
          \in Locals
    <3> DEFINE l == Idle(s)
               m == [Idle(s) EXCEPT !.pc = "filter", !.tools = DOMAIN registry,
                                    !.due = told[s]]
    <3>1. l \in Locals /\ told[s] \in Due /\ DOMAIN registry \subseteq Tools
      BY IdleType, InventoryFunctions DEF TypeOK, Due
    <3>2. HasFields(l)
      BY <3>1, LocalsFields
    <3>3. m = [l EXCEPT !.pc = "filter", !.tools = DOMAIN registry, !.due = told[s]]
      OBVIOUS
    <3> HIDE DEF m, l
    <3>4. /\ HasFields(m) /\ m.pc = "filter" /\ m.alone = l.alone
          /\ m.session = l.session /\ m.found = l.found
          /\ m.tools = DOMAIN registry /\ m.allowed = l.allowed /\ m.due = told[s]
      BY <3>2, <3>3 DEF HasFields
    <3>5. m \in Locals
      BY <3>1, <3>2, <3>4, LocalsFields
    <3> QED
      BY <3>5 DEF m, l
  <2>2. handler' \in [Handlers -> Locals]
    BY <1>0, <1>2, <2>1 DEF BeginList, Step
  <2> QED
    BY <1>2, <2>2, ToolsAssumption DEF TypeOK, BeginList
<1>3. ASSUME NEW h \in Handlers, Discover(h)
      PROVE  TypeOK'
  <2>1. PICK names \in SUBSET Tools :
          \E found \in [names -> UNION {ParsedTools(v) : v \in Services}] :
            Step(h, [handler[h] EXCEPT !.pc = "allow", !.found = found])
    BY <1>3 DEF Discover
  <2>2. PICK found \in [names -> UNION {ParsedTools(v) : v \in Services}] :
          Step(h, [handler[h] EXCEPT !.pc = "allow", !.found = found])
    BY <2>1
  <2>3. \A v \in Services : ParsedTools(v) \subseteq Tool
    BY DEF ParsedTools, Tool
  <2>4. found \in Inventory
    BY <2>2, <2>3 DEF Inventory
  <2>5. [handler[h] EXCEPT !.pc = "allow", !.found = found] \in Locals
    BY <1>0, <2>4 DEF Locals
  <2>6. handler' \in [Handlers -> Locals]
    BY <1>0, <2>2, <2>5 DEF Step
  <2> QED
    BY <1>3, <2>6 DEF TypeOK, Discover
<1>4. ASSUME NEW h \in Handlers, DiscoveryFails(h)
      PROVE  TypeOK'
  <2>1. handler' \in [Handlers -> Locals]
    BY <1>0, <1>4, IdleType DEF DiscoveryFails, Step, Locals
  <2> QED
    BY <1>4, <2>1 DEF TypeOK, DiscoveryFails
<1>5. ASSUME NEW h \in Handlers, SetSessionAllowlist(h)
      PROVE  TypeOK'
  <2>1. /\ handler[h].session \in Sessions
        /\ DOMAIN handler[h].found \subseteq Tools
    BY <1>0, InventoryFunctions DEF Locals
  <2>2. [handler[h] EXCEPT !.pc = "register"] \in Locals
    BY <1>0 DEF Locals
  <2>3. handler' \in [Handlers -> Locals]
    BY <1>0, <1>5, <2>2 DEF SetSessionAllowlist, Step
  <2>4. /\ selected' \in [Sessions -> SUBSET Tools]
        /\ ever' \in [Sessions -> SUBSET Tools]
    BY <1>5, <2>1 DEF TypeOK, SetSessionAllowlist
  <2> QED
    BY <1>5, <2>3, <2>4 DEF TypeOK, SetSessionAllowlist
<1>6. ASSUME NEW h \in Handlers, AddTools(h)
      PROVE  TypeOK'
  <2>1. [handler[h] EXCEPT !.pc = "notify"] \in Locals
    BY <1>0 DEF Locals
  <2>2. handler' \in [Handlers -> Locals]
    BY <1>0, <1>6, <2>1 DEF AddTools, Step
  <2>3. told' \in [Sessions -> D]
    BY <1>6, AnnounceType DEF AddTools
  <2>4. registry' \in Inventory
    <3>1. registry \in Inventory /\ handler[h].found \in Inventory
      BY <1>0 DEF TypeOK, Locals
    <3>2. registry' = [n \in DOMAIN registry \cup DOMAIN handler[h].found |->
                         IF n \in DOMAIN handler[h].found
                         THEN handler[h].found[n] ELSE registry[n]]
      BY <1>6 DEF AddTools
    <3>3. /\ DOMAIN registry' = DOMAIN registry \cup DOMAIN handler[h].found
          /\ DOMAIN registry' \subseteq Tools
          /\ \A n \in DOMAIN registry' : registry'[n] \in Tool
      BY <3>1, <3>2, InventoryFunctions
    <3>4. registry' = [n \in DOMAIN registry' |-> registry'[n]]
      BY <3>2
    <3> QED
      BY <3>3, <3>4, InventoryFunctions
  <2> QED
    BY <1>6, <2>2, <2>3, <2>4 DEF TypeOK, AddTools
<1>7. ASSUME NEW h \in Handlers, NotifyAndReturn(h)
      PROVE  TypeOK'
  <2>1. handler' \in [Handlers -> Locals]
    BY <1>0, <1>7, IdleType DEF NotifyAndReturn, Step, Locals
  <2>2. told' \in [Sessions -> D]
    BY <1>7, AnnounceType DEF NotifyAndReturn
  <2> QED
    BY <1>7, <2>1, <2>2 DEF TypeOK, NotifyAndReturn
<1>8. ASSUME NEW h \in Handlers, GetSessionAllowlist(h)
      PROVE  TypeOK'
  <2>1. [handler[h] EXCEPT !.pc = "order", !.allowed = selected[handler[h].session]]
          \in Locals
    <3> DEFINE l == handler[h]
               m == [handler[h] EXCEPT !.pc = "order",
                                       !.allowed = selected[handler[h].session]]
    <3>1. l \in Locals
      BY <1>0
    <3>2. HasFields(l) /\ l.session \in Sessions
      BY <3>1, LocalsFields
    <3>3. selected[l.session] \in SUBSET Tools
      BY <3>2 DEF TypeOK
    <3>4. m = [l EXCEPT !.pc = "order", !.allowed = selected[l.session]]
      OBVIOUS
    <3> HIDE DEF m, l
    <3>5. /\ HasFields(m) /\ m.pc = "order" /\ m.alone = l.alone
          /\ m.session = l.session /\ m.found = l.found
          /\ m.tools = l.tools /\ m.allowed = selected[l.session] /\ m.due = l.due
      BY <3>2, <3>4 DEF HasFields
    <3>6. m \in Locals
      BY <3>1, <3>2, <3>3, <3>5, LocalsFields
    <3> QED
      BY <3>6 DEF m, l
  <2>2. handler' \in [Handlers -> Locals]
    BY <1>0, <1>8, <2>1 DEF GetSessionAllowlist, Step
  <2> QED
    BY <1>8, <2>2 DEF TypeOK, GetSessionAllowlist
<1>9. ASSUME NEW h \in Handlers, FilterByOrder(h)
      PROVE  TypeOK'
  <2>1. handler' \in [Handlers -> Locals]
    BY <1>0, <1>9, IdleType DEF FilterByOrder, Step, Locals
  <2>2. listed' \in [session: Sessions, names: SUBSET Tools, due: D]
    BY <1>0, <1>9 DEF FilterByOrder, Locals, TypeOK
  <2> QED
    BY <1>9, <2>1, <2>2 DEF TypeOK, FilterByOrder
<1>10. CASE UNCHANGED vars
  BY <1>10 DEF vars, TypeOK
<1> QED
  BY <1>1, <1>2, <1>3, <1>4, <1>5, <1>6, <1>7, <1>8, <1>9, <1>10 DEF Next

\* The allowlists, the registry and the locals of the handlers keep their
\* types, at whatever steps the handlers interleave.
THEOREM TypeCorrect == Spec => []TypeOK
BY TypeInit, TypeStep, PTL DEF Spec

-----------------------------------------------------------------------------
(* The strengthened invariant                                              *)

\* What a session is shown, it selected.
Separate ==
  /\ \A s \in Sessions : selected[s] \subseteq ever[s]
  /\ SessionsSeparate

\* Two select_tools of a session at a time know of each other.
Exclusive ==
  \A g, h \in Handlers :
    g # h /\ Selecting(g) /\ Selecting(h)
          /\ handler[g].session = handler[h].session => ~handler[h].alone

\* A select_tools that nobody overlaps finds its own selection in place.
Effective ==
  \A h \in Handlers :
    handler[h].pc \in {"register", "notify"} /\ handler[h].alone
      => selected[handler[h].session] = DOMAIN handler[h].found

Registered ==
  \A h \in Handlers :
    handler[h].pc = "notify" => DOMAIN handler[h].found \subseteq DOMAIN registry

\* What a client knows of is selected and registered.
Announced ==
  \A s \in Sessions : told[s].known =>
    /\ selected[s] = DOMAIN told[s].tools
    /\ DOMAIN told[s].tools \subseteq DOMAIN registry

\* The select_tools of such a client, if not over, has only to return.
Settled ==
  \A h \in Handlers :
    Selecting(h) /\ told[handler[h].session].known
      => /\ handler[h].pc = "notify"
         /\ handler[h].alone
         /\ told[handler[h].session] = Known(handler[h].found)

\* A tools/list that began with such a client is still about what it knows.
Pending ==
  \A h \in Handlers :
    handler[h].pc \in {"filter", "order"} /\ handler[h].due.known
      => /\ told[handler[h].session] = handler[h].due
         /\ DOMAIN handler[h].due.tools \subseteq handler[h].tools
         /\ handler[h].pc = "order"
              => handler[h].allowed = DOMAIN handler[h].due.tools

Follows ==
  /\ Exclusive
  /\ Effective
  /\ Registered
  /\ Announced
  /\ Settled
  /\ Pending
  /\ ListFollowsSelection

\* A handler's tool calls the service that is reported, or none.
Named ==
  \A h \in Handlers : \A n \in DOMAIN handler[h].found :
    handler[h].found[n].target \in {handler[h].found[n].service, NoService}

Claimed ==
  \A h \in Handlers :
    handler[h].pc \in {"register", "notify"}
      => DOMAIN handler[h].found \subseteq ever[handler[h].session]

\* A tool once registered is only replaced for another session.
Standing ==
  \A h \in Handlers : handler[h].pc = "notify" /\ handler[h].alone =>
    \A n \in DOMAIN handler[h].found :
      \/ \E other \in Sessions \ {handler[h].session} : n \in ever[other]
      \/ n \in DOMAIN registry /\ registry[n] = handler[h].found[n]

Reaches ==
  /\ Named
  /\ Claimed
  /\ Standing
  /\ CallsAnnouncedService

-----------------------------------------------------------------------------
(* What a step does to the locals, field by field                          *)

Others(h) == \A g \in Handlers : g # h => handler'[g] = handler[g]

\* The locals of h but for where it stands.
Advances(h, pc) ==
  /\ Others(h)
  /\ handler'[h].pc = pc
  /\ handler'[h].session = handler[h].session
  /\ handler'[h].found = handler[h].found
  /\ handler'[h].alone = handler[h].alone

Ends(h) ==
  /\ Others(h)
  /\ handler'[h].pc = "idle"
  /\ DOMAIN handler'[h].found = {}

LEMMA OwnLocals ==
  ASSUME TypeOK, NEW h \in Handlers
  PROVE  /\ HasFields(handler[h])
         /\ handler[h].session \in Sessions
         /\ handler[h].found \in Inventory
         /\ handler[h].alone \in BOOLEAN
         /\ handler[h].due \in Due
BY LocalsFields DEF TypeOK

LEMMA AdvanceEffect ==
  ASSUME TypeOK, NEW h \in Handlers, NEW pc, Step(h, [handler[h] EXCEPT !.pc = pc])
  PROVE  Advances(h, pc)
<1> DEFINE l == handler[h]
           m == handler'[h]
<1>1. Others(h) /\ m = [l EXCEPT !.pc = pc]
  BY DEF TypeOK, Step, Others
<1>2. HasFields(l)
  BY OwnLocals
<1> HIDE DEF l, m
<1>3. /\ m.pc = pc /\ m.session = l.session
      /\ m.found = l.found /\ m.alone = l.alone
  BY <1>1, <1>2 DEF HasFields
<1> QED
  BY <1>1, <1>3 DEF Advances, l, m

LEMMA EndEffect ==
  ASSUME TypeOK, NEW h \in Handlers, Step(h, Idle(handler[h].session))
  PROVE  Ends(h)
<1>1. Others(h) /\ handler'[h] = Idle(handler[h].session)
  BY DEF TypeOK, Step, Others
<1> QED
  BY <1>1, NoTools DEF Ends, Idle

LEMMA BeginListEffect ==
  ASSUME TypeOK, NEW h \in Handlers, NEW s \in Sessions, BeginList(h, s)
  PROVE  /\ Others(h)
         /\ handler'[h].pc = "filter"
         /\ handler'[h].session = s
         /\ DOMAIN handler'[h].found = {}
         /\ handler'[h].tools = DOMAIN registry
         /\ handler'[h].due = told[s]
<1> DEFINE l == Idle(s)
           m == handler'[h]
<1>1. Others(h) /\ m = [l EXCEPT !.pc = "filter", !.tools = DOMAIN registry,
                                 !.due = told[s]]
  BY DEF TypeOK, BeginList, Step, Others
<1>2. HasFields(l) /\ l.session = s /\ DOMAIN l.found = {}
  BY IdleType, LocalsFields, NoTools DEF Idle
<1> HIDE DEF l, m
<1>3. /\ m.pc = "filter" /\ m.session = l.session /\ m.found = l.found
      /\ m.tools = DOMAIN registry /\ m.due = told[s]
  BY <1>1, <1>2 DEF HasFields
<1> QED
  BY <1>1, <1>2, <1>3 DEF m

LEMMA DiscoverEffect ==
  ASSUME TypeOK, NEW h \in Handlers, Discover(h)
  PROVE  /\ Others(h)
         /\ handler'[h].pc = "allow"
         /\ handler'[h].session = handler[h].session
         /\ handler'[h].alone = handler[h].alone
         /\ \A n \in DOMAIN handler'[h].found :
              handler'[h].found[n].target
                \in {handler'[h].found[n].service, NoService}
<1> DEFINE l == handler[h]
           m == handler'[h]
<1>1. PICK names \in SUBSET Tools :
        \E found \in [names -> UNION {ParsedTools(v) : v \in Services}] :
          Step(h, [handler[h] EXCEPT !.pc = "allow", !.found = found])
  BY DEF Discover
<1>2. PICK found \in [names -> UNION {ParsedTools(v) : v \in Services}] :
        Step(h, [handler[h] EXCEPT !.pc = "allow", !.found = found])
  BY <1>1
<1>3. Others(h) /\ m = [l EXCEPT !.pc = "allow", !.found = found]
  BY <1>2 DEF TypeOK, Step, Others
<1>4. HasFields(l)
  BY OwnLocals
<1>5. \A n \in DOMAIN found : found[n].target \in {found[n].service, NoService}
  <2>1. \A v \in Services : \A t \in ParsedTools(v) :
          t.target \in {t.service, NoService}
    BY DEF ParsedTools
  <2> QED
    BY <1>2, <2>1
<1> HIDE DEF l, m
<1>6. /\ m.pc = "allow" /\ m.session = l.session
      /\ m.found = found /\ m.alone = l.alone
  BY <1>3, <1>4 DEF HasFields
<1> QED
  BY <1>3, <1>5, <1>6 DEF l, m

LEMMA GetSessionAllowlistEffect ==
  ASSUME TypeOK, NEW h \in Handlers, GetSessionAllowlist(h)
  PROVE  /\ Advances(h, "order")
         /\ handler'[h].tools = handler[h].tools
         /\ handler'[h].due = handler[h].due
         /\ handler'[h].allowed = selected[handler[h].session]
<1> DEFINE l == handler[h]
           m == handler'[h]
           a == selected[handler[h].session]
<1>1. Others(h) /\ m = [l EXCEPT !.pc = "order", !.allowed = a]
  BY DEF TypeOK, GetSessionAllowlist, Step, Others
<1>2. HasFields(l)
  BY OwnLocals
<1> HIDE DEF l, m, a
<1>3. /\ m.pc = "order" /\ m.session = l.session /\ m.found = l.found
      /\ m.alone = l.alone /\ m.tools = l.tools /\ m.due = l.due /\ m.allowed = a
  BY <1>1, <1>2 DEF HasFields
<1> QED
  BY <1>1, <1>3 DEF Advances, l, m, a

\* A select_tools begins: it is alone if no other one of its session is under
\* way, and the other requests of the session are not any more.
LEMMA BeginSelectEffect ==
  ASSUME TypeOK, NEW h \in Handlers, NEW s \in Sessions, BeginSelect(h, s)
  PROVE  /\ handler'[h].pc = "search"
         /\ handler'[h].session = s
         /\ DOMAIN handler'[h].found = {}
         /\ handler'[h].alone => \A g \in Handlers :
              ~(g # h /\ Selecting(g) /\ handler[g].session = s)
         /\ \A g \in Handlers : g # h =>
              /\ handler'[g].pc = handler[g].pc
              /\ handler'[g].session = handler[g].session
              /\ handler'[g].found = handler[g].found
              /\ IF handler[g].pc # "idle" /\ handler[g].session = s
                 THEN ~handler'[g].alone /\ ~handler'[g].due.known
                 ELSE handler'[g] = handler[g]
<1> DEFINE others == {g \in Handlers : handler[g].pc # "idle"
                                       /\ handler[g].session = s}
           b == \A o \in others : ~Selecting(o)
<1>1. handler' = [g \in Handlers |->
         IF g = h THEN [Idle(s) EXCEPT !.pc = "search", !.alone = b]
         ELSE IF g \in others
         THEN [handler[g] EXCEPT !.alone = FALSE, !.due = Nothing]
         ELSE handler[g]]
  BY DEF BeginSelect
<1>2. b => \A g \in Handlers : ~(g # h /\ Selecting(g) /\ handler[g].session = s)
  BY DEF Selecting
<1>3. /\ handler'[h].pc = "search" /\ handler'[h].session = s
      /\ DOMAIN handler'[h].found = {} /\ handler'[h].alone = b
  <2> DEFINE l == Idle(s)
             m == handler'[h]
  <2>1. m = [l EXCEPT !.pc = "search", !.alone = b]
    BY <1>1
  <2>2. HasFields(l) /\ l.session = s /\ DOMAIN l.found = {}
    BY IdleType, LocalsFields, NoTools DEF Idle
  <2> HIDE DEF l, m, b
  <2>3. m.pc = "search" /\ m.session = l.session /\ m.found = l.found /\ m.alone = b
    BY <2>1, <2>2 DEF HasFields
  <2> QED
    BY <2>2, <2>3 DEF m
<1>4. ASSUME NEW g \in Handlers, g # h
      PROVE  /\ handler'[g].pc = handler[g].pc
             /\ handler'[g].session = handler[g].session
             /\ handler'[g].found = handler[g].found
             /\ IF handler[g].pc # "idle" /\ handler[g].session = s
                THEN ~handler'[g].alone /\ ~handler'[g].due.known
                ELSE handler'[g] = handler[g]
  <2>1. CASE g \in others
    <3> DEFINE l == handler[g]
               m == handler'[g]
    <3>1. m = [l EXCEPT !.alone = FALSE, !.due = Nothing]
      BY <1>1, <1>4, <2>1
    <3>2. HasFields(l)
      BY OwnLocals
    <3> HIDE DEF l, m, others
    <3>3. /\ m.pc = l.pc /\ m.session = l.session /\ m.found = l.found
          /\ m.alone = FALSE /\ m.due = Nothing
      BY <3>1, <3>2 DEF HasFields
    <3>4. ~m.due.known
      BY <3>3 DEF Nothing
    <3> QED
      BY <2>1, <3>3, <3>4 DEF l, m, others
  <2>2. CASE g \notin others
    BY <1>1, <1>4, <2>2
  <2> QED
    BY <2>1, <2>2
<1> QED
  BY <1>2, <1>3, <1>4

\* What the notification of h tells the client of its session.
LEMMA AnnounceEffect ==
  ASSUME TypeOK, NEW h \in Handlers, Announce(h)
  PROVE  \A s \in Sessions :
           told'[s] = IF handler[h].alone /\ s = handler[h].session
                      THEN Known(handler[h].found) ELSE told[s]
BY DEF TypeOK, Announce

LEMMA KnownFields ==
  ASSUME NEW tools
  PROVE  Known(tools).known /\ Known(tools).tools = tools
BY DEF Known

LEMMA RegistryEffect ==
  ASSUME TypeOK, NEW h \in Handlers, AddTools(h)
  PROVE  /\ DOMAIN registry' = DOMAIN registry \cup DOMAIN handler[h].found
         /\ \A n \in DOMAIN handler[h].found : registry'[n] = handler[h].found[n]
         /\ \A n \in DOMAIN registry \ DOMAIN handler[h].found :
              registry'[n] = registry[n]
BY DEF AddTools

LEMMA AllowlistEffect ==
  ASSUME TypeOK, NEW h \in Handlers, SetSessionAllowlist(h)
  PROVE  LET s == handler[h].session
             names == DOMAIN handler[h].found
         IN  /\ Advances(h, "register")
             /\ selected'[s] = names
             /\ ever'[s] = ever[s] \cup names
             /\ \A t \in Sessions : t # s => selected'[t] = selected[t]
                                            /\ ever'[t] = ever[t]
<1>1. Advances(h, "register")
  BY AdvanceEffect DEF SetSessionAllowlist
<1>2. handler[h].session \in Sessions
  BY OwnLocals
<1> QED
  BY <1>1, <1>2 DEF SetSessionAllowlist, TypeOK

-----------------------------------------------------------------------------
(* A session is shown what it selected                                     *)

LEMMA SeparateInit ==
  ASSUME Init
  PROVE  Separate
BY DEF Init, Separate, SessionsSeparate

LEMMA SeparateStep ==
  ASSUME TypeOK, Separate, [Next]_vars
  PROVE  Separate'
<1>1. ASSUME NEW h \in Handlers, NEW s \in Sessions, BeginSelect(h, s) \/ BeginList(h, s)
      PROVE  Separate'
  BY <1>1 DEF BeginSelect, BeginList, Separate, SessionsSeparate
<1>2. ASSUME NEW h \in Handlers,
             \/ Discover(h) \/ DiscoveryFails(h) \/ AddTools(h)
             \/ NotifyAndReturn(h) \/ GetSessionAllowlist(h)
      PROVE  Separate'
  BY <1>2 DEF Discover, DiscoveryFails, AddTools, NotifyAndReturn,
              GetSessionAllowlist, Separate, SessionsSeparate
<1>3. ASSUME NEW h \in Handlers, SetSessionAllowlist(h)
      PROVE  Separate'
  <2>1. \A s \in Sessions : selected'[s] \subseteq ever'[s] /\ ever[s] \subseteq ever'[s]
    BY <1>3, AllowlistEffect DEF Separate
  <2>2. listed' = listed /\ listed.session \in Sessions
    BY <1>3 DEF SetSessionAllowlist, TypeOK
  <2> QED
    BY <2>1, <2>2 DEF Separate, SessionsSeparate
<1>4. ASSUME NEW h \in Handlers, FilterByOrder(h)
      PROVE  Separate'
  <2>1. handler[h].session \in Sessions
    BY OwnLocals
  <2>2. /\ listed'.session = handler[h].session
        /\ listed'.names \subseteq selected[handler[h].session]
        /\ UNCHANGED <<selected, ever>>
    BY <1>4 DEF FilterByOrder
  <2> QED
    BY <2>1, <2>2 DEF Separate, SessionsSeparate
<1>5. CASE UNCHANGED vars
  BY <1>5 DEF vars, Separate, SessionsSeparate
<1> QED
  BY <1>1, <1>2, <1>3, <1>4, <1>5 DEF Next

\* The filter of tools/list never shows a session a tool that only others
\* selected.
THEOREM SessionsKeptApart == Spec => []SessionsSeparate
<1>1. TypeOK /\ Separate /\ [Next]_vars => Separate'
  BY SeparateStep
<1>2. Init => Separate
  BY SeparateInit
<1>3. Separate => SessionsSeparate
  BY DEF Separate
<1> QED
  BY <1>1, <1>2, <1>3, TypeCorrect, PTL DEF Spec

-----------------------------------------------------------------------------
(* A client's list follows its selection                                   *)

LEMMA AddToolsEffect ==
  ASSUME TypeOK, NEW h \in Handlers, AddTools(h)
  PROVE  /\ handler[h].pc = "register"
         /\ Advances(h, "notify")
         /\ \A s \in Sessions :
              \/ told'[s] = told[s]
              \/ /\ handler[h].alone
                 /\ s = handler[h].session
                 /\ told'[s] = Known(handler[h].found)
         /\ UNCHANGED <<selected, ever, listed>>
<1>1. Advances(h, "notify")
  BY AdvanceEffect DEF AddTools
<1> QED
  BY <1>1, AnnounceEffect DEF AddTools

LEMMA FollowsInit ==
  ASSUME Init
  PROVE  Follows
<1>1. /\ \A h \in Handlers : handler[h].pc = "idle"
      /\ \A s \in Sessions : ~told[s].known
      /\ ~listed.due.known
  BY DEF Init, Idle, Nothing
<1> QED
  BY <1>1 DEF Follows, Exclusive, Effective, Registered, Announced, Settled,
              Pending, Selecting, ListFollowsSelection

LEMMA FollowsBeginSelect ==
  ASSUME TypeOK, Follows, NEW h \in Handlers, NEW s \in Sessions, BeginSelect(h, s)
  PROVE  Follows'
<1>0. /\ handler[h].pc = "idle"
      /\ UNCHANGED <<selected, registry, listed>>
      /\ ~told'[s].known
      /\ \A t \in Sessions : t # s => told'[t] = told[t]
  BY DEF BeginSelect, Nothing, TypeOK
<1>e. /\ handler'[h].pc = "search"
      /\ handler'[h].session = s
      /\ handler'[h].alone => \A g \in Handlers :
           ~(g # h /\ Selecting(g) /\ handler[g].session = s)
      /\ \A g \in Handlers : g # h =>
           /\ handler'[g].pc = handler[g].pc
           /\ handler'[g].session = handler[g].session
           /\ handler'[g].found = handler[g].found
           /\ IF handler[g].pc # "idle" /\ handler[g].session = s
              THEN ~handler'[g].alone /\ ~handler'[g].due.known
              ELSE handler'[g] = handler[g]
  BY BeginSelectEffect
<1>s. \A g \in Handlers : handler[g].session \in Sessions
  BY OwnLocals
<1>1. Exclusive'
  BY <1>e DEF Follows, Exclusive, Selecting
<1>2. Effective'
  BY <1>0, <1>e DEF Follows, Effective
<1>3. Registered'
  BY <1>0, <1>e DEF Follows, Registered
<1>4. Announced'
  BY <1>0 DEF Follows, Announced
<1>5. Settled'
  BY <1>0, <1>e, <1>s DEF Follows, Settled, Selecting
<1>6. Pending'
  BY <1>0, <1>e, <1>s DEF Follows, Pending
<1>7. ListFollowsSelection'
  BY <1>0 DEF Follows, ListFollowsSelection
<1> QED
  BY <1>1, <1>2, <1>3, <1>4, <1>5, <1>6, <1>7 DEF Follows

LEMMA FollowsBeginList ==
  ASSUME TypeOK, Follows, NEW h \in Handlers, NEW s \in Sessions, BeginList(h, s)
  PROVE  Follows'
<1>0. UNCHANGED <<selected, registry, told, listed>>
  BY DEF BeginList
<1>e. /\ \A g \in Handlers : g # h => handler'[g] = handler[g]
      /\ handler'[h].pc = "filter"
      /\ handler'[h].session = s
      /\ handler'[h].tools = DOMAIN registry
      /\ handler'[h].due = told[s]
  BY BeginListEffect DEF Others
<1>1. Exclusive'
  BY <1>e DEF Follows, Exclusive, Selecting
<1>2. Effective' /\ Registered'
  BY <1>0, <1>e DEF Follows, Effective, Registered
<1>3. Announced' /\ ListFollowsSelection'
  BY <1>0 DEF Follows, Announced, ListFollowsSelection
<1>4. Settled'
  BY <1>0, <1>e DEF Follows, Settled, Selecting
<1>5. Pending'
  BY <1>0, <1>e DEF Follows, Pending, Announced
<1> QED
  BY <1>1, <1>2, <1>3, <1>4, <1>5 DEF Follows

\* A handler that has not made its selection yet, or gives up.
LEMMA FollowsSearch ==
  ASSUME TypeOK, Follows, NEW h \in Handlers, Discover(h) \/ DiscoveryFails(h)
  PROVE  Follows'
<1>0. /\ handler[h].pc = "search"
      /\ UNCHANGED <<selected, registry, told, listed>>
  BY DEF Discover, DiscoveryFails
<1>e. /\ \A g \in Handlers : g # h => handler'[g] = handler[g]
      /\ \/ handler'[h].pc = "idle"
         \/ /\ handler'[h].pc = "allow"
            /\ handler'[h].session = handler[h].session
            /\ handler'[h].alone = handler[h].alone
  BY DiscoverEffect, EndEffect DEF DiscoveryFails, Others, Ends
<1>1. Exclusive'
  BY <1>0, <1>e DEF Follows, Exclusive, Selecting
<1>2. Effective' /\ Registered'
  BY <1>0, <1>e DEF Follows, Effective, Registered
<1>3. Announced' /\ ListFollowsSelection'
  BY <1>0 DEF Follows, Announced, ListFollowsSelection
<1>4. Settled'
  BY <1>0, <1>e DEF Follows, Settled, Selecting
<1>5. Pending'
  BY <1>0, <1>e DEF Follows, Pending
<1> QED
  BY <1>1, <1>2, <1>3, <1>4, <1>5 DEF Follows

LEMMA FollowsSetSessionAllowlist ==
  ASSUME TypeOK, Follows, NEW h \in Handlers, SetSessionAllowlist(h)
  PROVE  Follows'
<1> DEFINE s == handler[h].session
<1>0. /\ handler[h].pc = "allow"
      /\ UNCHANGED <<registry, told, listed>>
  BY DEF SetSessionAllowlist
<1>e. /\ \A g \in Handlers : g # h => handler'[g] = handler[g]
      /\ handler'[h].pc = "register"
      /\ handler'[h].session = s
      /\ handler'[h].found = handler[h].found
      /\ handler'[h].alone = handler[h].alone
      /\ selected'[s] = DOMAIN handler[h].found
      /\ \A t \in Sessions : t # s => selected'[t] = selected[t]
  BY AllowlistEffect DEF Advances, Others
<1>s. \A g \in Handlers : handler[g].session \in Sessions
  BY OwnLocals
\* A handler at its search has its client unsettled.
<1>u. ~told[s].known
  BY <1>0 DEF Follows, Settled, Selecting
<1>1. Exclusive'
  BY <1>0, <1>e DEF Follows, Exclusive, Selecting
<1>2. Effective'
  <2> SUFFICES ASSUME NEW g \in Handlers,
                      handler'[g].pc \in {"register", "notify"}, handler'[g].alone
               PROVE  selected'[handler'[g].session] = DOMAIN handler'[g].found
    BY DEF Effective
  <2>1. CASE g = h
    BY <1>e, <2>1
  <2>2. CASE g # h /\ handler[g].session = s
    BY <1>0, <1>e, <2>2 DEF Follows, Exclusive, Selecting
  <2>3. CASE g # h /\ handler[g].session # s
    BY <1>e, <1>s, <2>3 DEF Follows, Effective
  <2> QED
    BY <2>1, <2>2, <2>3
<1>3. Registered'
  BY <1>0, <1>e DEF Follows, Registered
<1>4. Announced'
  BY <1>0, <1>e, <1>u DEF Follows, Announced
<1>5. ListFollowsSelection'
  BY <1>0 DEF Follows, ListFollowsSelection
<1>6. Settled'
  BY <1>0, <1>e, <1>u DEF Follows, Settled, Selecting
<1>7. Pending'
  BY <1>0, <1>e DEF Follows, Pending
<1> QED
  BY <1>1, <1>2, <1>3, <1>4, <1>5, <1>6, <1>7 DEF Follows

LEMMA FollowsAddTools ==
  ASSUME TypeOK, Follows, NEW h \in Handlers, AddTools(h)
  PROVE  Follows'
<1> DEFINE s == handler[h].session
<1>0. /\ handler[h].pc = "register"
      /\ UNCHANGED <<selected, listed>>
      /\ \A g \in Handlers : g # h => handler'[g] = handler[g]
      /\ handler'[h].pc = "notify"
      /\ handler'[h].session = s
      /\ handler'[h].found = handler[h].found
      /\ handler'[h].alone = handler[h].alone
  BY AddToolsEffect DEF Advances, Others
<1>s. \A g \in Handlers : handler[g].session \in Sessions
  BY OwnLocals
<1>r. DOMAIN registry' = DOMAIN registry \cup DOMAIN handler[h].found
  BY RegistryEffect
<1>u. ~told[s].known
  BY <1>0 DEF Follows, Settled, Selecting
<1>a. \A t \in Sessions :
        \/ told'[t] = told[t]
        \/ handler[h].alone /\ t = s /\ told'[t] = Known(handler[h].found)
  BY AddToolsEffect
<1>k. /\ Known(handler[h].found).known
      /\ Known(handler[h].found).tools = handler[h].found
  BY KnownFields
<1>1. Exclusive'
  BY <1>0 DEF Follows, Exclusive, Selecting
<1>2. Effective'
  BY <1>0 DEF Follows, Effective
<1>3. Registered'
  BY <1>0, <1>r DEF Follows, Registered
<1>4. Announced'
  <2> SUFFICES ASSUME NEW t \in Sessions, told'[t].known
               PROVE  /\ selected'[t] = DOMAIN told'[t].tools
                      /\ DOMAIN told'[t].tools \subseteq DOMAIN registry'
    BY DEF Announced
  <2>1. CASE told'[t] = told[t]
    BY <1>0, <1>r, <2>1 DEF Follows, Announced
  <2>2. CASE handler[h].alone /\ t = s /\ told'[t] = Known(handler[h].found)
    BY <1>0, <1>r, <1>k, <2>2 DEF Follows, Effective
  <2> QED
    BY <1>a, <2>1, <2>2
<1>5. Settled'
  <2> SUFFICES ASSUME NEW g \in Handlers, Selecting(g)',
                      told'[handler'[g].session].known
               PROVE  /\ handler'[g].pc = "notify"
                      /\ handler'[g].alone
                      /\ told'[handler'[g].session] = Known(handler'[g].found)
    BY DEF Settled
  <2>1. CASE g = h
    BY <1>0, <1>a, <1>s, <1>u, <2>1
  <2>2. CASE g # h /\ told'[handler[g].session] = told[handler[g].session]
    BY <1>0, <2>2 DEF Follows, Settled, Selecting
  <2>3. CASE g # h /\ handler[h].alone /\ handler[g].session = s
    BY <1>0, <2>3 DEF Follows, Exclusive, Selecting
  <2> QED
    BY <1>a, <1>s, <2>1, <2>2, <2>3
<1>6. ListFollowsSelection'
  BY <1>0 DEF Follows, ListFollowsSelection
<1>7. Pending'
  BY <1>0, <1>a, <1>s, <1>u DEF Follows, Pending
<1> QED
  BY <1>1, <1>2, <1>3, <1>4, <1>5, <1>6, <1>7 DEF Follows

LEMMA FollowsNotifyAndReturn ==
  ASSUME TypeOK, Follows, NEW h \in Handlers, NotifyAndReturn(h)
  PROVE  Follows'
<1> DEFINE s == handler[h].session
<1>0. /\ handler[h].pc = "notify"
      /\ UNCHANGED <<selected, registry, listed>>
      /\ \A g \in Handlers : g # h => handler'[g] = handler[g]
      /\ handler'[h].pc = "idle"
  BY EndEffect DEF NotifyAndReturn, Ends, Others
<1>s. \A g \in Handlers : handler[g].session \in Sessions
  BY OwnLocals
<1>a. \A t \in Sessions :
        told'[t] = IF handler[h].alone /\ t = s
                   THEN Known(handler[h].found) ELSE told[t]
  BY AnnounceEffect DEF NotifyAndReturn
<1>k. /\ Known(handler[h].found).known
      /\ Known(handler[h].found).tools = handler[h].found
  BY KnownFields
<1>1. Exclusive'
  BY <1>0 DEF Follows, Exclusive, Selecting
<1>2. Effective' /\ Registered'
  BY <1>0 DEF Follows, Effective, Registered
<1>3. Announced'
  <2> SUFFICES ASSUME NEW t \in Sessions, told'[t].known
               PROVE  /\ selected'[t] = DOMAIN told'[t].tools
                      /\ DOMAIN told'[t].tools \subseteq DOMAIN registry'
    BY DEF Announced
  <2>1. CASE handler[h].alone /\ t = s
    BY <1>0, <1>a, <1>k, <2>1 DEF Follows, Effective, Registered
  <2>2. CASE ~(handler[h].alone /\ t = s)
    BY <1>0, <1>a, <2>2 DEF Follows, Announced
  <2> QED
    BY <2>1, <2>2
<1>4. Settled'
  <2> SUFFICES ASSUME NEW g \in Handlers, Selecting(g)',
                      told'[handler'[g].session].known
               PROVE  /\ handler'[g].pc = "notify"
                      /\ handler'[g].alone
                      /\ told'[handler'[g].session] = Known(handler'[g].found)
    BY DEF Settled
  <2>1. g # h /\ handler'[g] = handler[g] /\ Selecting(g)
    BY <1>0 DEF Selecting
  <2>2. ~(handler[h].alone /\ handler[g].session = s)
    BY <1>0, <2>1 DEF Follows, Exclusive, Selecting
  <2> QED
    BY <1>a, <1>s, <2>1, <2>2 DEF Follows, Settled
<1>5. ListFollowsSelection'
  BY <1>0 DEF Follows, ListFollowsSelection
\* A list under way knows what the client is told once more.
<1>6. Pending'
  <2> SUFFICES ASSUME NEW g \in Handlers, handler'[g].pc \in {"filter", "order"},
                      handler'[g].due.known
               PROVE  /\ told'[handler'[g].session] = handler'[g].due
                      /\ DOMAIN handler'[g].due.tools \subseteq handler'[g].tools
                      /\ handler'[g].pc = "order"
                           => handler'[g].allowed = DOMAIN handler'[g].due.tools
    BY DEF Pending
  <2>1. g # h /\ handler'[g] = handler[g]
    BY <1>0
  <2>2. /\ told[handler[g].session] = handler[g].due
        /\ DOMAIN handler[g].due.tools \subseteq handler[g].tools
        /\ handler[g].pc = "order" => handler[g].allowed = DOMAIN handler[g].due.tools
    BY <2>1 DEF Follows, Pending
  <2>3. handler[g].session = s => told[s] = Known(handler[h].found)
    BY <1>0, <2>1, <2>2 DEF Follows, Settled, Selecting
  <2> QED
    BY <1>a, <1>s, <2>1, <2>2, <2>3
<1> QED
  BY <1>1, <1>2, <1>3, <1>4, <1>5, <1>6 DEF Follows

LEMMA FollowsGetSessionAllowlist ==
  ASSUME TypeOK, Follows, NEW h \in Handlers, GetSessionAllowlist(h)
  PROVE  Follows'
<1>0. /\ handler[h].pc = "filter"
      /\ UNCHANGED <<selected, registry, told, listed>>
  BY DEF GetSessionAllowlist
<1>e. /\ \A g \in Handlers : g # h => handler'[g] = handler[g]
      /\ handler'[h].pc = "order"
      /\ handler'[h].session = handler[h].session
      /\ handler'[h].tools = handler[h].tools
      /\ handler'[h].due = handler[h].due
      /\ handler'[h].allowed = selected[handler[h].session]
  BY GetSessionAllowlistEffect DEF Advances, Others
<1>s. handler[h].session \in Sessions
  BY OwnLocals
<1>1. Exclusive' /\ Effective' /\ Registered'
  BY <1>0, <1>e DEF Follows, Exclusive, Effective, Registered, Selecting
<1>2. Announced' /\ ListFollowsSelection'
  BY <1>0 DEF Follows, Announced, ListFollowsSelection
<1>3. Settled'
  BY <1>0, <1>e DEF Follows, Settled, Selecting
<1>4. Pending'
  BY <1>0, <1>e, <1>s DEF Follows, Pending, Announced
<1> QED
  BY <1>1, <1>2, <1>3, <1>4 DEF Follows

LEMMA FollowsFilterByOrder ==
  ASSUME TypeOK, Follows, NEW h \in Handlers, FilterByOrder(h)
  PROVE  Follows'
<1>0. /\ handler[h].pc = "order"
      /\ UNCHANGED <<selected, registry, told>>
      /\ \A g \in Handlers : g # h => handler'[g] = handler[g]
      /\ handler'[h].pc = "idle"
  BY EndEffect DEF FilterByOrder, Ends, Others
<1>l. /\ listed'.due = handler[h].due
      /\ listed'.names = selected[handler[h].session]
                           \cap handler[h].allowed \cap handler[h].tools
  BY DEF FilterByOrder
<1>s. handler[h].session \in Sessions
  BY OwnLocals
<1>1. Exclusive' /\ Effective' /\ Registered'
  BY <1>0 DEF Follows, Exclusive, Effective, Registered, Selecting
<1>2. Announced'
  BY <1>0 DEF Follows, Announced
<1>3. Settled' /\ Pending'
  BY <1>0 DEF Follows, Settled, Pending, Selecting
<1>4. ListFollowsSelection'
  BY <1>0, <1>l, <1>s DEF Follows, ListFollowsSelection, Pending, Announced
<1> QED
  BY <1>1, <1>2, <1>3, <1>4 DEF Follows

LEMMA FollowsStep ==
  ASSUME TypeOK, Follows, [Next]_vars
  PROVE  Follows'
<1>1. CASE Next
  BY <1>1, FollowsBeginSelect, FollowsBeginList, FollowsSearch,
     FollowsSetSessionAllowlist, FollowsAddTools, FollowsNotifyAndReturn,
     FollowsGetSessionAllowlist, FollowsFilterByOrder DEF Next
<1>2. CASE UNCHANGED vars
  BY <1>2 DEF vars, Follows, Exclusive, Effective, Registered, Announced, Settled,
              Pending, Selecting, ListFollowsSelection
<1> QED
  BY <1>1, <1>2

THEOREM FollowsInvariant == Spec => []Follows
<1>1. TypeOK /\ Follows /\ [Next]_vars => Follows'
  BY FollowsStep
<1>2. Init => Follows
  BY FollowsInit
<1> QED
  BY <1>1, <1>2, TypeCorrect, PTL DEF Spec

\* A client that lists once it was notified gets what its select_tools found,
\* however many handlers of the other sessions run in between.
THEOREM ListFollows == Spec => []ListFollowsSelection
<1>1. Follows => ListFollowsSelection
  BY DEF Follows
<1> QED
  BY <1>1, FollowsInvariant, PTL

-----------------------------------------------------------------------------
(* A call reaches the service that was announced                           *)

LEMMA ReachesInit ==
  ASSUME Init
  PROVE  Reaches
<1>1. /\ \A h \in Handlers : handler[h].pc = "idle" /\ DOMAIN handler[h].found = {}
      /\ \A s \in Sessions : ~told[s].known
  BY NoTools DEF Init, Idle, Nothing
<1> QED
  BY <1>1 DEF Reaches, Named, Claimed, Standing, CallsAnnouncedService

LEMMA ReachesBeginSelect ==
  ASSUME TypeOK, Reaches, NEW h \in Handlers, NEW s \in Sessions, BeginSelect(h, s)
  PROVE  Reaches'
<1>0. /\ UNCHANGED <<registry, ever>>
      /\ ~told'[s].known
      /\ \A t \in Sessions : t # s => told'[t] = told[t]
  BY DEF BeginSelect, Nothing, TypeOK
<1>e. /\ handler'[h].pc = "search"
      /\ DOMAIN handler'[h].found = {}
      /\ \A g \in Handlers : g # h =>
           /\ handler'[g].pc = handler[g].pc
           /\ handler'[g].session = handler[g].session
           /\ handler'[g].found = handler[g].found
           /\ handler'[g].alone => handler'[g] = handler[g]
  BY BeginSelectEffect
<1>1. Named' /\ Claimed'
  BY <1>0, <1>e DEF Reaches, Named, Claimed
<1>2. Standing'
  BY <1>0, <1>e DEF Reaches, Standing
<1>3. CallsAnnouncedService'
  BY <1>0 DEF Reaches, CallsAnnouncedService
<1> QED
  BY <1>1, <1>2, <1>3 DEF Reaches

\* The steps that touch neither the registry nor what is told.
LEMMA ReachesQuietly ==
  ASSUME TypeOK, Reaches, NEW h \in Handlers,
         \/ \E s \in Sessions : BeginList(h, s)
         \/ Discover(h) \/ DiscoveryFails(h)
         \/ GetSessionAllowlist(h) \/ FilterByOrder(h)
  PROVE  Reaches'
<1>0. UNCHANGED <<registry, told, ever>>
  BY DEF BeginList, Discover, DiscoveryFails, GetSessionAllowlist, FilterByOrder
<1>e. /\ \A g \in Handlers : g # h => handler'[g] = handler[g]
      /\ handler'[h].pc \notin {"register", "notify"}
      /\ \A n \in DOMAIN handler'[h].found :
           handler'[h].found[n].target
             \in {handler'[h].found[n].service, NoService}
  <2>1. ASSUME NEW s \in Sessions, BeginList(h, s)
        PROVE  /\ Others(h) /\ handler'[h].pc = "filter"
               /\ DOMAIN handler'[h].found = {}
    BY <2>1, BeginListEffect
  <2>2. ASSUME Discover(h)
        PROVE  /\ Others(h) /\ handler'[h].pc = "allow"
               /\ \A n \in DOMAIN handler'[h].found :
                    handler'[h].found[n].target
                      \in {handler'[h].found[n].service, NoService}
    BY <2>2, DiscoverEffect
  <2>3. ASSUME DiscoveryFails(h) \/ FilterByOrder(h)
        PROVE  Ends(h)
    BY <2>3, EndEffect DEF DiscoveryFails, FilterByOrder
  <2>4. ASSUME GetSessionAllowlist(h)
        PROVE  Advances(h, "order")
    BY <2>4, GetSessionAllowlistEffect
  <2> QED
    BY <2>1, <2>2, <2>3, <2>4 DEF Others, Ends, Advances, Reaches, Named
<1>1. Named' /\ Claimed'
  BY <1>0, <1>e DEF Reaches, Named, Claimed
<1>2. Standing'
  BY <1>0, <1>e DEF Reaches, Standing
<1>3. CallsAnnouncedService'
  BY <1>0 DEF Reaches, CallsAnnouncedService
<1> QED
  BY <1>1, <1>2, <1>3 DEF Reaches

LEMMA ReachesSetSessionAllowlist ==
  ASSUME TypeOK, Reaches, NEW h \in Handlers, SetSessionAllowlist(h)
  PROVE  Reaches'
<1>0. UNCHANGED <<registry, told>> /\ handler[h].pc = "allow"
  BY DEF SetSessionAllowlist
<1>e. /\ \A g \in Handlers : g # h => handler'[g] = handler[g]
      /\ handler'[h].pc = "register"
      /\ handler'[h].session = handler[h].session
      /\ handler'[h].found = handler[h].found
      /\ DOMAIN handler[h].found \subseteq ever'[handler[h].session]
      /\ \A t \in Sessions : ever[t] \subseteq ever'[t]
  BY AllowlistEffect DEF Advances, Others
<1>s. \A g \in Handlers : handler[g].session \in Sessions
  BY OwnLocals
<1>1. Named'
  BY <1>e DEF Reaches, Named
<1>2. Claimed'
  BY <1>e, <1>s DEF Reaches, Claimed
<1>3. Standing'
  BY <1>0, <1>e DEF Reaches, Standing
<1>4. CallsAnnouncedService'
  BY <1>0, <1>e DEF Reaches, CallsAnnouncedService
<1> QED
  BY <1>1, <1>2, <1>3, <1>4 DEF Reaches

LEMMA ReachesAddTools ==
  ASSUME TypeOK, Follows, Reaches, NEW h \in Handlers, AddTools(h)
  PROVE  Reaches'
<1> DEFINE s == handler[h].session
<1>0. /\ handler[h].pc = "register"
      /\ UNCHANGED ever
      /\ \A g \in Handlers : g # h => handler'[g] = handler[g]
      /\ handler'[h].pc = "notify"
      /\ handler'[h].session = s
      /\ handler'[h].found = handler[h].found
      /\ handler'[h].alone = handler[h].alone
  BY AddToolsEffect DEF Advances, Others
<1>s. \A g \in Handlers : handler[g].session \in Sessions
  BY OwnLocals
<1>r. /\ DOMAIN registry' = DOMAIN registry \cup DOMAIN handler[h].found
      /\ \A n \in DOMAIN handler[h].found : registry'[n] = handler[h].found[n]
      /\ \A n \in DOMAIN registry \ DOMAIN handler[h].found :
           registry'[n] = registry[n]
  BY RegistryEffect
\* What h replaces, its session selected.
<1>c. DOMAIN handler[h].found \subseteq ever[s]
  BY <1>0 DEF Reaches, Claimed
<1>u. ~told[s].known
  BY <1>0 DEF Follows, Settled, Selecting
<1>a. \A t \in Sessions :
        \/ told'[t] = told[t]
        \/ handler[h].alone /\ t = s /\ told'[t] = Known(handler[h].found)
  BY AddToolsEffect
<1>k. Known(handler[h].found).tools = handler[h].found
  BY KnownFields
<1>1. Named' /\ Claimed'
  BY <1>0, <1>c DEF Reaches, Named, Claimed
<1>2. Standing'
  <2> SUFFICES ASSUME NEW g \in Handlers,
                      handler'[g].pc = "notify", handler'[g].alone,
                      NEW n \in DOMAIN handler'[g].found
               PROVE  \/ \E other \in Sessions \ {handler'[g].session} : n \in ever'[other]
                      \/ n \in DOMAIN registry' /\ registry'[n] = handler'[g].found[n]
    BY DEF Standing
  <2>1. CASE g = h
    BY <1>0, <1>r, <2>1
  <2>2. CASE g # h /\ n \notin DOMAIN handler[h].found
    BY <1>0, <1>r, <2>2 DEF Reaches, Standing
  <2>3. CASE g # h /\ n \in DOMAIN handler[h].found
    <3>1. handler[g].session # s
      BY <1>0, <2>3 DEF Follows, Exclusive, Selecting
    <3> QED
      BY <1>0, <1>s, <1>c, <2>3, <3>1
  <2> QED
    BY <2>1, <2>2, <2>3
<1>3. CallsAnnouncedService'
  <2> SUFFICES ASSUME NEW t \in Sessions, told'[t].known,
                      NEW n \in DOMAIN told'[t].tools
               PROVE  \/ \E other \in Sessions \ {t} : n \in ever'[other]
                      \/ /\ n \in DOMAIN registry'
                         /\ registry'[n].target
                              \in {told'[t].tools[n].service, NoService}
                         /\ registry'[n].target = NoService =>
                              told'[t].tools[n].target = NoService
    BY DEF CallsAnnouncedService
  <2>1. CASE told'[t] = told[t] /\ n \notin DOMAIN handler[h].found
    BY <1>0, <1>r, <2>1 DEF Reaches, CallsAnnouncedService
  <2>2. CASE told'[t] = told[t] /\ n \in DOMAIN handler[h].found
    BY <1>0, <1>s, <1>c, <1>u, <2>2
  <2>3. CASE told'[t] = Known(handler[h].found)
    BY <1>r, <1>k, <2>3 DEF Reaches, Named
  <2> QED
    BY <1>a, <2>1, <2>2, <2>3
<1> QED
  BY <1>1, <1>2, <1>3 DEF Reaches

LEMMA ReachesNotifyAndReturn ==
  ASSUME TypeOK, Reaches, NEW h \in Handlers, NotifyAndReturn(h)
  PROVE  Reaches'
<1> DEFINE s == handler[h].session
<1>0. /\ handler[h].pc = "notify"
      /\ UNCHANGED <<registry, ever>>
      /\ \A g \in Handlers : g # h => handler'[g] = handler[g]
      /\ handler'[h].pc = "idle"
      /\ DOMAIN handler'[h].found = {}
  BY EndEffect DEF NotifyAndReturn, Ends, Others
<1>a. \A t \in Sessions :
        told'[t] = IF handler[h].alone /\ t = s
                   THEN Known(handler[h].found) ELSE told[t]
  BY AnnounceEffect DEF NotifyAndReturn
<1>k. Known(handler[h].found).tools = handler[h].found
  BY KnownFields
<1>1. Named' /\ Claimed'
  BY <1>0 DEF Reaches, Named, Claimed
<1>2. Standing'
  BY <1>0 DEF Reaches, Standing
<1>3. CallsAnnouncedService'
  <2> SUFFICES ASSUME NEW t \in Sessions, told'[t].known,
                      NEW n \in DOMAIN told'[t].tools
               PROVE  \/ \E other \in Sessions \ {t} : n \in ever'[other]
                      \/ /\ n \in DOMAIN registry'
                         /\ registry'[n].target
                              \in {told'[t].tools[n].service, NoService}
                         /\ registry'[n].target = NoService =>
                              told'[t].tools[n].target = NoService
    BY DEF CallsAnnouncedService
  <2>1. CASE handler[h].alone /\ t = s
    <3>1. n \in DOMAIN handler[h].found /\ told'[t].tools[n] = handler[h].found[n]
      BY <1>a, <1>k, <2>1
    <3>2. \/ \E other \in Sessions \ {s} : n \in ever[other]
          \/ n \in DOMAIN registry /\ registry[n] = handler[h].found[n]
      BY <1>0, <2>1, <3>1 DEF Reaches, Standing
    <3>3. handler[h].found[n].target \in {handler[h].found[n].service, NoService}
      BY <3>1 DEF Reaches, Named
    <3> QED
      BY <1>0, <2>1, <3>1, <3>2, <3>3
  <2>2. CASE ~(handler[h].alone /\ t = s)
    BY <1>0, <1>a, <2>2 DEF Reaches, CallsAnnouncedService
  <2> QED
    BY <2>1, <2>2
<1> QED
  BY <1>1, <1>2, <1>3 DEF Reaches

LEMMA ReachesStep ==
  ASSUME TypeOK, Follows, Reaches, [Next]_vars
  PROVE  Reaches'
<1>1. CASE Next
  BY <1>1, ReachesBeginSelect, ReachesQuietly, ReachesSetSessionAllowlist,
     ReachesAddTools, ReachesNotifyAndReturn DEF Next
<1>2. CASE UNCHANGED vars
  BY <1>2 DEF vars, Reaches, Named, Claimed, Standing, CallsAnnouncedService
<1> QED
  BY <1>1, <1>2

\* CallsAnnouncedService always: a call of an announced tool goes to the service
\* announced with it, to none only where the tool's own aspect names none, or
\* another session selected the name.
THEOREM CallsReachService == Spec => []CallsAnnouncedService
<1>1. TypeOK /\ Follows /\ Reaches /\ [Next]_vars => Reaches'
  BY ReachesStep
<1>2. Init => Reaches
  BY ReachesInit
<1>3. Reaches => CallsAnnouncedService
  BY DEF Reaches
<1> QED
  BY <1>1, <1>2, <1>3, TypeCorrect, FollowsInvariant, PTL DEF Spec

-----------------------------------------------------------------------------
(* JobWatch: the result of a job                                           *)

\* A handler that only starts a job never looks at it again, and shows nothing;
\* one that waits shows what it saw when the job had finished.
JobInv ==
  /\ client.mode \in Modes
  /\ client = [pc |-> client.pc, mode |-> client.mode, tries |-> client.tries,
               shown |-> client.shown, answered |-> client.answered]
  /\ client.mode = "start" => client.pc \in {"submit", "result", "error"}
  /\ client.pc = "submit" => client.shown = "none"
  /\ ShownIsFinal

\* A step of the client alone.
LEMMA JobClientInv ==
  ASSUME JobInv, ClientStep
  PROVE  JobInv'
<1> USE DEF JobInv, ShownIsFinal, IsCommand, Modes, Finished, Running
<1>1. CASE Submit
  BY <1>1 DEF Submit
<1>2. CASE Started \/ ToolAnsweredAtOnce
  BY <1>2 DEF Started, ToolAnsweredAtOnce
<1>3. CASE AnsweredAtOnce
  BY <1>3 DEF AnsweredAtOnce
<1>4. CASE SubmitFails \/ Sleep \/ FindJob \/ NotFound \/ EventsEnd \/ ReadFails
  BY <1>4 DEF SubmitFails, Sleep, FindJob, NotFound, EventsEnd, ReadFails, JobGoto
<1>5. CASE CheckJob
  <2>1. client.mode \in {"once", "watch", "stream", "start"} /\ client.pc = "read"
    BY <1>5 DEF CheckJob
  <2>2. client.mode # "start"
    BY <2>1
  <2>3. CASE client.tries + 1 >= MaxChecks \/ job \in Finished
    <3>1. /\ client'.pc = "result" /\ client'.mode = client.mode
          /\ client'.tries = client.tries + 1 /\ client'.shown = job
          /\ client'.answered = client.answered /\ job' = job
          /\ client' = [pc |-> client'.pc, mode |-> client'.mode,
                        tries |-> client'.tries, shown |-> client'.shown,
                        answered |-> client'.answered]
      BY <1>5, <2>3 DEF CheckJob
    <3> QED
      BY <2>1, <2>2, <2>3, <3>1 DEF MaxChecks
  <2>4. CASE ~(client.tries + 1 >= MaxChecks \/ job \in Finished)
    BY <1>5, <2>2, <2>4 DEF CheckJob
  <2> QED
    BY <2>3, <2>4
<1>6. CASE CheckServiceJob
  BY <1>6 DEF CheckServiceJob
<1> QED
  BY <1>1, <1>2, <1>3, <1>4, <1>5, <1>6 DEF ClientStep

\* A step of the service: a job that has finished stays as it is.
LEMMA JobServiceInv ==
  ASSUME JobInv, JobProceeds \/ AspectAppears \/ UNCHANGED jobVars
  PROVE  JobInv'
BY DEF JobInv, ShownIsFinal, IsCommand, Finished, Running, JobProceeds, AspectAppears,
       jobVars

\* ShownIsFinal always: what an MCP client is given as the result of a job it
\* waited for is the status the job ended with, and a watching command shows a
\* job that has not finished only when its checks are used up.
THEOREM ResultIsFinal == JobSpec => []ShownIsFinal
<1>1. JobInit => JobInv
  BY DEF JobInit, JobInv, ShownIsFinal, Modes
<1>2. JobInv /\ [JobNext]_jobVars => JobInv'
  BY JobClientInv, JobServiceInv DEF JobNext
<1>3. JobInv => ShownIsFinal
  BY DEF JobInv
<1> QED
  BY <1>1, <1>2, <1>3, PTL DEF JobSpec
=============================================================================
