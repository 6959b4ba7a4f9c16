------------------------- MODULE ContextStoreProofs -------------------------
(***************************************************************************)
(* Proofs about ContextStore for every set of processes and contexts and   *)
(* every number of commands and tokens: ActiveExists, ContextsKept,        *)
(* TokensBelong and RefreshTokenUsable.                                    *)
(***************************************************************************)
EXTENDS ContextStore, SequenceTheorems, TLAPS

-----------------------------------------------------------------------------
(* The shape of the records                                                *)

IsConfig(c) == c = [active |-> c.active, entry |-> c.entry]

HasFields(l) ==
  l = [pc |-> l.pc, cmd |-> l.cmd, opt |-> l.opt, url |-> l.url,
       name |-> l.name, entry |-> l.entry, provider |-> l.provider,
       read |-> l.read]

\* Commands that switch the context go straight to the update, and only those
\* that talk to the deployment end up with an adapter.
Placed(l) ==
  /\ l.cmd \in Commands
  /\ l.pc = "ready" => l.cmd = "call"
  /\ l.cmd \in Switching => l.pc \in {"idle", "save", "truncate", "fill"}

Shape ==
  /\ IsConfig(config)
  /\ DOMAIN proc = Procs
  /\ \A p \in Procs : HasFields(proc[p]) /\ Placed(proc[p]) /\ IsConfig(proc[p].read)

-----------------------------------------------------------------------------
(* The strengthened invariants                                             *)

\* Between the last read of the file and the end of its writing.
Updates(p) == proc[p].pc \in {"truncate", "fill"}

\* A configuration whose active context is one of its contexts, all named.
Sound(c) ==
  /\ c.active # Unnamed => c.active \in DOMAIN c.entry
  /\ Unnamed \notin DOMAIN c.entry

\* Commands that replace or add a context know which.
Named ==
  \A p \in Procs :
    /\ proc[p].pc = "save" /\ proc[p].cmd = "create" => proc[p].name # Unnamed
    /\ Updates(p) =>
         /\ Sound(proc[p].read)
         /\ \/ proc[p].cmd = "create" /\ proc[p].name # Unnamed
            \/ proc[p].name \in DOMAIN proc[p].read.entry

\* So are the texts whose ends may still be in the file.
Remains == \A t \in texts : Sound(t)

\* What was created is in the file, or in what the only process that has
\* truncated the file is about to write.
Kept ==
  ~lossy =>
    /\ (\A p \in Procs : proc[p].pc # "fill") => created \subseteq DOMAIN config.entry
    /\ \A p \in Procs :
         /\ proc[p].pc = "fill" /\ texts = {}
         /\ \A q \in Procs : q # p => proc[q].pc # "fill"
         => created \subseteq DOMAIN proc[p].read.entry

StoreInv ==
  /\ Shape
  /\ Sound(config)
  /\ Remains
  /\ Named
  /\ Kept

EntryOf(e, c) == OfContext(e.access, c) /\ OfContext(e.refresh, c)

\* A configuration whose contexts have tokens of their own only.
Owned(c) == \A n \in DOMAIN c.entry : EntryOf(c.entry[n], n)

OwnedAll == Owned(config) /\ \A t \in texts : Owned(t)

\* Two reads of the active context, apart from reads of an empty file.
Agree(a, b) == a = Unnamed \/ b = Unnamed \/ a = b

\* A command that switches the active context is the only one running.
Alone ==
  \A p, q \in Procs :
    p # q /\ proc[p].pc # "idle" /\ proc[q].pc # "idle"
      => proc[p].cmd \notin Switching

\* Once a command has read its context it goes by that.
Reading(p) == proc[p].pc \in {"idle", "adapter", "context"}

SteadyAt(p) ==
  /\ ~Reading(p) => EntryOf(proc[p].entry, proc[p].name)
  /\ ~Reading(p) /\ proc[p].cmd \notin Switching =>
       /\ proc[p].name # Unnamed
       /\ proc[p].opt # Unnamed => proc[p].name = proc[p].opt
       /\ proc[p].opt = Unnamed => Agree(proc[p].name, config.active)
  /\ proc[p].pc = "grant" => proc[p].provider = proc[p].name
  /\ Updates(p) => Owned(proc[p].read)

Steady == \A p \in Procs : SteadyAt(p)

\* The update by p does not change the active context under q.
Undisturbed(p, q) ==
  /\ Updates(q) /\ proc[q].cmd \notin Switching
       => Agree(proc[p].read.active, proc[q].read.active)
  /\ ~Reading(q) /\ proc[q].cmd \notin Switching /\ proc[q].opt = Unnamed
       => Agree(proc[p].read.active, proc[q].name)

\* The updates under way do not change the active context.
Steadfast ==
  \A p \in Procs : Updates(p) /\ proc[p].cmd \notin Switching =>
    /\ Agree(proc[p].read.active, config.active)
    /\ \A q \in Procs : Undisturbed(p, q)

TokenInv ==
  ~switched =>
    /\ Alone
    /\ OwnedAll
    /\ Steady
    /\ Steadfast

\* A command that talks to a deployment has an adapter.
Opened(p) == proc[p].cmd = "call" /\ proc[p].pc \notin {"idle", "adapter"}

\* Its URL is that of the context the later reads go by, and what it was granted
\* or found is a token.
OpenedAt(p) ==
  Opened(p) =>
    /\ proc[p].url # Unnamed
    /\ proc[p].opt # Unnamed => proc[p].url = proc[p].opt
    /\ proc[p].opt = Unnamed =>
         /\ Agree(proc[p].url, config.active)
         /\ \A q \in Procs : Updates(q) /\ proc[q].cmd \notin Switching =>
              Agree(proc[q].read.active, proc[p].url)
    /\ ~Reading(p) => proc[p].name = proc[p].url
    /\ proc[p].pc \in {"verify", "save", "truncate", "fill", "ready"} =>
         proc[p].entry.access # NoToken

AdapterInv == ~switched => \A p \in Procs : OpenedAt(p)

-----------------------------------------------------------------------------
(* What a step does to the locals of its process, field by field           *)

\* Only the locals of p change, and they remain locals.
Moves(p) ==
  /\ DOMAIN proc' = Procs
  /\ \A q \in Procs : q # p => proc'[q] = proc[q]
  /\ HasFields(proc'[p]) /\ Placed(proc'[p])
  /\ IsConfig(proc'[p].read)

SameCommand(p) == proc'[p].cmd = proc[p].cmd /\ proc'[p].opt = proc[p].opt

SameUrl(p) == proc'[p].url = proc[p].url

SameContext(p) ==
  /\ SameCommand(p)
  /\ proc'[p].name = proc[p].name
  /\ proc'[p].entry = proc[p].entry

LEMMA NoContexts ==
  IsConfig(EmptyConfig) /\ EmptyConfig.active = Unnamed /\ DOMAIN EmptyConfig.entry = {}
<1>1. <<>> \in Seq(Nat) /\ Len(<<>>) = 0
  BY EmptySeq
<1>2. <<>> \in [{} -> Nat]
  BY <1>1, LenProperties
<1> QED
  BY <1>2 DEF EmptyConfig, IsConfig

LEMMA StoppedFields ==
  /\ HasFields(Stopped) /\ IsConfig(Stopped.read) /\ Stopped.pc = "idle"
  /\ Stopped.entry = Blank /\ Placed(Stopped)
BY NoContexts DEF Stopped, HasFields, Placed, Commands

LEMMA StopEffect ==
  ASSUME Shape, NEW p \in Procs, Stop(p)
  PROVE  /\ Moves(p)
         /\ proc'[p].pc = "idle"
         /\ lossy' = (lossy \/ Pending(p))
         /\ UNCHANGED <<config, texts, created, switched>>
<1>1. /\ proc' = [proc EXCEPT ![p] = Stopped]
      /\ lossy' = (lossy \/ Pending(p))
      /\ UNCHANGED <<config, texts, created, switched>>
  BY DEF Stop, File
<1>2. proc'[p] = Stopped /\ DOMAIN proc' = Procs
      /\ \A q \in Procs : q # p => proc'[q] = proc[q]
  BY <1>1 DEF Shape
<1> QED
  BY <1>1, <1>2, StoppedFields DEF Moves

LEMMA StartEffect ==
  ASSUME Shape, NEW p \in Procs, NEW cmd \in Commands, NEW opt, Start(p, cmd, opt)
  PROVE  /\ Moves(p)
         /\ proc[p].pc = "idle"
         /\ proc'[p].cmd = cmd
         /\ IF cmd \in Switching
            THEN /\ proc'[p].pc = "save"
                 /\ proc'[p].name = opt /\ opt # Unnamed
                 /\ proc'[p].entry = Blank
            ELSE proc'[p].pc \in {"adapter", "context"}
         /\ cmd = "call" => proc'[p].pc = "adapter"
         /\ switched' = (switched \/ \E q \in Procs \ {p} :
                           /\ proc[q].pc # "idle"
                           /\ cmd \in Switching \/ proc[q].cmd \in Switching)
         /\ UNCHANGED <<config, texts, created, lossy>>
<1> DEFINE pc == CASE cmd = "call" -> "adapter"
                   [] cmd \in Switching -> "save"
                   [] OTHER -> "context"
           name == IF cmd \in Switching THEN opt ELSE Unnamed
           l == Stopped
           m == proc'[p]
<1>1. /\ proc' = [proc EXCEPT ![p] =
                    [Stopped EXCEPT !.pc = pc, !.cmd = cmd, !.opt = opt, !.name = name]]
      /\ cmd \in Switching => opt # Unnamed
      /\ UNCHANGED <<config, texts, created, lossy>>
      /\ proc[p].pc = "idle"
      /\ switched' = (switched \/ \E q \in Procs \ {p} :
                        /\ proc[q].pc # "idle"
                        /\ cmd \in Switching \/ proc[q].cmd \in Switching)
  BY DEF Start, File
<1>2. /\ m = [l EXCEPT !.pc = pc, !.cmd = cmd, !.opt = opt, !.name = name]
      /\ DOMAIN proc' = Procs
      /\ \A q \in Procs : q # p => proc'[q] = proc[q]
  BY <1>1 DEF Shape
<1>3. HasFields(l) /\ IsConfig(l.read) /\ l.entry = Blank
  BY StoppedFields
<1>4. /\ IF cmd \in Switching THEN pc = "save" /\ name = opt
         ELSE pc \in {"adapter", "context"}
      /\ cmd = "call" => pc = "adapter"
  BY DEF Switching
<1> HIDE DEF l, m, pc, name
<1>5. /\ HasFields(m) /\ m.pc = pc /\ m.cmd = cmd /\ m.name = name
      /\ m.entry = l.entry /\ m.read = l.read
  BY <1>2, <1>3 DEF HasFields
<1>6. Placed(m)
  BY <1>4, <1>5 DEF Placed
<1> QED
  BY <1>1, <1>2, <1>3, <1>4, <1>5, <1>6 DEF Moves, m

\* A step that goes on with its locals.
LEMMA ContinueEffect ==
  ASSUME Shape, NEW p \in Procs, NEW m, Continue(p, m)
  PROVE  /\ proc'[p] = m
         /\ DOMAIN proc' = Procs
         /\ \A q \in Procs : q # p => proc'[q] = proc[q]
         /\ UNCHANGED <<config, texts, created, switched, lossy>>
BY DEF Continue, File, Shape

LEMMA OpenAdapterEffect ==
  ASSUME Shape, NEW p \in Procs, OpenAdapter(p)
  PROVE  \/ Stop(p)
         \/ /\ Moves(p)
            /\ proc'[p].pc = "context"
            /\ SameCommand(p)
            /\ IsKnown(p) /\ proc'[p].url = Picked(p)
            /\ UNCHANGED <<config, texts, created, switched, lossy>>
<1> SUFFICES ASSUME IsKnown(p),
                    Continue(p, [proc[p] EXCEPT !.pc = "context", !.url = Picked(p)])
             PROVE  /\ Moves(p)
                    /\ proc'[p].pc = "context"
                    /\ SameCommand(p)
                    /\ proc'[p].url = Picked(p)
                    /\ UNCHANGED <<config, texts, created, switched, lossy>>
  BY DEF OpenAdapter
<1> DEFINE l == proc[p]
           m == proc'[p]
           u == Picked(p)
<1>1. /\ m = [l EXCEPT !.pc = "context", !.url = u]
      /\ DOMAIN proc' = Procs
      /\ \A q \in Procs : q # p => proc'[q] = proc[q]
      /\ UNCHANGED <<config, texts, created, switched, lossy>>
  BY DEF Continue, File, Shape
<1>2. HasFields(l) /\ Placed(l) /\ l.pc = "adapter" /\ IsConfig(l.read)
  BY DEF Shape, OpenAdapter
<1> HIDE DEF l, m, u
<1>3. /\ HasFields(m) /\ m.pc = "context" /\ m.cmd = l.cmd /\ m.opt = l.opt /\ m.url = u
      /\ m.read = l.read
  BY <1>1, <1>2 DEF HasFields
<1>8. Placed(m)
  BY <1>2, <1>3 DEF Placed
<1> QED
  BY <1>8, <1>1, <1>2, <1>3 DEF Moves, SameCommand, l, m, u

LEMMA ReadContextEffect ==
  ASSUME Shape, NEW p \in Procs, ReadContext(p)
  PROVE  \/ Stop(p)
         \/ /\ Moves(p)
            /\ IsKnown(p)
            /\ proc'[p].pc \in {"save", "provider", "ready"}
            /\ SameCommand(p) /\ SameUrl(p)
            /\ proc[p].cmd \notin Switching
            /\ proc'[p].name = Picked(p)
            /\ proc'[p].entry \in {Blank, config.entry[Picked(p)]}
            /\ UNCHANGED <<config, texts, created, switched, lossy>>
<1> DEFINE l == proc[p]
           m == proc'[p]
           u == Picked(p)
           e == config.entry[Picked(p)]
<1> SUFFICES ASSUME ~Stop(p)
             PROVE  /\ Moves(p)
                    /\ IsKnown(p)
                    /\ m.pc \in {"save", "provider", "ready"}
                    /\ SameCommand(p) /\ SameUrl(p)
                    /\ l.cmd \notin Switching
                    /\ m.name = u
                    /\ m.entry \in {Blank, e}
                    /\ UNCHANGED <<config, texts, created, switched, lossy>>
  OBVIOUS
<1>0. l.pc = "context" /\ Placed(l)
  BY DEF ReadContext, Shape
<1>1. /\ IsKnown(p) /\ l.cmd \in {"logout", "login", "relogin", "call"}
      /\ \/ Continue(p, [[l EXCEPT !.name = u, !.entry = e]
                           EXCEPT !.pc = "save", !.entry = Blank])
         \/ Continue(p, [[l EXCEPT !.name = u, !.entry = e] EXCEPT !.pc = "provider"])
         \/ /\ l.cmd = "call"
            /\ Continue(p, [[l EXCEPT !.name = u, !.entry = e] EXCEPT !.pc = "ready"])
  BY <1>0 DEF ReadContext, Placed, Commands, Switching
<1>2. PICK m0 : Continue(p, m0) /\
        \/ m0 = [[l EXCEPT !.name = u, !.entry = e] EXCEPT !.pc = "save", !.entry = Blank]
        \/ m0 = [[l EXCEPT !.name = u, !.entry = e] EXCEPT !.pc = "provider"]
        \/ l.cmd = "call" /\ m0 = [[l EXCEPT !.name = u, !.entry = e] EXCEPT !.pc = "ready"]
  BY <1>1
<1>3. /\ m = m0
      /\ DOMAIN proc' = Procs
      /\ \A q \in Procs : q # p => proc'[q] = proc[q]
      /\ UNCHANGED <<config, texts, created, switched, lossy>>
  BY <1>2 DEF Continue, File, Shape
<1>4. HasFields(l) /\ IsConfig(l.read)
  BY DEF Shape
<1>5. l.cmd \notin Switching /\ l.cmd \in Commands
  BY <1>1 DEF Switching, Commands
<1> HIDE DEF l, m, u, e
<1>6. /\ HasFields(m) /\ m.pc \in {"save", "provider", "ready"}
      /\ m.pc = "ready" => l.cmd = "call"
      /\ m.cmd = l.cmd /\ m.opt = l.opt /\ m.url = l.url
      /\ m.name = u /\ m.entry \in {Blank, e} /\ m.read = l.read
  BY <1>2, <1>3, <1>4 DEF HasFields
<1>7. Placed(m)
  BY <1>5, <1>6 DEF Placed
<1> QED
  BY <1>1, <1>3, <1>4, <1>5, <1>6, <1>7 DEF Moves, SameUrl, SameCommand, l, m

Granting == {"call", "login", "relogin"}

\* What a command goes on with when it has read its context.
LEMMA ReadContextBranches ==
  ASSUME Shape, NEW p \in Procs, ReadContext(p), ~Stop(p)
  PROVE  /\ UNCHANGED <<valid, issued>>
         /\ proc'[p].pc = "save" => proc[p].cmd = "logout" /\ proc'[p].entry = Blank
         /\ proc'[p].pc # "save" => proc[p].cmd \in Granting
         /\ proc'[p].pc = "ready" => proc'[p].entry.access # NoToken
<1> DEFINE l == proc[p]
           m == proc'[p]
           u == Picked(p)
           e == config.entry[Picked(p)]
<1>1. l.cmd \in {"logout", "login", "relogin", "call"}
  BY DEF ReadContext, Shape, Placed, Commands, Switching
<1>2. PICK m0 : Continue(p, m0) /\
        \/ /\ l.cmd = "logout"
           /\ m0 = [[l EXCEPT !.name = u, !.entry = e] EXCEPT !.pc = "save", !.entry = Blank]
        \/ /\ l.cmd # "logout"
           /\ \/ m0 = [[l EXCEPT !.name = u, !.entry = e] EXCEPT !.pc = "provider"]
              \/ /\ m0 = [[l EXCEPT !.name = u, !.entry = e] EXCEPT !.pc = "ready"]
                 /\ e.access # NoToken
  BY <1>1 DEF ReadContext, IsExpired
<1>3. m = m0 /\ UNCHANGED <<valid, issued>>
  BY <1>2 DEF Continue, File, Shape, Providers
<1>4. HasFields(l)
  BY DEF Shape
<1> HIDE DEF l, m, u, e
<1>5. \/ l.cmd = "logout" /\ m.pc = "save" /\ m.entry = Blank
      \/ l.cmd # "logout" /\ m.pc = "provider"
      \/ l.cmd # "logout" /\ m.pc = "ready" /\ m.entry.access # NoToken
  BY <1>2, <1>3, <1>4 DEF HasFields
<1> QED
  BY <1>1, <1>3, <1>5 DEF Granting, l, m

LEMMA AskProviderEffect ==
  ASSUME Shape, NEW p \in Procs, AskProvider(p)
  PROVE  \/ Stop(p)
         \/ /\ Moves(p)
            /\ IsKnown(p)
            /\ proc'[p].pc = "grant"
            /\ SameContext(p) /\ SameUrl(p)
            /\ proc'[p].provider = Picked(p)
            /\ UNCHANGED <<config, texts, created, switched, lossy>>
<1> SUFFICES ASSUME IsKnown(p),
                    Continue(p, [proc[p] EXCEPT !.pc = "grant", !.provider = Picked(p)])
             PROVE  /\ Moves(p)
                    /\ proc'[p].pc = "grant"
                    /\ SameContext(p) /\ SameUrl(p)
                    /\ proc'[p].provider = Picked(p)
                    /\ UNCHANGED <<config, texts, created, switched, lossy>>
  BY DEF AskProvider
<1> DEFINE l == proc[p]
           m == proc'[p]
           u == Picked(p)
<1>1. /\ m = [l EXCEPT !.pc = "grant", !.provider = u]
      /\ DOMAIN proc' = Procs
      /\ \A q \in Procs : q # p => proc'[q] = proc[q]
      /\ UNCHANGED <<config, texts, created, switched, lossy>>
  BY DEF Continue, File, Shape
<1>2. HasFields(l) /\ Placed(l) /\ l.pc = "provider" /\ IsConfig(l.read)
  BY DEF Shape, AskProvider
<1> HIDE DEF l, m, u
<1>3. /\ HasFields(m) /\ m.pc = "grant" /\ m.cmd = l.cmd /\ m.opt = l.opt /\ m.url = l.url
      /\ m.name = l.name /\ m.entry = l.entry /\ m.provider = u /\ m.read = l.read
  BY <1>1, <1>2 DEF HasFields
<1>8. Placed(m)
  BY <1>2, <1>3 DEF Placed
<1> QED
  BY <1>8, <1>1, <1>2, <1>3 DEF Moves, SameUrl, SameCommand, SameContext, l, m, u

LEMMA ReceiveTokensEffect ==
  ASSUME Shape, NEW p \in Procs, ReceiveTokens(p)
  PROVE  /\ Moves(p)
         /\ proc[p].pc = "grant"
         /\ proc'[p].pc = "verify"
         /\ SameCommand(p) /\ SameUrl(p)
         /\ proc'[p].name = proc[p].name
         /\ proc'[p].entry = Granted(p)
         /\ UNCHANGED <<config, texts, created, switched, lossy>>
<1> DEFINE l == proc[p]
           m == proc'[p]
           g == Granted(p)
<1>1. /\ proc' = [proc EXCEPT ![p].pc = "verify", ![p].entry = Granted(p)]
      /\ proc[p].pc = "grant"
      /\ UNCHANGED <<config, texts, created, switched, lossy>>
  BY DEF ReceiveTokens, File
<1>2. /\ m = [l EXCEPT !.pc = "verify", !.entry = g]
      /\ DOMAIN proc' = Procs
      /\ \A q \in Procs : q # p => proc'[q] = proc[q]
  BY <1>1 DEF Shape
<1>3. HasFields(l) /\ Placed(l) /\ l.pc = "grant" /\ IsConfig(l.read)
  BY DEF Shape, ReceiveTokens
<1> HIDE DEF l, m, g
<1>4. /\ HasFields(m) /\ m.pc = "verify" /\ m.cmd = l.cmd /\ m.opt = l.opt /\ m.url = l.url
      /\ m.name = l.name /\ m.entry = g /\ m.read = l.read
  BY <1>2, <1>3 DEF HasFields
<1>8. Placed(m)
  BY <1>3, <1>4 DEF Placed
<1> QED
  BY <1>8, <1>1, <1>2, <1>3, <1>4 DEF Moves, SameUrl, SameCommand, l, m, g

LEMMA VerifyIDTokenEffect ==
  ASSUME Shape, NEW p \in Procs, VerifyIDToken(p)
  PROVE  /\ proc[p].pc = "verify"
         /\ \/ Stop(p)
            \/ /\ Moves(p)
               /\ proc'[p].pc = "save"
               /\ SameContext(p) /\ SameUrl(p)
               /\ UNCHANGED <<config, texts, created, switched, lossy>>
<1> SUFFICES ASSUME Continue(p, [proc[p] EXCEPT !.pc = "save"])
             PROVE  /\ Moves(p)
                    /\ proc'[p].pc = "save"
                    /\ SameContext(p) /\ SameUrl(p)
                    /\ UNCHANGED <<config, texts, created, switched, lossy>>
  BY DEF VerifyIDToken
<1> DEFINE l == proc[p]
           m == proc'[p]
<1>1. /\ m = [l EXCEPT !.pc = "save"]
      /\ DOMAIN proc' = Procs
      /\ \A q \in Procs : q # p => proc'[q] = proc[q]
      /\ UNCHANGED <<config, texts, created, switched, lossy>>
  BY DEF Continue, File, Shape
<1>2. HasFields(l) /\ Placed(l) /\ l.pc = "verify" /\ IsConfig(l.read)
  BY DEF Shape, VerifyIDToken
<1> HIDE DEF l, m
<1>3. /\ HasFields(m) /\ m.pc = "save" /\ m.cmd = l.cmd /\ m.opt = l.opt /\ m.url = l.url
      /\ m.name = l.name /\ m.entry = l.entry /\ m.read = l.read
  BY <1>1, <1>2 DEF HasFields
<1>8. Placed(m)
  BY <1>2, <1>3 DEF Placed
<1> QED
  BY <1>8, <1>1, <1>2, <1>3 DEF Moves, SameUrl, SameCommand, SameContext, l, m

LEMMA ReadForUpdateEffect ==
  ASSUME Shape, NEW p \in Procs, ReadForUpdate(p)
  PROVE  /\ proc[p].pc = "save"
         /\ \/ Stop(p)
            \/ /\ Moves(p)
               /\ proc[p].cmd = "create" \/ proc[p].name \in DOMAIN config.entry
               /\ proc'[p].pc = "truncate"
               /\ SameContext(p) /\ SameUrl(p)
               /\ proc'[p].read = config
               /\ UNCHANGED <<config, texts, created, switched, lossy>>
<1> SUFFICES ASSUME Continue(p, [proc[p] EXCEPT !.pc = "truncate", !.read = config])
             PROVE  /\ Moves(p)
                    /\ proc'[p].pc = "truncate"
                    /\ SameContext(p) /\ SameUrl(p)
                    /\ proc'[p].read = config
                    /\ UNCHANGED <<config, texts, created, switched, lossy>>
  BY DEF ReadForUpdate
<1> DEFINE l == proc[p]
           m == proc'[p]
<1>1. /\ m = [l EXCEPT !.pc = "truncate", !.read = config]
      /\ DOMAIN proc' = Procs
      /\ \A q \in Procs : q # p => proc'[q] = proc[q]
      /\ UNCHANGED <<config, texts, created, switched, lossy>>
  BY DEF Continue, File, Shape
<1>2. HasFields(l) /\ Placed(l) /\ l.pc = "save" /\ IsConfig(config)
  BY DEF Shape, ReadForUpdate
<1> HIDE DEF l, m
<1>3. /\ HasFields(m) /\ m.pc = "truncate" /\ m.cmd = l.cmd /\ m.opt = l.opt /\ m.url = l.url
      /\ m.name = l.name /\ m.entry = l.entry /\ m.read = config
  BY <1>1, <1>2 DEF HasFields
<1>8. Placed(m)
  BY <1>2, <1>3 DEF Placed
<1> QED
  BY <1>8, <1>1, <1>2, <1>3 DEF Moves, SameUrl, SameCommand, SameContext, l, m

LEMMA TruncateEffect ==
  ASSUME Shape, NEW p \in Procs, TruncateConfigFile(p)
  PROVE  /\ Moves(p)
         /\ proc[p].pc = "truncate"
         /\ proc'[p].pc = "fill"
         /\ SameContext(p) /\ SameUrl(p)
         /\ proc'[p].read = proc[p].read
         /\ config' = EmptyConfig /\ texts' = {}
         /\ lossy' = (lossy \/ config # proc[p].read)
         /\ UNCHANGED <<created, switched>>
<1> DEFINE l == proc[p]
           m == proc'[p]
<1>1. /\ proc' = [proc EXCEPT ![p].pc = "fill"]
      /\ proc[p].pc = "truncate"
      /\ config' = EmptyConfig /\ texts' = {}
      /\ lossy' = (lossy \/ config # proc[p].read)
      /\ UNCHANGED <<created, switched>>
  BY DEF TruncateConfigFile
<1>2. /\ m = [l EXCEPT !.pc = "fill"]
      /\ DOMAIN proc' = Procs
      /\ \A q \in Procs : q # p => proc'[q] = proc[q]
  BY <1>1 DEF Shape
<1>3. HasFields(l) /\ Placed(l) /\ l.pc = "truncate" /\ IsConfig(l.read)
  BY DEF Shape, TruncateConfigFile
<1> HIDE DEF l, m
<1>4. /\ HasFields(m) /\ m.pc = "fill" /\ m.cmd = l.cmd /\ m.opt = l.opt /\ m.url = l.url
      /\ m.name = l.name /\ m.entry = l.entry /\ m.read = l.read
  BY <1>2, <1>3 DEF HasFields
<1>8. Placed(m)
  BY <1>3, <1>4 DEF Placed
<1> QED
  BY <1>8, <1>1, <1>2, <1>3, <1>4 DEF Moves, SameUrl, SameCommand, SameContext, l, m

\* A configuration found in the file once new was written over its texts: what
\* is not new is of one of them.
LaidOver(f, new) ==
  /\ IsConfig(f)
  /\ f.active = new.active
  /\ DOMAIN new.entry \subseteq DOMAIN f.entry
  /\ \A c \in DOMAIN f.entry :
       \/ c \in DOMAIN new.entry /\ f.entry[c] = new.entry[c]
       \/ \E t \in texts : c \in DOMAIN t.entry /\ f.entry[c] = t.entry[c]

LEMMA OverwriteFields ==
  ASSUME NEW new, Overwrite(new)
  PROVE  /\ texts' = texts \cup {new}
         /\ \/ LaidOver(config', new)
            \/ config' = EmptyConfig /\ texts # {}
<1>1. CASE config' = EmptyConfig /\ texts # {}
  BY <1>1 DEF Overwrite
<1>2. CASE ~(config' = EmptyConfig /\ texts # {})
  <2>1. PICK more \in SUBSET (UNION {DOMAIN t.entry : t \in texts} \ DOMAIN new.entry) :
          \E from \in [more -> texts] :
             /\ \A c \in more : c \in DOMAIN from[c].entry
             /\ config' = [active |-> new.active,
                  entry |-> [c \in DOMAIN new.entry \cup more |->
                    IF c \in more THEN from[c].entry[c] ELSE new.entry[c]]]
    BY <1>2 DEF Overwrite
  <2>2. PICK from \in [more -> texts] :
             /\ \A c \in more : c \in DOMAIN from[c].entry
             /\ config' = [active |-> new.active,
                  entry |-> [c \in DOMAIN new.entry \cup more |->
                    IF c \in more THEN from[c].entry[c] ELSE new.entry[c]]]
    BY <2>1
  <2>3. /\ IsConfig(config') /\ config'.active = new.active
        /\ config'.entry = [c \in DOMAIN new.entry \cup more |->
              IF c \in more THEN from[c].entry[c] ELSE new.entry[c]]
    BY <2>2 DEF IsConfig
  <2>4. /\ DOMAIN config'.entry = DOMAIN new.entry \cup more
        /\ \A c \in DOMAIN config'.entry :
             config'.entry[c] = IF c \in more THEN from[c].entry[c] ELSE new.entry[c]
    BY <2>3
  <2>5. ASSUME NEW c \in DOMAIN config'.entry
        PROVE  \/ c \in DOMAIN new.entry /\ config'.entry[c] = new.entry[c]
               \/ \E t \in texts : c \in DOMAIN t.entry /\ config'.entry[c] = t.entry[c]
    <3>1. CASE c \in more
      <4>1. from[c] \in texts /\ c \in DOMAIN from[c].entry
        BY <2>2, <3>1
      <4> QED
        BY <2>4, <3>1, <4>1
    <3>2. CASE c \notin more
      BY <2>4, <3>2
    <3> QED
      BY <3>1, <3>2
  <2> QED
    BY <2>3, <2>4, <2>5 DEF LaidOver, Overwrite
<1> QED
  BY <1>1, <1>2

LEMMA FillEffect ==
  ASSUME Shape, NEW p \in Procs, FillConfigFile(p)
  PROVE  /\ Moves(p)
         /\ proc[p].pc = "fill"
         /\ \/ proc'[p].pc = "idle"
            \/ /\ proc'[p].pc = "ready"
               /\ proc[p].cmd = "call"
               /\ SameContext(p) /\ SameUrl(p)
         /\ texts' = texts \cup {Updated(proc[p])}
         /\ \/ LaidOver(config', Updated(proc[p]))
            \/ config' = EmptyConfig /\ texts # {}
         /\ created' = IF proc[p].cmd = "create" THEN created \cup {proc[p].name}
                       ELSE created
         /\ lossy' = (lossy \/ texts # {})
         /\ switched' = switched
<1> DEFINE l == proc[p]
           m == proc'[p]
<1>1. /\ proc' = [proc EXCEPT ![p] =
                    IF @.cmd = "call" THEN [@ EXCEPT !.pc = "ready"] ELSE Stopped]
      /\ proc[p].pc = "fill"
      /\ texts' = texts \cup {Updated(proc[p])}
      /\ \/ LaidOver(config', Updated(proc[p]))
         \/ config' = EmptyConfig /\ texts # {}
      /\ created' = IF proc[p].cmd = "create" THEN created \cup {proc[p].name}
                    ELSE created
      /\ lossy' = (lossy \/ texts # {})
      /\ switched' = switched
  BY OverwriteFields DEF FillConfigFile
<1>2. /\ m = IF l.cmd = "call" THEN [l EXCEPT !.pc = "ready"] ELSE Stopped
      /\ DOMAIN proc' = Procs
      /\ \A q \in Procs : q # p => proc'[q] = proc[q]
  BY <1>1 DEF Shape
<1>3. HasFields(l) /\ Placed(l) /\ IsConfig(l.read)
  BY DEF Shape
<1> HIDE DEF l, m
<1>4. CASE l.cmd = "call"
  <2>1. /\ HasFields(m) /\ m.pc = "ready" /\ m.cmd = l.cmd /\ m.opt = l.opt /\ m.url = l.url
        /\ m.name = l.name /\ m.entry = l.entry /\ m.read = l.read
    BY <1>2, <1>3, <1>4 DEF HasFields
  <2>2. Placed(m)
    BY <1>3, <1>4, <2>1 DEF Placed, Switching
  <2> QED
    BY <1>1, <1>2, <1>3, <1>4, <2>1, <2>2 DEF Moves, SameUrl, SameCommand, SameContext, l, m
<1>5. CASE l.cmd # "call"
  <2>1. m = Stopped
    BY <1>2, <1>5
  <2>2. HasFields(m) /\ Placed(m) /\ m.pc = "idle" /\ IsConfig(m.read)
    BY <2>1, StoppedFields
  <2> QED
    BY <1>1, <1>2, <2>2 DEF Moves, m
<1> QED
  BY <1>4, <1>5

\* The configuration that is written.
LEMMA UpdatedFields ==
  ASSUME NEW l, IsConfig(l.read)
  PROVE  /\ IsConfig(Updated(l))
         /\ l.cmd = "set" =>
              Updated(l).active = l.name /\ Updated(l).entry = l.read.entry
         /\ l.cmd # "set" =>
              /\ Updated(l).active = IF DOMAIN l.read.entry = {} THEN l.name
                                     ELSE l.read.active
              /\ DOMAIN Updated(l).entry = DOMAIN l.read.entry \cup {l.name}
              /\ \A c \in DOMAIN l.read.entry \cup {l.name} :
                   Updated(l).entry[c] = IF c = l.name THEN l.entry ELSE l.read.entry[c]
<1>1. CASE l.cmd = "set"
  <2> DEFINE r == l.read
             u == Updated(l)
  <2>1. u = [r EXCEPT !.active = l.name]
    BY <1>1 DEF Updated
  <2>2. IsConfig(r)
    OBVIOUS
  <2> HIDE DEF r, u
  <2>3. IsConfig(u) /\ u.active = l.name /\ u.entry = r.entry
    BY <2>1, <2>2 DEF IsConfig
  <2> QED
    BY <1>1, <2>3 DEF r, u
<1>2. CASE l.cmd # "set"
  BY <1>2 DEF Updated, IsConfig
<1> QED
  BY <1>1, <1>2


-----------------------------------------------------------------------------
(* StoreInv is inductive                                                   *)

LEMMA StoreInit == Init => StoreInv
<1> SUFFICES ASSUME Init PROVE StoreInv
  OBVIOUS
<1>1. /\ created \subseteq Names
      /\ proc = [p \in Procs |-> Stopped]
  BY DEF Init
<1>2. PICK users \in SUBSET created, active \in IF created = {} THEN {Unnamed} ELSE created :
        config = [active |-> active, entry |-> [c \in created |->
                    IF c \in users THEN LoggedIn(c) ELSE Blank]]
  BY DEF Init
<1>3. DOMAIN config.entry = created /\ config.active = active /\ IsConfig(config)
  BY <1>2 DEF IsConfig
<1>4. Shape
  BY <1>1, <1>3, StoppedFields DEF Shape
<1>5. Sound(config)
  BY <1>1, <1>3, StoreAssumption DEF Sound
<1>6. \A p \in Procs : proc[p].pc = "idle"
  BY <1>1, StoppedFields
<1>7. Remains
  BY DEF Init, Remains
<1> QED
  BY <1>3, <1>4, <1>5, <1>6, <1>7 DEF StoreInv, Named, Kept, Updates

\* Moves keeps the shape of the records.
LEMMA ShapeKept ==
  ASSUME Shape, NEW p \in Procs, Moves(p), IsConfig(config')
  PROVE  Shape'
BY DEF Shape, Moves

\* A step that neither writes the file nor prepares to.
LEMMA QuietStep ==
  ASSUME StoreInv, NEW p \in Procs, Moves(p), UNCHANGED <<config, texts, created>>,
         ~lossy' => ~lossy /\ proc[p].pc # "fill",
         proc'[p].pc \notin {"truncate", "fill"},
         proc'[p].pc = "save" /\ proc'[p].cmd = "create" => proc'[p].name # Unnamed
  PROVE  StoreInv'
<1>1. Shape'
  BY ShapeKept DEF StoreInv, Shape
<1>2. Sound(config)' /\ Remains'
  BY DEF StoreInv, Sound, Remains
<1>3. \A q \in Procs : q # p => proc'[q] = proc[q]
  BY DEF Moves
<1>4. Named'
  BY <1>3 DEF StoreInv, Named, Updates, Sound
<1>5. Kept'
  BY <1>3 DEF StoreInv, Kept
<1> QED
  BY <1>1, <1>2, <1>4, <1>5 DEF StoreInv

LEMMA StopStore ==
  ASSUME StoreInv, NEW p \in Procs, Stop(p)
  PROVE  StoreInv'
<1>1. /\ Moves(p) /\ proc'[p].pc = "idle"
      /\ lossy' = (lossy \/ Pending(p))
      /\ UNCHANGED <<config, texts, created>>
  BY StopEffect DEF StoreInv
<1>2. ~lossy' => ~lossy /\ proc[p].pc # "fill"
  BY <1>1 DEF Pending
<1> QED
  BY <1>1, <1>2, QuietStep

LEMMA ReadForUpdateStore ==
  ASSUME StoreInv, NEW p \in Procs, ReadForUpdate(p)
  PROVE  StoreInv'
<1> SUFFICES ASSUME ~Stop(p) PROVE StoreInv'
  BY StopStore
<1>1. /\ proc[p].pc = "save" /\ Moves(p)
      /\ proc[p].cmd = "create" \/ proc[p].name \in DOMAIN config.entry
      /\ proc'[p].pc = "truncate"
      /\ proc'[p].cmd = proc[p].cmd /\ proc'[p].name = proc[p].name
      /\ proc'[p].read = config
      /\ UNCHANGED <<config, texts, created, lossy>>
  BY ReadForUpdateEffect DEF StoreInv, SameContext, SameCommand
<1>2. Shape' /\ Sound(config)' /\ Remains'
  BY <1>1, ShapeKept DEF StoreInv, Shape, Sound, Remains
<1>3. \A q \in Procs : q # p => proc'[q] = proc[q]
  BY <1>1 DEF Moves
<1>4. Named'
  <2> SUFFICES ASSUME NEW q \in Procs
               PROVE  /\ proc'[q].pc = "save" /\ proc'[q].cmd = "create"
                           => proc'[q].name # Unnamed
                      /\ Updates(q)' =>
                           /\ Sound(proc'[q].read)
                           /\ \/ proc'[q].cmd = "create" /\ proc'[q].name # Unnamed
                              \/ proc'[q].name \in DOMAIN proc'[q].read.entry
    BY DEF Named, Sound
  <2>1. CASE q = p
    BY <1>1, <2>1 DEF StoreInv, Named
  <2>2. CASE q # p
    BY <1>3, <2>2 DEF StoreInv, Named, Updates
  <2> QED
    BY <2>1, <2>2
<1>5. Kept'
  BY <1>1, <1>3 DEF StoreInv, Kept
<1> QED
  BY <1>2, <1>4, <1>5 DEF StoreInv

LEMMA TruncateStore ==
  ASSUME StoreInv, NEW p \in Procs, TruncateConfigFile(p)
  PROVE  StoreInv'
<1>1. /\ Moves(p)
      /\ proc[p].pc = "truncate" /\ proc'[p].pc = "fill"
      /\ proc'[p].cmd = proc[p].cmd /\ proc'[p].name = proc[p].name
      /\ proc'[p].read = proc[p].read
      /\ config' = EmptyConfig /\ texts' = {}
      /\ lossy' = (lossy \/ config # proc[p].read)
      /\ created' = created
  BY TruncateEffect DEF StoreInv, SameContext, SameCommand
<1>2. Shape' /\ Sound(config)' /\ Remains'
  BY <1>1, ShapeKept, NoContexts DEF StoreInv, Sound, Remains
<1>3. \A q \in Procs : q # p => proc'[q] = proc[q]
  BY <1>1 DEF Moves
<1>4. Named'
  BY <1>1, <1>3 DEF StoreInv, Named, Updates, Sound
<1>5. Kept'
  <2> SUFFICES ASSUME ~lossy', NEW r \in Procs, proc'[r].pc = "fill",
                      \A q \in Procs : q # r => proc'[q].pc # "fill"
               PROVE  created \subseteq DOMAIN proc'[r].read.entry
    BY <1>1 DEF Kept
  <2>1. r = p
    BY <1>1
  <2>2. \A q \in Procs : proc[q].pc # "fill"
    BY <1>1, <1>3, <2>1
  <2>3. created \subseteq DOMAIN config.entry /\ config = proc[p].read
    BY <1>1, <2>2 DEF StoreInv, Kept
  <2> QED
    BY <1>1, <2>1, <2>3
<1> QED
  BY <1>2, <1>4, <1>5 DEF StoreInv

LEMMA FillStore ==
  ASSUME StoreInv, NEW p \in Procs, FillConfigFile(p)
  PROVE  StoreInv'
<1> DEFINE l == proc[p]
           new == Updated(proc[p])
<1>1. /\ Moves(p)
      /\ l.pc = "fill" /\ proc'[p].pc \in {"idle", "ready"}
      /\ texts' = texts \cup {new}
      /\ LaidOver(config', new) \/ (config' = EmptyConfig /\ texts # {})
      /\ created' = IF l.cmd = "create" THEN created \cup {l.name} ELSE created
      /\ lossy' = (lossy \/ texts # {})
  BY FillEffect DEF StoreInv
<1>2. /\ IsConfig(l.read) /\ Sound(l.read)
      /\ \/ l.cmd = "create" /\ l.name # Unnamed
         \/ l.name \in DOMAIN l.read.entry
  BY <1>1 DEF StoreInv, Shape, Named, Updates
<1>3. Sound(new)
  <2>1. CASE l.cmd = "set"
    BY <1>1, <1>2, <2>1, UpdatedFields DEF Sound
  <2>2. CASE l.cmd # "set"
    BY <1>1, <1>2, <2>2, UpdatedFields DEF Sound
  <2> QED
    BY <2>1, <2>2
<1>4. DOMAIN l.read.entry \subseteq DOMAIN new.entry /\ l.name \in DOMAIN new.entry
  <2>1. CASE l.cmd = "set"
    BY <1>1, <1>2, <2>1, UpdatedFields
  <2>2. CASE l.cmd # "set"
    BY <1>1, <1>2, <2>2, UpdatedFields
  <2> QED
    BY <2>1, <2>2
<1> HIDE DEF new
<1>5. IsConfig(config') /\ Sound(config)'
  <2>1. CASE config' = EmptyConfig
    BY <2>1, NoContexts DEF Sound
  <2>2. CASE LaidOver(config', new)
    BY <1>3, <2>2 DEF LaidOver, Sound, StoreInv, Remains
  <2> QED
    BY <1>1, <2>1, <2>2
<1>6. Shape' /\ Remains'
  BY <1>1, <1>3, <1>5, ShapeKept DEF StoreInv, Remains, Sound
<1>7. \A q \in Procs : q # p => proc'[q] = proc[q]
  BY <1>1 DEF Moves
<1>8. Named'
  BY <1>1, <1>7 DEF StoreInv, Named, Updates, Sound
<1>9. Kept'
  <2> SUFFICES ASSUME ~lossy', \A q \in Procs : proc'[q].pc # "fill"
               PROVE  created' \subseteq DOMAIN config'.entry
    BY <1>1 DEF Kept
  <2>1. texts = {} /\ \A q \in Procs : q # p => proc[q].pc # "fill"
    BY <1>1, <1>7
  <2>2. created \subseteq DOMAIN l.read.entry
    BY <1>1, <2>1 DEF StoreInv, Kept
  <2>3. DOMAIN new.entry \subseteq DOMAIN config'.entry
    BY <1>1, <2>1 DEF LaidOver
  <2> QED
    BY <1>1, <1>4, <2>2, <2>3
<1> QED
  BY <1>5, <1>6, <1>8, <1>9 DEF StoreInv

LEMMA StoreStep == StoreInv /\ [Next]_vars => StoreInv'
<1> SUFFICES ASSUME StoreInv, [Next]_vars PROVE StoreInv'
  OBVIOUS
<1>1. Shape
  BY DEF StoreInv
<1>2. CASE UNCHANGED <<config, texts, proc, created, lossy>>
  BY <1>2 DEF StoreInv, Shape, Sound, Remains, Named, Updates, Kept
<1>3. ASSUME NEW p \in Procs, NEW cmd \in Commands, NEW opt, Start(p, cmd, opt)
      PROVE  StoreInv'
  <2>1. /\ Moves(p) /\ proc[p].pc = "idle" /\ proc'[p].cmd = cmd
        /\ UNCHANGED <<config, texts, created, lossy>>
        /\ IF cmd \in Switching
           THEN proc'[p].pc = "save" /\ proc'[p].name = opt /\ opt # Unnamed
           ELSE proc'[p].pc \in {"adapter", "context"}
    BY <1>1, <1>3, StartEffect
  <2> QED
    BY <2>1, QuietStep
<1>4. ASSUME NEW p \in Procs, OpenAdapter(p) PROVE StoreInv'
  <2>1. proc[p].pc # "fill"
    BY <1>4 DEF OpenAdapter
  <2>2. CASE Stop(p)
    BY <2>2, StopStore
  <2>3. CASE /\ Moves(p)
             /\ proc'[p].pc = "context"
             /\ UNCHANGED <<config, texts, created, lossy>>
    BY <2>1, <2>3, QuietStep
  <2> QED
    BY <1>1, <1>4, <2>2, <2>3, OpenAdapterEffect
<1>5. ASSUME NEW p \in Procs, ReadContext(p) PROVE StoreInv'
  <2>1. proc[p].pc = "context"
    BY <1>5 DEF ReadContext
  <2>2. CASE Stop(p)
    BY <2>2, StopStore
  <2>3. CASE /\ Moves(p)
             /\ proc'[p].pc \in {"save", "provider", "ready"}
             /\ SameCommand(p)
             /\ proc[p].cmd \notin Switching
             /\ UNCHANGED <<config, texts, created, lossy>>
    BY <2>1, <2>3, QuietStep DEF SameCommand, Switching
  <2> QED
    BY <1>1, <1>5, <2>2, <2>3, ReadContextEffect
<1>6. ASSUME NEW p \in Procs, AskProvider(p) PROVE StoreInv'
  <2>1. proc[p].pc # "fill"
    BY <1>6 DEF AskProvider
  <2>2. CASE Stop(p)
    BY <2>2, StopStore
  <2>3. CASE /\ Moves(p)
             /\ proc'[p].pc = "grant"
             /\ UNCHANGED <<config, texts, created, lossy>>
    BY <2>1, <2>3, QuietStep
  <2> QED
    BY <1>1, <1>6, <2>2, <2>3, AskProviderEffect
<1>7. ASSUME NEW p \in Procs, ReceiveTokens(p) PROVE StoreInv'
  BY <1>1, <1>7, ReceiveTokensEffect, QuietStep
<1>8. ASSUME NEW p \in Procs, LoseTokens(p) PROVE StoreInv'
  <2>1. /\ proc' = [proc EXCEPT ![p] = Stopped] /\ lossy' = TRUE
        /\ UNCHANGED <<config, texts, created>>
    BY <1>8 DEF LoseTokens, File
  <2>2. Moves(p) /\ proc'[p].pc = "idle"
    BY <1>1, <2>1, StoppedFields DEF Moves, Shape
  <2> QED
    BY <2>1, <2>2, QuietStep
<1>9. ASSUME NEW p \in Procs, VerifyIDToken(p) PROVE StoreInv'
  <2>1. proc[p].pc = "verify" /\ proc[p].cmd # "create"
    BY <1>1, <1>9 DEF VerifyIDToken, Shape, Placed, Switching
  <2>2. CASE Stop(p)
    BY <2>2, StopStore
  <2>3. CASE /\ Moves(p)
             /\ proc'[p].pc = "save"
             /\ SameContext(p)
             /\ UNCHANGED <<config, texts, created, lossy>>
    BY <2>1, <2>3, QuietStep DEF SameContext, SameCommand
  <2> QED
    BY <1>1, <1>9, <2>2, <2>3, VerifyIDTokenEffect
<1>10. ASSUME NEW p \in Procs, TokensRefused(p) \/ Finish(p) \/ Kill(p) PROVE StoreInv'
  BY <1>10, StopStore DEF TokensRefused, Finish, Kill
<1>11. ASSUME NEW c \in Names, Expire(c) PROVE StoreInv'
  BY <1>2, <1>11 DEF Expire, File
<1>12. CASE UNCHANGED vars
  BY <1>2, <1>12 DEF vars
<1> QED
  BY <1>3, <1>4, <1>5, <1>6, <1>7, <1>8, <1>9, <1>10, <1>11, <1>12,
     ReadForUpdateStore, TruncateStore, FillStore DEF Next

\* The active context is one of the contexts, whoever reads and rewrites the
\* configuration file (cmd/context.go) and whoever is cut short.
THEOREM ActiveIsContext == Spec => []ActiveExists
<1>1. StoreInv => ActiveExists
  BY DEF StoreInv, Sound, ActiveExists
<1> QED
  BY <1>1, StoreInit, StoreStep, PTL DEF Spec

\* While no update of the configuration file was overwritten or left
\* incomplete, every context that was created is in it.
THEOREM CreatedIsKept == Spec => []ContextsKept
<1>1. StoreInv => ContextsKept
  BY DEF StoreInv, Kept, ContextsKept
<1> QED
  BY <1>1, StoreInit, StoreStep, PTL DEF Spec

-----------------------------------------------------------------------------
(* TokenInv is inductive relative to StoreInv                              *)

Tokens == Alone /\ OwnedAll /\ Steady /\ Steadfast

LEMMA TokenInit == Init => TokenInv
<1> SUFFICES ASSUME Init PROVE Tokens
  BY DEF TokenInv, Tokens
<1>1. /\ created \subseteq Names
      /\ proc = [p \in Procs |-> Stopped]
  BY DEF Init
<1>2. PICK users \in SUBSET created, active \in IF created = {} THEN {Unnamed} ELSE created :
        config = [active |-> active, entry |-> [c \in created |->
                    IF c \in users THEN LoggedIn(c) ELSE Blank]]
  BY DEF Init
<1>3. \A c : EntryOf(Blank, c) /\ EntryOf(LoggedIn(c), c)
  BY DEF EntryOf, OfContext, Blank, LoggedIn
<1>4. OwnedAll
  BY <1>2, <1>3 DEF OwnedAll, Owned, Init
<1>5. \A p \in Procs : proc[p].pc = "idle"
  BY <1>1, StoppedFields
<1> QED
  BY <1>4, <1>5 DEF Tokens, Alone, Steady, SteadyAt, Steadfast, Reading, Updates

LEMMA BlankOfAny == ASSUME NEW c PROVE EntryOf(Blank, c)
BY DEF EntryOf, OfContext, Blank

\* A process that stops.
LEMMA IdleTokens ==
  ASSUME Tokens, NEW p \in Procs, Moves(p), UNCHANGED <<config, texts>>, proc'[p].pc = "idle"
  PROVE  Tokens'
<1>1. \A q \in Procs : q # p => proc'[q] = proc[q]
  BY DEF Moves
<1>2. Alone'
  BY <1>1 DEF Tokens, Alone
<1>3. OwnedAll'
  BY DEF Tokens, OwnedAll, Owned
<1>4. Steady'
  <2> SUFFICES ASSUME NEW q \in Procs PROVE SteadyAt(q)'
    BY DEF Steady
  <2>1. CASE q = p
    BY <2>1 DEF SteadyAt, Reading, Updates
  <2>2. CASE q # p
    BY <1>1, <2>2 DEF Tokens, Steady, SteadyAt, Reading, Updates, Owned
  <2> QED
    BY <2>1, <2>2
<1>5. Steadfast'
  BY <1>1 DEF Tokens, Steadfast, Undisturbed, Reading, Updates
<1> QED
  BY <1>2, <1>3, <1>4, <1>5 DEF Tokens

LEMMA StopTokens ==
  ASSUME StoreInv, Tokens, NEW p \in Procs, Stop(p)
  PROVE  Tokens'
BY IdleTokens, StopEffect DEF StoreInv

\* A command that begins, while no command that switches the context runs and
\* alone if it is one itself.
LEMMA StartTokens ==
  ASSUME StoreInv, Tokens, NEW p \in Procs, NEW cmd \in Commands, NEW opt,
         Start(p, cmd, opt), ~switched'
  PROVE  Tokens'
<1>1. /\ Moves(p) /\ proc[p].pc = "idle" /\ proc'[p].cmd = cmd
      /\ UNCHANGED <<config, texts>>
      /\ IF cmd \in Switching
         THEN proc'[p].pc = "save" /\ proc'[p].entry = Blank
         ELSE proc'[p].pc \in {"adapter", "context"}
      /\ switched' = (switched \/ \E q \in Procs \ {p} :
                        /\ proc[q].pc # "idle"
                        /\ cmd \in Switching \/ proc[q].cmd \in Switching)
  BY StartEffect DEF StoreInv
<1>2. \A q \in Procs : q # p => proc'[q] = proc[q]
  BY <1>1 DEF Moves
<1>3. \A q \in Procs : q # p /\ proc[q].pc # "idle" =>
        cmd \notin Switching /\ proc[q].cmd \notin Switching
  <2> DEFINE overlap == \E q \in Procs \ {p} :
                          /\ proc[q].pc # "idle"
                          /\ cmd \in Switching \/ proc[q].cmd \in Switching
  <2>1. switched' = (switched \/ overlap)
    BY <1>1
  <2>2. ~overlap
    <3> HIDE DEF overlap
    <3> QED
      BY <2>1, Zenon
  <2> QED
    BY <2>2
<1>4. Alone'
  BY <1>1, <1>2, <1>3 DEF Tokens, Alone
<1>5. OwnedAll'
  BY <1>1 DEF Tokens, OwnedAll, Owned
<1>6. Steady'
  <2> SUFFICES ASSUME NEW q \in Procs PROVE SteadyAt(q)'
    BY DEF Steady
  <2>1. CASE q = p
    BY <1>1, <2>1, BlankOfAny DEF SteadyAt, Reading, Updates
  <2>2. CASE q # p
    BY <1>1, <1>2, <2>2 DEF Tokens, Steady, SteadyAt, Reading, Updates, Owned
  <2> QED
    BY <2>1, <2>2
<1>7. Steadfast'
  <2> SUFFICES ASSUME NEW r \in Procs, Updates(r)', proc'[r].cmd \notin Switching
               PROVE  /\ Agree(proc'[r].read.active, config'.active)
                      /\ \A q \in Procs : Undisturbed(r, q)'
    BY DEF Steadfast, Agree
  <2>1. r # p
    BY <1>1 DEF Updates
  <2>2. /\ Agree(proc[r].read.active, config.active)
        /\ \A q \in Procs : Undisturbed(r, q)
    BY <1>2, <2>1 DEF Tokens, Steadfast, Updates
  <2>3. ASSUME NEW q \in Procs PROVE Undisturbed(r, q)'
    <3>1. CASE q = p
      BY <1>1, <3>1 DEF Undisturbed, Updates, Reading
    <3>2. CASE q # p
      BY <1>2, <2>1, <2>2, <3>2 DEF Undisturbed, Updates, Reading, Agree
    <3> QED
      BY <3>1, <3>2
  <2> QED
    BY <1>1, <1>2, <2>1, <2>2, <2>3
<1> QED
  BY <1>4, <1>5, <1>6, <1>7 DEF Tokens

\* A command that goes on without coming to the update: the name it goes by is
\* the one it had, or the active one.
LEMMA GoOnTokens ==
  ASSUME Tokens, NEW p \in Procs, Moves(p), UNCHANGED <<config, texts>>, SameCommand(p),
         proc[p].pc # "idle", ~Updates(p)', SteadyAt(p)',
         \/ Reading(p)'
         \/ proc'[p].opt # Unnamed
         \/ proc'[p].name = config.active
         \/ ~Reading(p) /\ proc'[p].name = proc[p].name
  PROVE  Tokens'
<1>1. /\ \A q \in Procs : q # p => proc'[q] = proc[q]
      /\ proc'[p].cmd = proc[p].cmd /\ proc'[p].opt = proc[p].opt
  BY DEF Moves, SameCommand
<1>2. Alone'
  BY <1>1 DEF Tokens, Alone
<1>3. OwnedAll'
  BY DEF Tokens, OwnedAll, Owned
<1>4. Steady'
  <2> SUFFICES ASSUME NEW q \in Procs, q # p PROVE SteadyAt(q)'
    BY DEF Steady
  <2> QED
    BY <1>1 DEF Tokens, Steady, SteadyAt, Reading, Updates, Owned
<1>5. Steadfast'
  <2> SUFFICES ASSUME NEW r \in Procs, Updates(r)', proc'[r].cmd \notin Switching
               PROVE  /\ Agree(proc'[r].read.active, config'.active)
                      /\ \A q \in Procs : Undisturbed(r, q)'
    BY DEF Steadfast, Agree
  <2>1. r # p /\ proc'[r] = proc[r]
    BY <1>1
  <2>2. /\ Agree(proc[r].read.active, config.active)
        /\ \A q \in Procs : Undisturbed(r, q)
    BY <2>1 DEF Tokens, Steadfast, Updates
  <2>3. ASSUME NEW q \in Procs PROVE Undisturbed(r, q)'
    <3>1. CASE q = p
      <4>1. Undisturbed(r, p)
        BY <2>2
      <4> QED
        BY <1>1, <2>1, <2>2, <3>1, <4>1 DEF Undisturbed, Updates
    <3>2. CASE q # p
      <4>1. Undisturbed(r, q)
        BY <2>2
      <4> QED
        BY <1>1, <2>1, <3>2, <4>1 DEF Undisturbed, Updates, Reading
    <3> QED
      BY <3>1, <3>2
  <2> QED
    BY <2>1, <2>2, <2>3
<1> QED
  BY <1>2, <1>3, <1>4, <1>5 DEF Tokens

\* What a process picks while its name is the option, or agrees with the
\* active context, is its name.
LEMMA PickedIsName ==
  ASSUME StoreInv, Tokens, NEW p \in Procs, IsKnown(p), ~Reading(p),
         proc[p].cmd \notin Switching
  PROVE  Picked(p) = proc[p].name
<1>1. Picked(p) # Unnamed
  BY DEF IsKnown, StoreInv, Sound
<1>2. SteadyAt(p)
  BY DEF Tokens, Steady
<1> QED
  BY <1>1, <1>2 DEF SteadyAt, Picked, Agree

LEMMA OpenAdapterTokens ==
  ASSUME StoreInv, Tokens, NEW p \in Procs, OpenAdapter(p)
  PROVE  Tokens'
<1> SUFFICES ASSUME ~Stop(p) PROVE Tokens'
  BY StopTokens
<1>1. /\ Moves(p) /\ UNCHANGED <<config, texts>> /\ proc'[p].pc = "context" /\ SameCommand(p)
      /\ proc[p].pc = "adapter"
  <2>1. proc[p].pc = "adapter"
    BY DEF OpenAdapter
  <2> QED
    BY <2>1, OpenAdapterEffect DEF StoreInv
<1>2. SteadyAt(p)' /\ Reading(p)' /\ ~Updates(p)'
  BY <1>1 DEF SteadyAt, Reading, Updates
<1> QED
  BY <1>1, <1>2, GoOnTokens

LEMMA ReadContextTokens ==
  ASSUME StoreInv, Tokens, NEW p \in Procs, ReadContext(p)
  PROVE  Tokens'
<1> SUFFICES ASSUME ~Stop(p) PROVE Tokens'
  BY StopTokens
<1>1. /\ Moves(p) /\ UNCHANGED <<config, texts>> /\ SameCommand(p)
      /\ IsKnown(p) /\ proc[p].pc = "context"
      /\ proc'[p].pc \in {"save", "provider", "ready"}
      /\ proc'[p].name = Picked(p)
      /\ proc'[p].entry \in {Blank, config.entry[Picked(p)]}
  <2>1. proc[p].pc = "context"
    BY DEF ReadContext
  <2> QED
    BY <2>1, ReadContextEffect DEF StoreInv
<1>2. Picked(p) \in DOMAIN config.entry /\ Picked(p) # Unnamed
  BY <1>1 DEF IsKnown, StoreInv, Sound
<1>3. EntryOf(proc'[p].entry, Picked(p))
  BY <1>1, <1>2, BlankOfAny DEF Tokens, OwnedAll, Owned
<1>4. proc'[p].opt = proc[p].opt
  BY <1>1 DEF SameCommand
<1>5. IF proc'[p].opt # Unnamed THEN Picked(p) = proc'[p].opt
      ELSE Picked(p) = config.active
  BY <1>4 DEF Picked
<1>6. SteadyAt(p)' /\ ~Updates(p)'
  BY <1>1, <1>2, <1>3, <1>5 DEF SteadyAt, Updates, Agree
<1> QED
  BY <1>1, <1>5, <1>6, GoOnTokens

LEMMA AskProviderTokens ==
  ASSUME StoreInv, Tokens, NEW p \in Procs, AskProvider(p)
  PROVE  Tokens'
<1> SUFFICES ASSUME ~Stop(p) PROVE Tokens'
  BY StopTokens
<1>1. /\ Moves(p) /\ UNCHANGED <<config, texts>> /\ SameContext(p)
      /\ IsKnown(p) /\ proc[p].pc = "provider" /\ proc'[p].pc = "grant"
      /\ proc'[p].provider = Picked(p)
  <2>1. proc[p].pc = "provider"
    BY DEF AskProvider
  <2> QED
    BY <2>1, AskProviderEffect DEF StoreInv
<1>2. ~Reading(p) /\ proc[p].cmd \notin Switching
  BY <1>1 DEF Reading, StoreInv, Shape, Placed
<1>3. Picked(p) = proc[p].name
  BY <1>1, <1>2, PickedIsName
<1>4. /\ proc'[p].cmd = proc[p].cmd /\ proc'[p].opt = proc[p].opt
      /\ proc'[p].name = proc[p].name /\ proc'[p].entry = proc[p].entry
  BY <1>1 DEF SameContext, SameCommand
<1>5. SteadyAt(p)
  BY DEF Tokens, Steady
<1>6. SteadyAt(p)' /\ ~Updates(p)'
  BY <1>1, <1>2, <1>3, <1>4, <1>5 DEF SteadyAt, Updates
<1> QED
  BY <1>1, <1>2, <1>4, <1>6, GoOnTokens DEF SameContext

\* What the provider of context c grants are tokens of c.
LEMMA GrantedOwn ==
  ASSUME NEW p \in Procs, EntryOf(proc[p].entry, proc[p].name),
         proc[p].provider = proc[p].name
  PROVE  EntryOf(Granted(p), proc[p].name)
<1> DEFINE t == [ctx |-> proc[p].provider, n |-> issued[proc[p].provider] + 1]
           g == Granted(p)
<1>1. g.access = t /\ g.refresh \in {t, proc[p].entry.refresh, NoToken}
  BY DEF Granted
<1>2. t.ctx = proc[p].name
  OBVIOUS
<1> HIDE DEF t, g
<1>3. EntryOf(g, proc[p].name)
  BY <1>1, <1>2 DEF EntryOf, OfContext
<1> QED
  BY <1>3 DEF g

LEMMA ReceiveTokensTokens ==
  ASSUME StoreInv, Tokens, NEW p \in Procs, ReceiveTokens(p)
  PROVE  Tokens'
<1>1. /\ Moves(p) /\ UNCHANGED <<config, texts>> /\ SameCommand(p)
      /\ proc[p].pc = "grant" /\ proc'[p].pc = "verify"
      /\ proc'[p].name = proc[p].name /\ proc'[p].entry = Granted(p)
  BY ReceiveTokensEffect DEF StoreInv
<1>2. SteadyAt(p) /\ ~Reading(p)
  BY <1>1 DEF Tokens, Steady, Reading
<1>3. EntryOf(proc'[p].entry, proc[p].name)
  BY <1>1, <1>2, GrantedOwn DEF SteadyAt
<1>4. proc'[p].cmd = proc[p].cmd /\ proc'[p].opt = proc[p].opt
  BY <1>1 DEF SameCommand
<1>5. SteadyAt(p)' /\ ~Updates(p)'
  BY <1>1, <1>2, <1>3, <1>4 DEF SteadyAt, Updates
<1> QED
  BY <1>1, <1>2, <1>5, GoOnTokens

LEMMA VerifyIDTokenTokens ==
  ASSUME StoreInv, Tokens, NEW p \in Procs, VerifyIDToken(p)
  PROVE  Tokens'
<1> SUFFICES ASSUME ~Stop(p) PROVE Tokens'
  BY StopTokens
<1>1. /\ Moves(p) /\ UNCHANGED <<config, texts>> /\ SameContext(p)
      /\ proc[p].pc = "verify" /\ proc'[p].pc = "save"
  BY VerifyIDTokenEffect DEF StoreInv
<1>2. SteadyAt(p) /\ ~Reading(p)
  BY <1>1 DEF Tokens, Steady, Reading
<1>3. /\ proc'[p].cmd = proc[p].cmd /\ proc'[p].opt = proc[p].opt
      /\ proc'[p].name = proc[p].name /\ proc'[p].entry = proc[p].entry
  BY <1>1 DEF SameContext, SameCommand
<1>4. SteadyAt(p)' /\ ~Updates(p)'
  BY <1>1, <1>2, <1>3 DEF SteadyAt, Updates
<1> QED
  BY <1>1, <1>2, <1>3, <1>4, GoOnTokens DEF SameContext

LEMMA ReadForUpdateTokens ==
  ASSUME StoreInv, Tokens, NEW p \in Procs, ReadForUpdate(p)
  PROVE  Tokens'
<1> SUFFICES ASSUME ~Stop(p) PROVE Tokens'
  BY StopTokens
<1>1. /\ proc[p].pc = "save" /\ Moves(p) /\ UNCHANGED <<config, texts>>
      /\ proc'[p].pc = "truncate" /\ proc'[p].read = config
      /\ proc'[p].cmd = proc[p].cmd /\ proc'[p].opt = proc[p].opt
      /\ proc'[p].name = proc[p].name /\ proc'[p].entry = proc[p].entry
  BY ReadForUpdateEffect DEF StoreInv, SameContext, SameCommand
<1>2. \A q \in Procs : q # p => proc'[q] = proc[q]
  BY <1>1 DEF Moves
<1>3. SteadyAt(p) /\ ~Reading(p)
  BY <1>1 DEF Tokens, Steady, Reading
<1>4. Alone'
  BY <1>1, <1>2 DEF Tokens, Alone
<1>5. OwnedAll'
  BY <1>1 DEF Tokens, OwnedAll, Owned
<1>6. Steady'
  <2> SUFFICES ASSUME NEW q \in Procs PROVE SteadyAt(q)'
    BY DEF Steady
  <2>1. CASE q = p
    <3>1. Owned(config)
      BY DEF Tokens, OwnedAll
    <3> QED
      BY <1>1, <1>3, <2>1, <3>1 DEF SteadyAt, Owned
  <2>2. CASE q # p
    BY <1>1, <1>2, <2>2 DEF Tokens, Steady, SteadyAt, Reading, Updates, Owned
  <2> QED
    BY <2>1, <2>2
<1>7. Steadfast'
  <2> SUFFICES ASSUME NEW r \in Procs, Updates(r)', proc'[r].cmd \notin Switching
               PROVE  /\ Agree(proc'[r].read.active, config'.active)
                      /\ \A q \in Procs : Undisturbed(r, q)'
    BY DEF Steadfast, Agree
  <2>1. CASE r = p
    <3>1. proc'[r].read.active = config.active
      BY <1>1, <2>1
    <3>2. ASSUME NEW q \in Procs PROVE Undisturbed(r, q)'
      <4>1. CASE q = p
        BY <1>1, <1>3, <2>1, <3>1, <4>1 DEF Undisturbed, SteadyAt, Agree
      <4>2. CASE q # p
        <5>1. SteadyAt(q) /\ proc'[q] = proc[q]
          BY <1>2, <4>2 DEF Tokens, Steady
        <5>2. Updates(q) /\ proc[q].cmd \notin Switching
                => Agree(proc[q].read.active, config.active)
          BY DEF Tokens, Steadfast
        <5> QED
          BY <3>1, <5>1, <5>2 DEF Undisturbed, SteadyAt, Agree, Updates, Reading
      <4> QED
        BY <4>1, <4>2
    <3> QED
      BY <1>1, <3>1, <3>2 DEF Agree
  <2>2. CASE r # p
    <3>1. proc'[r] = proc[r]
      BY <1>2, <2>2
    <3>2. /\ Agree(proc[r].read.active, config.active)
          /\ \A q \in Procs : Undisturbed(r, q)
      BY <2>2, <3>1 DEF Tokens, Steadfast, Updates
    <3>3. ASSUME NEW q \in Procs PROVE Undisturbed(r, q)'
      <4>1. Undisturbed(r, q)
        BY <3>2
      <4>2. CASE q = p
        BY <1>1, <1>3, <3>1, <3>2, <4>1, <4>2 DEF Undisturbed
      <4>3. CASE q # p
        BY <1>2, <3>1, <4>1, <4>3 DEF Undisturbed, Updates, Reading
      <4> QED
        BY <4>2, <4>3
    <3> QED
      BY <1>1, <3>1, <3>2, <3>3
  <2> QED
    BY <2>1, <2>2
<1> QED
  BY <1>4, <1>5, <1>6, <1>7 DEF Tokens

LEMMA TruncateTokens ==
  ASSUME StoreInv, Tokens, NEW p \in Procs, TruncateConfigFile(p)
  PROVE  Tokens'
<1>1. /\ Moves(p) /\ config' = EmptyConfig /\ texts' = {}
      /\ proc[p].pc = "truncate" /\ proc'[p].pc = "fill"
      /\ proc'[p].cmd = proc[p].cmd /\ proc'[p].opt = proc[p].opt
      /\ proc'[p].name = proc[p].name /\ proc'[p].entry = proc[p].entry
      /\ proc'[p].read = proc[p].read
  BY TruncateEffect DEF StoreInv, SameContext, SameCommand
<1>2. \A q \in Procs : q # p => proc'[q] = proc[q]
  BY <1>1 DEF Moves
<1>3. config'.active = Unnamed /\ DOMAIN config'.entry = {}
  BY <1>1, NoContexts
<1>4. Alone'
  BY <1>1, <1>2 DEF Tokens, Alone
<1>5. OwnedAll'
  BY <1>1, <1>3 DEF OwnedAll, Owned
<1>6. \A q \in Procs : (Updates(q)' <=> Updates(q)) /\ (Reading(q)' <=> Reading(q))
  BY <1>1, <1>2 DEF Updates, Reading
<1>7. \A q \in Procs :
        /\ proc'[q].cmd = proc[q].cmd /\ proc'[q].opt = proc[q].opt
        /\ proc'[q].name = proc[q].name /\ proc'[q].entry = proc[q].entry
        /\ proc'[q].read = proc[q].read
  BY <1>1, <1>2
<1>8. Steady'
  <2> SUFFICES ASSUME NEW q \in Procs PROVE SteadyAt(q)'
    BY DEF Steady
  <2>1. SteadyAt(q)
    BY DEF Tokens, Steady
  <2>2. proc'[q].pc = "grant" => proc'[q] = proc[q]
    BY <1>1, <1>2
  <2> QED
    BY <1>3, <1>6, <1>7, <2>1, <2>2 DEF SteadyAt, Agree, Owned
<1>9. Steadfast'
  BY <1>3, <1>6, <1>7 DEF Tokens, Steadfast, Undisturbed, Agree
<1> QED
  BY <1>4, <1>5, <1>8, <1>9 DEF Tokens

LEMMA FillTokens ==
  ASSUME StoreInv, Tokens, NEW p \in Procs, FillConfigFile(p)
  PROVE  Tokens'
<1> DEFINE l == proc[p]
           new == Updated(proc[p])
<1>1. /\ Moves(p) /\ l.pc = "fill" /\ texts' = texts \cup {new}
      /\ LaidOver(config', new) \/ config' = EmptyConfig
      /\ \/ proc'[p].pc = "idle"
         \/ /\ proc'[p].pc = "ready" /\ l.cmd = "call"
            /\ proc'[p].cmd = l.cmd /\ proc'[p].opt = l.opt
            /\ proc'[p].name = l.name /\ proc'[p].entry = l.entry
  BY FillEffect DEF StoreInv, SameContext, SameCommand
<1>2. \A q \in Procs : q # p => proc'[q] = proc[q]
  BY <1>1 DEF Moves
<1>3. /\ IsConfig(l.read) /\ SteadyAt(p) /\ ~Reading(p) /\ Updates(p)
      /\ l.cmd = "create" \/ l.name \in DOMAIN l.read.entry
  BY <1>1 DEF Tokens, Steady, Reading, StoreInv, Shape, Named, Updates
<1>4. Alone'
  BY <1>1, <1>2 DEF Tokens, Alone
<1>5. OwnedAll'
  <2>1. EntryOf(l.entry, l.name) /\ Owned(l.read)
    BY <1>3 DEF SteadyAt
  <2>2. Owned(new)
    <3>1. CASE l.cmd = "set"
      BY <1>1, <1>3, <2>1, <3>1, UpdatedFields DEF Owned
    <3>2. CASE l.cmd # "set"
      <4>1. /\ DOMAIN new.entry = DOMAIN l.read.entry \cup {l.name}
            /\ \A c \in DOMAIN l.read.entry \cup {l.name} :
                 new.entry[c] = IF c = l.name THEN l.entry ELSE l.read.entry[c]
        BY <1>1, <1>3, <3>2, UpdatedFields
      <4> QED
        BY <2>1, <4>1 DEF Owned
    <3> QED
      BY <3>1, <3>2
  <2> HIDE DEF new
  <2>3. CASE config' = EmptyConfig
    BY <1>1, <2>2, <2>3, NoContexts DEF Tokens, OwnedAll, Owned
  <2>4. CASE LaidOver(config', new)
    BY <1>1, <2>2, <2>4 DEF LaidOver, Tokens, OwnedAll, Owned
  <2> QED
    BY <1>1, <2>3, <2>4
<1>6. CASE l.cmd \in Switching
  <2>1. \A q \in Procs : proc'[q].pc = "idle"
    BY <1>1, <1>2, <1>6 DEF Tokens, Alone, Switching
  <2>2. Steady' /\ Steadfast'
    BY <2>1 DEF Steady, SteadyAt, Steadfast, Reading, Updates
  <2> QED
    BY <1>4, <1>5, <2>2 DEF Tokens
<1>7. CASE l.cmd \notin Switching
  <2>1. config'.active \in {l.read.active, Unnamed}
    <3>1. new.active = l.read.active
      BY <1>1, <1>3, <1>7, UpdatedFields DEF Switching
    <3> HIDE DEF new
    <3> QED
      BY <1>1, <3>1, NoContexts DEF LaidOver
  <2>2. \A q \in Procs : Undisturbed(p, q)
    BY <1>3, <1>7 DEF Tokens, Steadfast
  <2>3. Steady'
    <3> SUFFICES ASSUME NEW q \in Procs PROVE SteadyAt(q)'
      BY DEF Steady
    <3>1. SteadyAt(q) /\ Undisturbed(p, q)
      BY <2>2 DEF Tokens, Steady
    <3>2. CASE q # p
      BY <1>2, <2>1, <3>1, <3>2
         DEF SteadyAt, Undisturbed, Reading, Updates, Agree, Owned
    <3>3. CASE q = p
      BY <1>1, <1>3, <1>7, <2>1, <3>1, <3>3
         DEF SteadyAt, Undisturbed, Reading, Updates, Agree
    <3> QED
      BY <3>2, <3>3
  <2>4. Steadfast'
    <3> SUFFICES ASSUME NEW r \in Procs, Updates(r)', proc'[r].cmd \notin Switching
                 PROVE  /\ Agree(proc'[r].read.active, config'.active)
                        /\ \A q \in Procs : Undisturbed(r, q)'
      BY DEF Steadfast, Agree
    <3>1. r # p
      BY <1>1 DEF Updates
    <3>2. proc'[r] = proc[r] /\ Updates(r)
      BY <1>2, <3>1 DEF Updates
    <3>3. \A q \in Procs : Undisturbed(r, q)
      BY <3>2 DEF Tokens, Steadfast
    <3>4. Agree(proc'[r].read.active, config'.active)
      BY <2>1, <2>2, <3>2 DEF Undisturbed, Agree
    <3>5. ASSUME NEW q \in Procs PROVE Undisturbed(r, q)'
      <4>1. Undisturbed(r, q)
        BY <3>3
      <4>2. CASE q # p
        BY <1>2, <3>2, <4>1, <4>2 DEF Undisturbed, Updates, Reading
      <4>3. CASE q = p
        BY <1>1, <1>3, <3>2, <4>1, <4>3 DEF Undisturbed, Updates, Reading
      <4> QED
        BY <4>2, <4>3
    <3> QED
      BY <3>4, <3>5
  <2> QED
    BY <1>4, <1>5, <2>3, <2>4 DEF Tokens
<1> QED
  BY <1>6, <1>7

\* A switch that overlapped another command is remembered.
LEMMA SwitchedStays == Shape /\ Next /\ ~switched' => ~switched
<1> SUFFICES ASSUME Shape, Next, switched, ~switched' PROVE FALSE
  OBVIOUS
<1>1. ASSUME NEW p \in Procs, NEW cmd \in Commands, NEW opt, Start(p, cmd, opt)
      PROVE  FALSE
  BY <1>1, Zenon DEF Start, File
<1>2. ASSUME NEW p \in Procs, Stop(p) PROVE FALSE
  BY <1>2 DEF Stop, File
<1>3. ASSUME NEW p \in Procs, OpenAdapter(p) \/ ReadContext(p) \/ AskProvider(p) PROVE FALSE
  BY <1>2, <1>3, OpenAdapterEffect, ReadContextEffect, AskProviderEffect
<1>4. ASSUME NEW p \in Procs, ReceiveTokens(p) \/ LoseTokens(p) PROVE FALSE
  BY <1>4 DEF ReceiveTokens, LoseTokens
<1>5. ASSUME NEW p \in Procs, VerifyIDToken(p) \/ ReadForUpdate(p) PROVE FALSE
  BY <1>2, <1>5, VerifyIDTokenEffect, ReadForUpdateEffect
<1>6. ASSUME NEW p \in Procs, TokensRefused(p) \/ Finish(p) \/ Kill(p) PROVE FALSE
  BY <1>2, <1>6 DEF TokensRefused, Finish, Kill
<1>7. ASSUME NEW p \in Procs, TruncateConfigFile(p) \/ FillConfigFile(p) PROVE FALSE
  BY <1>7 DEF TruncateConfigFile, FillConfigFile
<1>8. ASSUME NEW c \in Names, Expire(c) PROVE FALSE
  BY <1>8 DEF Expire, File
<1> QED
  BY <1>1, <1>3, <1>4, <1>5, <1>6, <1>7, <1>8 DEF Next

LEMMA TokenStep == StoreInv /\ TokenInv /\ [Next]_vars => TokenInv'
<1> SUFFICES ASSUME StoreInv, TokenInv, [Next]_vars, ~switched' PROVE Tokens'
  BY DEF TokenInv, Tokens
<1>1. Shape
  BY DEF StoreInv
<1>2. Tokens
  BY <1>1, SwitchedStays DEF TokenInv, Tokens, vars
<1>3. CASE UNCHANGED <<config, texts, proc>>
  BY <1>2, <1>3 DEF Tokens, Alone, OwnedAll, Owned, Steady, SteadyAt, Steadfast, Undisturbed,
                    Reading, Updates
<1>4. ASSUME NEW p \in Procs, NEW cmd \in Commands, NEW opt, Start(p, cmd, opt)
      PROVE  Tokens'
  BY <1>2, <1>4, StartTokens
<1>5. ASSUME NEW p \in Procs, LoseTokens(p) PROVE Tokens'
  <2>1. proc' = [proc EXCEPT ![p] = Stopped] /\ UNCHANGED <<config, texts>>
    BY <1>5 DEF LoseTokens, File
  <2>2. Moves(p) /\ proc'[p].pc = "idle"
    BY <1>1, <2>1, StoppedFields DEF Moves, Shape
  <2> QED
    BY <1>2, <2>1, <2>2, IdleTokens
<1>6. ASSUME NEW p \in Procs, TokensRefused(p) \/ Finish(p) \/ Kill(p) PROVE Tokens'
  BY <1>2, <1>6, StopTokens DEF TokensRefused, Finish, Kill
<1>7. ASSUME NEW c \in Names, Expire(c) PROVE Tokens'
  BY <1>3, <1>7 DEF Expire, File
<1>8. CASE UNCHANGED vars
  BY <1>3, <1>8 DEF vars
<1> QED
  BY <1>2, <1>4, <1>5, <1>6, <1>7, <1>8, OpenAdapterTokens, ReadContextTokens,
     AskProviderTokens, ReceiveTokensTokens, VerifyIDTokenTokens,
     ReadForUpdateTokens, TruncateTokens, FillTokens DEF Next

-----------------------------------------------------------------------------
(* AdapterInv is inductive relative to StoreInv and TokenInv               *)

\* A command that has its adapter is not disturbed by what another one does.
LEMMA OthersOpened ==
  ASSUME NEW p \in Procs, Moves(p), NEW q \in Procs, q # p, OpenedAt(q),
         \/ config'.active \in {Unnamed, config.active}
         \/ /\ Updates(p) /\ proc[p].cmd \notin Switching
            /\ config'.active = proc[p].read.active,
         Updates(p)' =>
           \/ proc'[p].read = config
           \/ /\ Updates(p) /\ proc'[p].read = proc[p].read
              /\ proc'[p].cmd = proc[p].cmd
  PROVE  OpenedAt(q)'
<1>1. \A r \in Procs : r # p => proc'[r] = proc[r]
  BY DEF Moves
<1> SUFFICES ASSUME Opened(q)' PROVE OpenedAt(q)'
  BY DEF OpenedAt
<1>2. Opened(q) /\ proc'[q] = proc[q]
  BY <1>1 DEF Opened
<1>3. ASSUME proc[q].opt = Unnamed
      PROVE  /\ Agree(proc[q].url, config'.active)
             /\ \A r \in Procs : Updates(r)' /\ proc'[r].cmd \notin Switching =>
                  Agree(proc'[r].read.active, proc[q].url)
  <2>1. /\ Agree(proc[q].url, config.active)
        /\ \A r \in Procs : Updates(r) /\ proc[r].cmd \notin Switching =>
             Agree(proc[r].read.active, proc[q].url)
    BY <1>2, <1>3 DEF OpenedAt
  <2>2. Agree(proc[q].url, config'.active)
    BY <2>1 DEF Agree
  <2>3. ASSUME NEW r \in Procs, Updates(r)', proc'[r].cmd \notin Switching
        PROVE  Agree(proc'[r].read.active, proc[q].url)
    <3>1. CASE r = p
      BY <2>1, <2>3, <3>1 DEF Agree
    <3>2. CASE r # p
      <4>1. proc'[r] = proc[r] /\ Updates(r)
        BY <1>1, <2>3, <3>2 DEF Updates
      <4> QED
        BY <2>1, <2>3, <4>1
    <3> QED
      BY <3>1, <3>2
  <2> QED
    BY <2>2, <2>3
<1> QED
  BY <1>2, <1>3 DEF OpenedAt, Reading

\* A step by which p does not begin an update.
LEMMA GoesOn ==
  ASSUME \A q \in Procs : OpenedAt(q), NEW p \in Procs, Moves(p), config' = config,
         ~Updates(p)', OpenedAt(p)'
  PROVE  \A q \in Procs : OpenedAt(q)'
<1> SUFFICES ASSUME NEW q \in Procs, q # p PROVE OpenedAt(q)'
  OBVIOUS
<1> QED
  BY OthersOpened

LEMMA IdleOpened ==
  ASSUME \A q \in Procs : OpenedAt(q), NEW p \in Procs, Moves(p), config' = config,
         proc'[p].pc = "idle"
  PROVE  \A q \in Procs : OpenedAt(q)'
<1>1. ~Updates(p)' /\ OpenedAt(p)'
  BY DEF Updates, OpenedAt, Opened
<1> QED
  BY <1>1, GoesOn

LEMMA StartOpened ==
  ASSUME StoreInv, \A q \in Procs : OpenedAt(q), NEW p \in Procs,
         NEW cmd \in Commands, NEW opt, Start(p, cmd, opt)
  PROVE  \A q \in Procs : OpenedAt(q)'
<1>1. /\ Moves(p) /\ config' = config /\ proc'[p].cmd = cmd
      /\ IF cmd \in Switching THEN proc'[p].pc = "save"
         ELSE proc'[p].pc \in {"adapter", "context"}
      /\ cmd = "call" => proc'[p].pc = "adapter"
  BY StartEffect DEF StoreInv
<1>2. ~Updates(p)' /\ OpenedAt(p)'
  BY <1>1 DEF Updates, OpenedAt, Opened, Switching
<1> QED
  BY <1>1, <1>2, GoesOn

LEMMA OpenAdapterOpened ==
  ASSUME StoreInv, Tokens, \A q \in Procs : OpenedAt(q), NEW p \in Procs, OpenAdapter(p)
  PROVE  \A q \in Procs : OpenedAt(q)'
<1>1. CASE Stop(p)
  BY <1>1, StopEffect, IdleOpened DEF StoreInv
<1>2. CASE ~Stop(p)
  <2>1. /\ Moves(p) /\ config' = config /\ proc'[p].pc = "context"
        /\ proc'[p].cmd = proc[p].cmd /\ proc'[p].opt = proc[p].opt
        /\ IsKnown(p) /\ proc'[p].url = Picked(p)
    BY <1>2, OpenAdapterEffect DEF StoreInv, SameCommand
  <2>2. Picked(p) # Unnamed
    BY <2>1 DEF IsKnown, StoreInv, Sound
  <2>3. ~Updates(p)' /\ Reading(p)'
    BY <2>1 DEF Updates, Reading
  <2>4. ASSUME NEW q \in Procs, Updates(q)', proc'[q].cmd \notin Switching
        PROVE  Agree(proc'[q].read.active, config.active)
    <3>1. q # p /\ proc'[q] = proc[q] /\ Updates(q)
      BY <2>1, <2>3, <2>4 DEF Moves, Updates
    <3> QED
      BY <2>4, <3>1 DEF Tokens, Steadfast
  <2>5. OpenedAt(p)'
    BY <2>1, <2>2, <2>3, <2>4 DEF OpenedAt, Opened, Picked, Agree
  <2> QED
    BY <2>1, <2>3, <2>5, GoesOn
<1> QED
  BY <1>1, <1>2

LEMMA ReadContextOpened ==
  ASSUME StoreInv, \A q \in Procs : OpenedAt(q), NEW p \in Procs, ReadContext(p)
  PROVE  \A q \in Procs : OpenedAt(q)'
<1>1. CASE Stop(p)
  BY <1>1, StopEffect, IdleOpened DEF StoreInv
<1>2. CASE ~Stop(p)
  <2>1. /\ Moves(p) /\ config' = config /\ IsKnown(p)
        /\ proc'[p].pc \in {"save", "provider", "ready"}
        /\ proc'[p].cmd = proc[p].cmd /\ proc'[p].opt = proc[p].opt
        /\ proc'[p].url = proc[p].url
        /\ proc'[p].name = Picked(p)
    BY <1>2, ReadContextEffect DEF StoreInv, SameCommand, SameUrl
  <2>2. proc[p].pc = "context"
    BY DEF ReadContext
  <2>3. Picked(p) # Unnamed
    BY <2>1 DEF IsKnown, StoreInv, Sound
  <2>4. ASSUME proc[p].cmd = "call"
        PROVE  /\ proc'[p].pc # "save"
               /\ proc'[p].pc = "ready" => proc'[p].entry.access # NoToken
    BY <1>2, <2>4, ReadContextBranches DEF StoreInv
  <2>5. Opened(p)' => Opened(p) /\ OpenedAt(p)
    BY <2>1, <2>2 DEF Opened
  <2>6. \A q \in Procs : Updates(q)' /\ proc'[q].cmd \notin Switching =>
          Updates(q) /\ proc[q].cmd \notin Switching /\ proc'[q].read = proc[q].read
    BY <2>1 DEF Moves, Updates
  <2>7. OpenedAt(p)'
    <3> SUFFICES ASSUME Opened(p)' PROVE OpenedAt(p)'
      BY DEF OpenedAt
    <3>1. proc[p].cmd = "call" /\ Opened(p) /\ OpenedAt(p)
      BY <2>1, <2>5 DEF Opened
    <3>2. Picked(p) = proc[p].url
      BY <2>3, <3>1 DEF OpenedAt, Picked, Agree
    <3> QED
      BY <2>1, <2>4, <2>6, <3>1, <3>2 DEF OpenedAt
  <2>8. ~Updates(p)'
    BY <2>1 DEF Updates
  <2> QED
    BY <2>1, <2>7, <2>8, GoesOn
<1> QED
  BY <1>1, <1>2

\* A step after p has read its context, by which it keeps to it.
LEMMA KeepsOpened ==
  ASSUME \A q \in Procs : OpenedAt(q), NEW p \in Procs, Moves(p), SameUrl(p),
         ~Reading(p), proc'[p].name = proc[p].name,
         proc'[p].cmd = proc[p].cmd, proc'[p].opt = proc[p].opt,
         proc'[p].pc \in {"verify", "save", "truncate", "fill", "ready"} =>
           \/ proc'[p].entry.access # NoToken
           \/ /\ proc[p].pc \in {"verify", "save", "truncate", "fill", "ready"}
              /\ proc'[p].entry = proc[p].entry,
         \/ config'.active \in {Unnamed, config.active}
         \/ /\ Updates(p) /\ proc[p].cmd \notin Switching
            /\ config'.active = proc[p].read.active,
         Updates(p)' =>
           \/ proc'[p].read = config
           \/ Updates(p) /\ proc'[p].read = proc[p].read
  PROVE  \A q \in Procs : OpenedAt(q)'
<1>1. ASSUME NEW q \in Procs, q # p PROVE OpenedAt(q)'
  BY <1>1, OthersOpened
<1>2. ASSUME Opened(p)' PROVE OpenedAt(p)'
  <2>1. Opened(p) /\ proc[p].name = proc[p].url
    BY <1>2 DEF Opened, Reading, OpenedAt
  <2>2. ASSUME proc[p].opt = Unnamed
        PROVE  /\ Agree(proc[p].url, config'.active)
               /\ \A q \in Procs : Updates(q)' /\ proc'[q].cmd \notin Switching =>
                    Agree(proc'[q].read.active, proc[p].url)
    <3>1. /\ Agree(proc[p].url, config.active)
          /\ \A q \in Procs : Updates(q) /\ proc[q].cmd \notin Switching =>
               Agree(proc[q].read.active, proc[p].url)
      BY <2>1, <2>2 DEF OpenedAt
    <3>2. Agree(proc[p].url, config'.active)
      BY <3>1 DEF Agree
    <3>3. ASSUME NEW q \in Procs, Updates(q)', proc'[q].cmd \notin Switching
          PROVE  Agree(proc'[q].read.active, proc[p].url)
      <4>1. CASE q = p
        BY <3>1, <3>3, <4>1 DEF Agree
      <4>2. CASE q # p
        <5>1. proc'[q] = proc[q] /\ Updates(q)
          BY <3>3, <4>2 DEF Moves, Updates
        <5> QED
          BY <3>1, <3>3, <5>1
      <4> QED
        BY <4>1, <4>2
    <3> QED
      BY <3>2, <3>3
  <2>3. /\ proc[p].url # Unnamed
        /\ proc[p].opt # Unnamed => proc[p].url = proc[p].opt
        /\ proc[p].pc \in {"verify", "save", "truncate", "fill", "ready"} =>
             proc[p].entry.access # NoToken
    BY <2>1 DEF OpenedAt
  <2> QED
    BY <2>1, <2>2, <2>3 DEF OpenedAt, SameUrl
<1> QED
  BY <1>1, <1>2 DEF OpenedAt

LEMMA AskProviderOpened ==
  ASSUME StoreInv, \A q \in Procs : OpenedAt(q), NEW p \in Procs, AskProvider(p)
  PROVE  \A q \in Procs : OpenedAt(q)'
<1>1. CASE Stop(p)
  BY <1>1, StopEffect, IdleOpened DEF StoreInv
<1>2. CASE ~Stop(p)
  <2>1. proc[p].pc = "provider"
    BY DEF AskProvider
  <2>2. /\ Moves(p) /\ config' = config /\ SameContext(p) /\ SameUrl(p)
        /\ proc'[p].pc = "grant"
    BY <1>2, AskProviderEffect DEF StoreInv
  <2>3. ~Reading(p) /\ ~Updates(p)'
    BY <2>1, <2>2 DEF Reading, Updates
  <2> QED
    BY <2>1, <2>2, <2>3, KeepsOpened DEF SameContext, SameCommand
<1> QED
  BY <1>1, <1>2

LEMMA ReceiveTokensOpened ==
  ASSUME StoreInv, Tokens, \A q \in Procs : OpenedAt(q), NEW p \in Procs,
         ReceiveTokens(p)
  PROVE  \A q \in Procs : OpenedAt(q)'
<1>1. /\ Moves(p) /\ config' = config /\ SameCommand(p) /\ SameUrl(p)
      /\ proc[p].pc = "grant" /\ proc'[p].pc = "verify"
      /\ proc'[p].name = proc[p].name /\ proc'[p].entry = Granted(p)
  BY ReceiveTokensEffect DEF StoreInv
<1>2. ~Reading(p) /\ ~Updates(p)' /\ proc[p].cmd \notin Switching
  BY <1>1 DEF Reading, Updates, StoreInv, Shape, Placed
<1>3. proc[p].provider # Unnamed
  BY <1>1, <1>2 DEF Tokens, Steady, SteadyAt
<1>4. Granted(p).access.ctx = proc[p].provider
  BY DEF Granted
<1>5. proc'[p].entry.access # NoToken
  BY <1>1, <1>3, <1>4 DEF NoToken
<1> QED
  BY <1>1, <1>2, <1>5, KeepsOpened DEF SameCommand

LEMMA VerifyIDTokenOpened ==
  ASSUME StoreInv, \A q \in Procs : OpenedAt(q), NEW p \in Procs, VerifyIDToken(p)
  PROVE  \A q \in Procs : OpenedAt(q)'
<1>1. CASE Stop(p)
  BY <1>1, StopEffect, IdleOpened DEF StoreInv
<1>2. CASE ~Stop(p)
  <2>1. /\ Moves(p) /\ config' = config /\ SameContext(p) /\ SameUrl(p)
        /\ proc[p].pc = "verify" /\ proc'[p].pc = "save"
    BY <1>2, VerifyIDTokenEffect DEF StoreInv
  <2>2. ~Reading(p) /\ ~Updates(p)'
    BY <2>1 DEF Reading, Updates
  <2> QED
    BY <2>1, <2>2, KeepsOpened DEF SameContext, SameCommand
<1> QED
  BY <1>1, <1>2

LEMMA ReadForUpdateOpened ==
  ASSUME StoreInv, \A q \in Procs : OpenedAt(q), NEW p \in Procs, ReadForUpdate(p)
  PROVE  \A q \in Procs : OpenedAt(q)'
<1>1. CASE Stop(p)
  BY <1>1, StopEffect, IdleOpened DEF StoreInv
<1>2. CASE ~Stop(p)
  <2>1. /\ Moves(p) /\ config' = config /\ SameContext(p) /\ SameUrl(p)
        /\ proc[p].pc = "save" /\ proc'[p].pc = "truncate"
        /\ proc'[p].read = config
    BY <1>2, ReadForUpdateEffect DEF StoreInv
  <2>2. ~Reading(p)
    BY <2>1 DEF Reading
  <2> QED
    BY <2>1, <2>2, KeepsOpened DEF SameContext, SameCommand
<1> QED
  BY <1>1, <1>2

LEMMA TruncateOpened ==
  ASSUME StoreInv, \A q \in Procs : OpenedAt(q), NEW p \in Procs, TruncateConfigFile(p)
  PROVE  \A q \in Procs : OpenedAt(q)'
<1>1. /\ Moves(p) /\ SameContext(p) /\ SameUrl(p)
      /\ config' = EmptyConfig
      /\ proc[p].pc = "truncate" /\ proc'[p].pc = "fill"
      /\ proc'[p].read = proc[p].read
  BY TruncateEffect DEF StoreInv
<1>2. ~Reading(p) /\ Updates(p) /\ config'.active = Unnamed
  BY <1>1, NoContexts DEF Reading, Updates
<1> QED
  BY <1>1, <1>2, KeepsOpened DEF SameContext, SameCommand

LEMMA FillOpened ==
  ASSUME StoreInv, Tokens, \A q \in Procs : OpenedAt(q), NEW p \in Procs,
         FillConfigFile(p)
  PROVE  \A q \in Procs : OpenedAt(q)'
<1> DEFINE new == Updated(proc[p])
<1>1. /\ Moves(p) /\ proc[p].pc = "fill"
      /\ LaidOver(config', new) \/ config' = EmptyConfig
      /\ \/ proc'[p].pc = "idle"
         \/ /\ proc'[p].pc = "ready" /\ proc[p].cmd = "call"
            /\ SameContext(p) /\ SameUrl(p)
  BY FillEffect DEF StoreInv
<1>2. ~Reading(p) /\ Updates(p) /\ ~Updates(p)' /\ IsConfig(proc[p].read)
  BY <1>1 DEF Reading, Updates, StoreInv, Shape
<1>3. CASE proc[p].cmd \in Switching
  <2>1. \A q \in Procs : q # p => proc'[q].pc = "idle"
    BY <1>1, <1>3 DEF Tokens, Alone, Moves
  <2>2. proc'[p].pc = "idle"
    BY <1>1, <1>3 DEF Switching
  <2> QED
    BY <2>1, <2>2 DEF OpenedAt, Opened
<1>4. CASE proc[p].cmd \notin Switching
  <2>1. config'.active \in {proc[p].read.active, Unnamed}
    <3>1. DOMAIN proc[p].read.entry # {}
      BY <1>2, <1>4 DEF StoreInv, Named, Switching
    <3>2. new.active = proc[p].read.active
      BY <1>2, <1>4, <3>1, UpdatedFields DEF Switching
    <3> HIDE DEF new
    <3> QED
      BY <1>1, <3>2, NoContexts DEF LaidOver
  <2>2. CASE proc'[p].pc = "idle"
    <3>1. \A q \in Procs : q # p => OpenedAt(q)'
      BY <1>1, <1>2, <1>4, <2>1, OthersOpened
    <3>2. OpenedAt(p)'
      BY <2>2 DEF OpenedAt, Opened
    <3> QED
      BY <3>1, <3>2
  <2>3. CASE proc'[p].pc # "idle"
    BY <1>1, <1>2, <1>4, <2>1, <2>3, KeepsOpened DEF SameContext, SameCommand
  <2> QED
    BY <2>2, <2>3
<1> QED
  BY <1>3, <1>4

LEMMA AdapterInit == Init => AdapterInv
<1> SUFFICES ASSUME Init, NEW p \in Procs PROVE OpenedAt(p)
  BY DEF AdapterInv
<1>1. proc[p].pc = "idle"
  BY StoppedFields DEF Init
<1> QED
  BY <1>1 DEF OpenedAt, Opened

LEMMA AdapterStep ==
  StoreInv /\ TokenInv /\ AdapterInv /\ [Next]_vars => AdapterInv'
<1> SUFFICES ASSUME StoreInv, TokenInv, AdapterInv, [Next]_vars, ~switched'
             PROVE  \A q \in Procs : OpenedAt(q)'
  BY DEF AdapterInv
<1>1. Shape
  BY DEF StoreInv
<1>2. Tokens /\ \A q \in Procs : OpenedAt(q)
  BY <1>1, SwitchedStays DEF TokenInv, Tokens, AdapterInv, vars
<1>3. CASE UNCHANGED <<config, proc>>
  BY <1>2, <1>3 DEF OpenedAt, Opened, Reading, Updates
<1>4. ASSUME NEW p \in Procs, LoseTokens(p) PROVE \A q \in Procs : OpenedAt(q)'
  <2>1. proc' = [proc EXCEPT ![p] = Stopped] /\ config' = config
    BY <1>4 DEF LoseTokens, File
  <2>2. Moves(p) /\ proc'[p].pc = "idle"
    BY <1>1, <2>1, StoppedFields DEF Moves, Shape
  <2> QED
    BY <1>2, <2>1, <2>2, IdleOpened
<1>5. ASSUME NEW p \in Procs, TokensRefused(p) \/ Finish(p) \/ Kill(p)
      PROVE  \A q \in Procs : OpenedAt(q)'
  <2>1. Stop(p)
    BY <1>5 DEF TokensRefused, Finish, Kill
  <2> QED
    BY <1>1, <1>2, <2>1, StopEffect, IdleOpened
<1>6. ASSUME NEW c \in Names, Expire(c) PROVE \A q \in Procs : OpenedAt(q)'
  BY <1>3, <1>6 DEF Expire, File
<1>7. CASE UNCHANGED vars
  BY <1>3, <1>7 DEF vars
<1> QED
  BY <1>2, <1>4, <1>5, <1>6, <1>7, StartOpened, OpenAdapterOpened, ReadContextOpened,
     AskProviderOpened, ReceiveTokensOpened, VerifyIDTokenOpened, ReadForUpdateOpened,
     TruncateOpened, FillOpened DEF Next

\* Unless the active context was switched under a running command, a context
\* holds tokens of its own deployment only, and a command talks to a deployment
\* with a token of it, however many commands read and rewrite the configuration
\* file at once (CreateAdapterWithTimeout, cmd/root.go; getAccessToken,
\* cmd/login.go).
THEOREM TokensOfTheirContext == Spec => []TokensBelong
<1>1. StoreInv /\ TokenInv /\ AdapterInv => TokensBelong
  <2> SUFFICES ASSUME Shape, TokenInv, AdapterInv, ~switched PROVE TokensBelong
    BY DEF StoreInv, TokensBelong
  <2>1. ASSUME NEW p \in Procs, proc[p].pc = "ready"
        PROVE  proc[p].name = proc[p].url /\ proc[p].entry.access.ctx = proc[p].url
    <3>1. Opened(p) /\ ~Reading(p) /\ proc[p].name # Unnamed
      BY <2>1 DEF Shape, Placed, Opened, Reading, TokenInv, Steady, SteadyAt, Switching
    <3>2. proc[p].name = proc[p].url /\ proc[p].entry.access # NoToken
      BY <2>1, <3>1 DEF AdapterInv, OpenedAt
    <3>3. EntryOf(proc[p].entry, proc[p].name)
      BY <3>1 DEF TokenInv, Steady, SteadyAt
    <3> QED
      BY <3>2, <3>3 DEF EntryOf, OfContext
  <2> QED
    BY <2>1 DEF TokenInv, OwnedAll, Owned, EntryOf, TokensBelong
<1> QED
  BY <1>1, StoreInit, StoreStep, TokenInit, TokenStep, AdapterInit, AdapterStep, PTL DEF Spec

-----------------------------------------------------------------------------
(* Where the refresh tokens are                                            *)

\* Token t is the refresh token of context c: in the configuration f, in the
\* file or a text whose end may still be in it, in the copy p has read for its
\* update, in the memory of p.
Filed(f, t, c)  == c \in DOMAIN f.entry /\ f.entry[c].refresh = t
OnFile(t, c)    == Filed(config, t, c) \/ \E f \in texts : Filed(f, t, c)
Copied(p, t, c) == Updates(p) /\ Filed(proc[p].read, t, c)
Held(p, t, c)   ==
  ~Reading(p) /\ proc[p].name = c /\ proc[p].entry.refresh = t

\* Somewhere, counting the memory of the processes in S only.
At(S, t, c) ==
  \/ OnFile(t, c)
  \/ \E p \in Procs : Copied(p, t, c)
  \/ \E p \in S : Held(p, t, c)

\* p has been granted tokens that it has not written yet.
Holds(p) ==
  /\ proc[p].pc \in {"verify", "save", "truncate", "fill"}
  /\ proc[p].cmd \in Granting

Traceable(t) ==
  /\ t = [ctx |-> t.ctx, n |-> t.n]
  /\ t.ctx \in Names /\ t.n \in Nat /\ t.n <= issued[t.ctx]
  /\ ~Rotates => t.n \in valid[t.ctx]

\* Providers and contexts are named, and a command that was granted nothing
\* holds no token when it writes.
Typed ==
  /\ DOMAIN issued = Names /\ DOMAIN valid = Names
  /\ \A c \in Names : issued[c] \in Nat
  /\ DOMAIN config.entry \subseteq Names
  /\ \A f \in texts : DOMAIN f.entry \subseteq Names
  /\ \A p \in Procs :
       /\ Updates(p) => DOMAIN proc[p].read.entry \subseteq Names
       /\ ~Reading(p) => proc[p].name \in Names
       /\ proc[p].pc = "grant" => proc[p].provider \in Names
       /\ proc[p].pc \in {"provider", "grant", "verify"} => proc[p].cmd \in Granting
       /\ ~Reading(p) /\ proc[p].cmd \notin Granting => proc[p].entry = Blank

\* A token is one that was issued, and belongs to one context wherever it is.
Traced ==
  \A t, c : t # NoToken /\ At(Procs, t, c) =>
    /\ Traceable(t)
    /\ \A d : At(Procs, t, d) => c = d

\* Where tokens rotate, the one that was just granted is valid, and nowhere
\* but in the memory of the process it was granted to.
PrivateOf(p) ==
  LET t == proc[p].entry.refresh
  IN  Holds(p) /\ t # NoToken =>
        t.n \in valid[t.ctx] /\ \A c : ~At(Procs \ {p}, t, c)

Private == Rotates => \A p \in Procs : PrivateOf(p)

\* The tokens of f are valid, except where one is about to be replaced.
Replaced(c) == \E p \in Procs : Holds(p) /\ proc[p].name = c
Valid(t)    == t = NoToken \/ t.n \in valid[t.ctx]

UsableIn(f) == \A c \in DOMAIN f.entry : Valid(f.entry[c].refresh) \/ Replaced(c)

\* So it is for the file, or for what the only process that has truncated the
\* file was about to change.
Usable ==
  ~lossy =>
    /\ (\A p \in Procs : proc[p].pc # "fill") => UsableIn(config)
    /\ \A p \in Procs :
         /\ proc[p].pc = "fill" /\ texts = {}
         /\ \A q \in Procs : q # p => proc[q].pc # "fill"
         => UsableIn(proc[p].read)

RefreshInv == Typed /\ Traced /\ Private /\ Usable

-----------------------------------------------------------------------------
(* Steps that copy tokens and steps that grant them                        *)

\* The tokens p has after the step are of where it had them before, or of the
\* file.
Copies(p) ==
  \A t, c : t # NoToken =>
    /\ OnFile(t, c)' =>
         OnFile(t, c) \/ Copied(p, t, c) \/ (proc[p].pc = "fill" /\ Held(p, t, c))
    /\ Copied(p, t, c)' => OnFile(t, c) \/ Copied(p, t, c)
    /\ Held(p, t, c)' => OnFile(t, c) \/ Held(p, t, c)

LEMMA OthersStay ==
  ASSUME NEW p \in Procs, Moves(p), NEW q \in Procs, q # p
  PROVE  /\ proc'[q] = proc[q]
         /\ Holds(q)' <=> Holds(q)
         /\ \A t, c : (Held(q, t, c)' <=> Held(q, t, c)) /\ (Copied(q, t, c)' <=> Copied(q, t, c))
<1>1. proc'[q] = proc[q]
  BY DEF Moves
<1> QED
  BY <1>1 DEF Holds, Held, Copied, Filed, Updates, Reading

\* Copying puts a token nowhere it was not; writing the file counts for the
\* process that writes.
LEMMA CopiesOnly ==
  ASSUME NEW p \in Procs, Moves(p), Copies(p), NEW S \in SUBSET Procs,
         p \in S \/ proc[p].pc # "fill",
         NEW t, NEW c, t # NoToken, At(S, t, c)'
  PROVE  At(S, t, c)
<1>1. CASE OnFile(t, c)'
  BY <1>1 DEF Copies, At
<1>2. ASSUME NEW q \in Procs, Copied(q, t, c)' PROVE At(S, t, c)
  <2>1. CASE q = p
    BY <1>2, <2>1 DEF Copies, At
  <2>2. CASE q # p
    BY <1>2, <2>2, OthersStay DEF At
  <2> QED
    BY <2>1, <2>2
<1>3. ASSUME NEW q \in S, Held(q, t, c)' PROVE At(S, t, c)
  <2>1. CASE q = p
    BY <1>3, <2>1 DEF Copies, At
  <2>2. CASE q # p
    BY <1>3, <2>2, OthersStay DEF At
  <2> QED
    BY <2>1, <2>2
<1> QED
  BY <1>1, <1>2, <1>3 DEF At

\* What is granted: the counter advances, and the only token that is not
\* valid any more is the one that was shown.
Serves(p) ==
  /\ \A c \in Names : issued[c] <= issued'[c]
  /\ \A t : /\ t.ctx \in Names /\ t = [ctx |-> t.ctx, n |-> t.n]
            /\ t.n \in valid[t.ctx]
            /\ t.n \notin valid'[t.ctx]
            => /\ Rotates /\ ~Reading(p)
               /\ t = proc[p].entry.refresh

LEMMA CopiesTraced ==
  ASSUME Typed, Typed', Traced, NEW p \in Procs, Moves(p), Copies(p), Serves(p)
  PROVE  Traced'
<1> SUFFICES ASSUME NEW t, NEW c, t # NoToken, At(Procs, t, c)'
             PROVE  Traceable(t)' /\ \A d : At(Procs, t, d)' => c = d
  BY DEF Traced
<1>1. \A d : At(Procs, t, d)' => At(Procs, t, d)
  BY CopiesOnly
<1>2. Traceable(t) /\ \A d : At(Procs, t, d) => c = d
  BY <1>1 DEF Traced
<1>3. issued[t.ctx] \in Nat /\ issued'[t.ctx] \in Nat /\ issued[t.ctx] <= issued'[t.ctx]
  BY <1>2 DEF Traceable, Typed, Serves
<1>4. Traceable(t)'
  BY <1>2, <1>3 DEF Traceable, Serves
<1> QED
  BY <1>1, <1>2, <1>4

LEMMA CopiesPrivate ==
  ASSUME Traced, Private, NEW p \in Procs, Moves(p), Copies(p), Serves(p),
         Holds(p)' => /\ Holds(p) /\ proc[p].pc # "fill"
                      /\ proc'[p].entry = proc[p].entry
                      /\ valid' = valid
  PROVE  Private'
<1> SUFFICES ASSUME Rotates, NEW q \in Procs, Holds(q)',
                    NEW t, t = proc'[q].entry.refresh, t # NoToken
             PROVE  t.n \in valid'[t.ctx] /\ \A c : ~At(Procs \ {q}, t, c)'
  BY DEF Private, PrivateOf
<1>1. Holds(q) /\ proc[q].entry.refresh = t
  BY OthersStay
<1>2. t.n \in valid[t.ctx] /\ \A c : ~At(Procs \ {q}, t, c)
  BY <1>1 DEF Private, PrivateOf
<1>3. \A c : ~At(Procs \ {q}, t, c)'
  BY <1>2, CopiesOnly
<1>4. t.n \in valid'[t.ctx]
  <2>1. CASE q = p
    BY <1>2, <2>1
  <2>2. CASE q # p
    <3>1. Held(q, t, proc[q].name)
      BY <1>1 DEF Held, Holds, Reading
    <3>2. Traceable(t)
      BY <3>1 DEF Traced, At
    <3>3. ~Held(p, t, proc[p].name)
      BY <1>2, <2>2 DEF At
    <3> QED
      BY <1>2, <3>2, <3>3 DEF Serves, Traceable, Held
  <2> QED
    BY <2>1, <2>2
<1> QED
  BY <1>3, <1>4

\* What is valid, or about to be replaced, stays so: the process that shows a
\* token is granted another one for the same context.
LEMMA StaysUsable ==
  ASSUME Traced, NEW p \in Procs, Moves(p), Serves(p),
         Holds(p) => Holds(p)' /\ proc'[p].name = proc[p].name,
         valid' = valid \/ (Holds(p)' /\ proc'[p].name = proc[p].name),
         NEW t, NEW c, At(Procs, t, c) \/ t = NoToken,
         Valid(t) \/ Replaced(c)
  PROVE  Valid(t)' \/ Replaced(c)'
<1>1. CASE Replaced(c)
  <2>1. PICK q \in Procs : Holds(q) /\ proc[q].name = c
    BY <1>1 DEF Replaced
  <2>2. Holds(q)' /\ proc'[q].name = c
    BY <2>1, OthersStay
  <2> QED
    BY <2>2 DEF Replaced
<1>2. CASE t = NoToken
  BY <1>2 DEF Valid
<1>3. CASE At(Procs, t, c) /\ t # NoToken /\ t.n \in valid[t.ctx]
  <2>1. Traceable(t) /\ \A d : At(Procs, t, d) => c = d
    BY <1>3 DEF Traced
  <2>2. CASE t.n \in valid'[t.ctx]
    BY <2>2 DEF Valid
  <2>3. CASE t.n \notin valid'[t.ctx]
    <3>1. ~Reading(p) /\ t = proc[p].entry.refresh
      BY <1>3, <2>1, <2>3 DEF Serves, Traceable
    <3>2. At(Procs, t, proc[p].name)
      BY <3>1 DEF At, Held
    <3>3. proc[p].name = c
      BY <2>1, <3>2
    <3>4. Holds(p)' /\ proc'[p].name = c
      BY <1>3, <2>3, <3>3
    <3> QED
      BY <3>4 DEF Replaced
  <2> QED
    BY <2>2, <2>3
<1> QED
  BY <1>1, <1>2, <1>3 DEF Valid

\* A step at which nobody writes the file, or begins to.
LEMMA QuietUsable ==
  ASSUME Traced, Usable, NEW p \in Procs, Moves(p), Serves(p), UNCHANGED <<config, texts>>,
         proc'[p].pc # "fill",
         ~lossy' =>
           /\ ~lossy /\ proc[p].pc # "fill"
           /\ Holds(p) => Holds(p)' /\ proc'[p].name = proc[p].name
           /\ valid' = valid \/ (Holds(p)' /\ proc'[p].name = proc[p].name)
  PROVE  Usable'
<1> SUFFICES ASSUME ~lossy' PROVE Usable'
  BY DEF Usable
<1>1. \A q \in Procs : proc[q].pc = "fill" <=> proc'[q].pc = "fill"
  BY OthersStay
<1>2. ASSUME \A q \in Procs : proc'[q].pc # "fill",
             NEW c \in DOMAIN config'.entry
      PROVE  Valid(config.entry[c].refresh)' \/ Replaced(c)'
  <2>1. PICK t : t = config.entry[c].refresh /\ t = config'.entry[c].refresh
    OBVIOUS
  <2>2. Valid(t) \/ Replaced(c)
    BY <1>1, <1>2, <2>1 DEF Usable, UsableIn
  <2>3. At(Procs, t, c)
    BY <2>1 DEF At, OnFile, Filed
  <2>4. Valid(t)' \/ Replaced(c)'
    BY <2>2, <2>3, StaysUsable
  <2> QED
    BY <2>1, <2>4 DEF Valid
<1>3. ASSUME NEW r \in Procs, proc'[r].pc = "fill", texts' = {},
             \A q \in Procs : q # r => proc'[q].pc # "fill",
             NEW c \in DOMAIN proc'[r].read.entry
      PROVE  Valid(proc[r].read.entry[c].refresh)' \/ Replaced(c)'
  <2>1. r # p /\ proc'[r] = proc[r]
    BY <1>3, OthersStay
  <2>2. PICK t : t = proc[r].read.entry[c].refresh /\ t = proc'[r].read.entry[c].refresh
    BY <2>1
  <2>3. Valid(t) \/ Replaced(c)
    BY <1>1, <1>3, <2>1, <2>2 DEF Usable, UsableIn
  <2>4. At(Procs, t, c)
    <3>1. Copied(r, t, c)
      BY <1>3, <2>1, <2>2 DEF Copied, Updates, Filed
    <3> QED
      BY <3>1 DEF At
  <2>5. Valid(t)' \/ Replaced(c)'
    BY <2>3, <2>4, StaysUsable
  <2> QED
    BY <2>2, <2>5 DEF Valid
<1> QED
  BY <1>2, <1>3 DEF Usable, UsableIn

\* The locals of p after a step.
TypedAt(p) ==
  /\ Updates(p) => DOMAIN proc[p].read.entry \subseteq Names
  /\ ~Reading(p) => proc[p].name \in Names
  /\ proc[p].pc = "grant" => proc[p].provider \in Names
  /\ proc[p].pc \in {"provider", "grant", "verify"} => proc[p].cmd \in Granting
  /\ ~Reading(p) /\ proc[p].cmd \notin Granting => proc[p].entry = Blank

LEMMA TypedStep ==
  ASSUME Typed, NEW p \in Procs, Moves(p),
         DOMAIN issued' = Names, DOMAIN valid' = Names, \A c \in Names : issued'[c] \in Nat,
         DOMAIN config'.entry \subseteq Names, \A f \in texts' : DOMAIN f.entry \subseteq Names,
         TypedAt(p)'
  PROVE  Typed'
<1>1. ASSUME NEW q \in Procs PROVE TypedAt(q)'
  <2>1. CASE q = p
    BY <2>1
  <2>2. CASE q # p
    BY <2>2, OthersStay DEF Typed, TypedAt, Updates, Reading
  <2> QED
    BY <2>1, <2>2
<1> QED
  BY <1>1 DEF Typed, TypedAt

LEMMA NoGrant == ASSUME NEW p, UNCHANGED <<valid, issued>>, Typed PROVE Serves(p)
BY DEF Serves, Typed

\* A step by a process that neither writes the file nor asks a provider.
LEMMA PassiveStep ==
  ASSUME RefreshInv, NEW p \in Procs, Moves(p), UNCHANGED <<config, texts, valid, issued>>,
         TypedAt(p)', Copies(p), proc'[p].pc # "fill",
         Holds(p)' => /\ Holds(p) /\ proc[p].pc # "fill"
                      /\ proc'[p].entry = proc[p].entry,
         ~lossy' =>
           /\ ~lossy /\ proc[p].pc # "fill"
           /\ Holds(p) => Holds(p)' /\ proc'[p].name = proc[p].name
  PROVE  RefreshInv'
<1>1. Serves(p) /\ Typed'
  BY NoGrant, TypedStep DEF RefreshInv, Typed
<1>2. Traced'
  BY <1>1, CopiesTraced DEF RefreshInv
<1>3. Private'
  BY <1>1, CopiesPrivate DEF RefreshInv
<1>4. Usable'
  BY <1>1, QuietUsable DEF RefreshInv
<1> QED
  BY <1>1, <1>2, <1>3, <1>4 DEF RefreshInv

-----------------------------------------------------------------------------
(* RefreshInv is inductive relative to StoreInv                            *)

LEMMA IdleTyped == ASSUME NEW p \in Procs, proc'[p].pc = "idle"
                   PROVE  /\ TypedAt(p)' /\ ~Holds(p)'
                          /\ \A t, c : ~Held(p, t, c)' /\ ~Copied(p, t, c)'
BY DEF TypedAt, Updates, Reading, Holds, Held, Copied

\* A process that exits or is killed.
LEMMA StopRefresh ==
  ASSUME StoreInv, RefreshInv, NEW p \in Procs, Stop(p)
  PROVE  RefreshInv'
<1>1. /\ Moves(p) /\ proc'[p].pc = "idle"
      /\ lossy' = (lossy \/ Pending(p))
      /\ UNCHANGED <<config, texts, valid, issued>>
  BY StopEffect DEF StoreInv, Stop, Providers
<1>2. TypedAt(p)' /\ ~Holds(p)' /\ Copies(p)
  BY <1>1, IdleTyped DEF Copies, OnFile, Filed
<1>3. Holds(p) \/ proc[p].pc = "fill" => Pending(p)
  BY DEF Holds, Granting, Pending
<1>4. ~lossy' => ~lossy /\ ~Holds(p) /\ proc[p].pc # "fill"
  BY <1>1, <1>3
<1> QED
  BY <1>1, <1>2, <1>4, PassiveStep

LEMMA StartRefresh ==
  ASSUME StoreInv, RefreshInv, NEW p \in Procs, NEW cmd \in Commands,
         NEW opt \in Names \cup {Unnamed}, Start(p, cmd, opt)
  PROVE  RefreshInv'
<1>1. /\ Moves(p) /\ proc[p].pc = "idle" /\ proc'[p].cmd = cmd
      /\ IF cmd \in Switching
         THEN proc'[p].pc = "save" /\ proc'[p].name \in Names /\ proc'[p].entry = Blank
         ELSE proc'[p].pc \in {"adapter", "context"}
      /\ UNCHANGED <<config, texts, lossy>>
  BY StartEffect DEF StoreInv
<1>2. UNCHANGED <<valid, issued>>
  BY DEF Start, Providers
<1>3. ~Holds(p) /\ ~Holds(p)' /\ TypedAt(p)' /\ ~Updates(p)'
  BY <1>1 DEF Holds, TypedAt, Updates, Reading, Granting, Switching
<1>4. \A t, c : t # NoToken => ~Held(p, t, c)'
  BY <1>1 DEF Held, Reading, Blank
<1>5. Copies(p)
  BY <1>1, <1>3, <1>4 DEF Copies, Copied, OnFile, Filed
<1> QED
  BY <1>1, <1>2, <1>3, <1>5, PassiveStep

LEMMA OpenAdapterRefresh ==
  ASSUME StoreInv, RefreshInv, NEW p \in Procs, OpenAdapter(p)
  PROVE  RefreshInv'
<1> SUFFICES ASSUME ~Stop(p) PROVE RefreshInv'
  BY StopRefresh
<1>1. /\ Moves(p) /\ proc[p].pc = "adapter" /\ proc'[p].pc = "context"
      /\ UNCHANGED <<config, texts, lossy>>
  <2>1. proc[p].pc = "adapter"
    BY DEF OpenAdapter
  <2> QED
    BY <2>1, OpenAdapterEffect DEF StoreInv
<1>2. UNCHANGED <<valid, issued>>
  BY DEF OpenAdapter, Continue, Providers
<1>3. ~Holds(p) /\ ~Holds(p)' /\ TypedAt(p)' /\ ~Updates(p)' /\ Reading(p)'
  BY <1>1 DEF Holds, TypedAt, Updates, Reading
<1>4. Copies(p)
  BY <1>1, <1>3 DEF Copies, Copied, Held, OnFile, Filed
<1> QED
  BY <1>1, <1>2, <1>3, <1>4, PassiveStep

LEMMA ReadContextRefresh ==
  ASSUME StoreInv, RefreshInv, NEW p \in Procs, ReadContext(p)
  PROVE  RefreshInv'
<1> SUFFICES ASSUME ~Stop(p) PROVE RefreshInv'
  BY StopRefresh
<1>1. /\ Moves(p) /\ proc[p].pc = "context"
      /\ Picked(p) \in DOMAIN config.entry
      /\ proc'[p].pc \in {"save", "provider", "ready"}
      /\ proc'[p].cmd = proc[p].cmd
      /\ proc'[p].name = Picked(p)
      /\ proc'[p].entry \in {Blank, config.entry[Picked(p)]}
      /\ UNCHANGED <<config, texts, lossy>>
  <2>1. proc[p].pc = "context"
    BY DEF ReadContext
  <2> QED
    BY <2>1, ReadContextEffect DEF StoreInv, IsKnown, SameCommand
<1>2. /\ UNCHANGED <<valid, issued>>
      /\ proc'[p].pc = "save" => proc[p].cmd = "logout" /\ proc'[p].entry = Blank
      /\ proc'[p].pc # "save" => proc[p].cmd \in Granting
  BY ReadContextBranches DEF StoreInv
<1>3. Picked(p) \in Names
  BY <1>1 DEF RefreshInv, Typed
<1>4. ~Holds(p) /\ ~Holds(p)' /\ TypedAt(p)' /\ ~Updates(p)'
  BY <1>1, <1>2, <1>3 DEF Holds, TypedAt, Updates, Reading, Granting
<1>5. ASSUME NEW t, NEW c, t # NoToken, Held(p, t, c)' PROVE OnFile(t, c)
  BY <1>1, <1>5 DEF Held, OnFile, Filed, Blank
<1>6. Copies(p)
  BY <1>1, <1>4, <1>5 DEF Copies, Copied, OnFile, Filed
<1> QED
  BY <1>1, <1>2, <1>4, <1>6, PassiveStep

\* A step that keeps the name and the tokens in memory and leaves the file.
LEMMA SameTokens ==
  ASSUME NEW p \in Procs, UNCHANGED <<config, texts>>, ~Reading(p), SameContext(p),
         Updates(p)' => proc'[p].read \in {config, proc[p].read} /\
                        (proc'[p].read = config \/ Updates(p))
  PROVE  Copies(p)
BY DEF Copies, Copied, Held, OnFile, Filed, SameContext

LEMMA AskProviderRefresh ==
  ASSUME StoreInv, RefreshInv, NEW p \in Procs, AskProvider(p)
  PROVE  RefreshInv'
<1> SUFFICES ASSUME ~Stop(p) PROVE RefreshInv'
  BY StopRefresh
<1>1. /\ Moves(p) /\ proc[p].pc = "provider" /\ proc'[p].pc = "grant"
      /\ Picked(p) \in DOMAIN config.entry
      /\ proc'[p].provider = Picked(p)
      /\ SameContext(p) /\ UNCHANGED <<config, texts, lossy>>
  <2>1. proc[p].pc = "provider"
    BY DEF AskProvider
  <2> QED
    BY <2>1, AskProviderEffect DEF StoreInv, IsKnown
<1>2. UNCHANGED <<valid, issued>>
  BY DEF AskProvider, Continue, Providers
<1>3. /\ Picked(p) \in Names /\ TypedAt(p) /\ ~Reading(p) /\ ~Updates(p)'
      /\ ~Holds(p) /\ ~Holds(p)'
  BY <1>1 DEF RefreshInv, Typed, TypedAt, Reading, Updates, Holds
<1>4. TypedAt(p)'
  BY <1>1, <1>3 DEF TypedAt, Reading, Updates, SameContext, SameCommand
<1>5. Copies(p)
  BY <1>1, <1>3, SameTokens
<1> QED
  BY <1>1, <1>2, <1>3, <1>4, <1>5, PassiveStep

LEMMA VerifyIDTokenRefresh ==
  ASSUME StoreInv, RefreshInv, NEW p \in Procs, VerifyIDToken(p)
  PROVE  RefreshInv'
<1> SUFFICES ASSUME ~Stop(p) PROVE RefreshInv'
  BY StopRefresh
<1>1. /\ Moves(p) /\ proc[p].pc = "verify" /\ proc'[p].pc = "save"
      /\ SameContext(p) /\ UNCHANGED <<config, texts, lossy>>
  BY VerifyIDTokenEffect DEF StoreInv
<1>2. UNCHANGED <<valid, issued>>
  BY DEF VerifyIDToken, Continue, Providers
<1>3. TypedAt(p) /\ ~Reading(p) /\ ~Updates(p)' /\ Holds(p)
  BY <1>1 DEF RefreshInv, Typed, TypedAt, Reading, Updates, Holds
<1>4. TypedAt(p)' /\ Holds(p)'
  BY <1>1, <1>3 DEF TypedAt, Reading, Updates, SameContext, SameCommand, Holds
<1>5. Copies(p)
  BY <1>1, <1>3, SameTokens
<1> QED
  BY <1>1, <1>2, <1>3, <1>4, <1>5, PassiveStep DEF SameContext

LEMMA ReadForUpdateRefresh ==
  ASSUME StoreInv, RefreshInv, NEW p \in Procs, ReadForUpdate(p)
  PROVE  RefreshInv'
<1> SUFFICES ASSUME ~Stop(p) PROVE RefreshInv'
  BY StopRefresh
<1>1. /\ Moves(p) /\ proc[p].pc = "save" /\ proc'[p].pc = "truncate"
      /\ proc'[p].read = config
      /\ SameContext(p) /\ UNCHANGED <<config, texts, lossy>>
  BY ReadForUpdateEffect DEF StoreInv
<1>2. UNCHANGED <<valid, issued>>
  BY DEF ReadForUpdate, Continue, Providers
<1>3. TypedAt(p) /\ ~Reading(p) /\ DOMAIN config.entry \subseteq Names
  BY <1>1 DEF RefreshInv, Typed, TypedAt, Reading
<1>4. TypedAt(p)' /\ (Holds(p)' <=> Holds(p))
  BY <1>1, <1>3 DEF TypedAt, Reading, Updates, SameContext, SameCommand, Holds
<1>5. Copies(p)
  BY <1>1, <1>3, SameTokens
<1> QED
  BY <1>1, <1>2, <1>3, <1>4, <1>5, PassiveStep DEF SameContext

\* What the provider of p records.
LEMMA GrantServes ==
  ASSUME Typed, Traced, NEW p \in Procs, proc[p].pc = "grant", Accepts(p), Grant(p)
  PROVE  LET q == proc[p].provider
         IN  /\ q \in Names
             /\ DOMAIN issued' = Names /\ DOMAIN valid' = Names
             /\ \A c \in Names : issued'[c] \in Nat
             /\ Serves(p)
             /\ issued'[q] = issued[q] + 1
             /\ proc[p].cmd = "login" \/ Rotates => issued[q] + 1 \in valid'[q]
             /\ ~Rotates => \A c \in Names : valid[c] \subseteq valid'[c]
<1> DEFINE q   == proc[p].provider
           n   == issued[q] + 1
           r   == proc[p].entry.refresh
           new == proc[p].cmd = "login" \/ Rotates
           old == IF proc[p].cmd = "call" THEN {r.n} ELSE {}
<1>1. q \in Names /\ issued[q] \in Nat /\ ~Reading(p)
  BY DEF Typed, Reading
<1>2. /\ issued' = [issued EXCEPT ![q] = n]
      /\ valid' = IF new THEN [valid EXCEPT ![q] = (valid[q] \ old) \cup {n}] ELSE valid
      /\ proc[p].cmd = "call" => r.ctx = q
  BY DEF Grant, Accepts
<1>3. /\ DOMAIN issued' = Names /\ DOMAIN valid' = Names
      /\ issued'[q] = n
      /\ \A c \in Names : c # q => issued'[c] = issued[c]
      /\ new => n \in valid'[q]
      /\ ~new => valid' = valid
      /\ \A c \in Names : c # q => valid'[c] = valid[c]
      /\ new => valid'[q] = (valid[q] \ old) \cup {n}
  <2> HIDE DEF n, old, new
  <2> QED
    BY <1>1, <1>2 DEF Typed
<1>4. n \in Nat /\ issued[q] <= n
  BY <1>1
<1>5. \A c \in Names : issued'[c] \in Nat /\ issued[c] <= issued'[c]
  <2> HIDE DEF n
  <2>1. \A c \in Names : issued[c] \in Nat
    BY DEF Typed
  <2>2. \A c \in Names : issued[c] <= issued[c]
    BY <2>1
  <2> QED
    BY <1>3, <1>4, <2>1, <2>2
<1>6. ASSUME NEW t, t.ctx \in Names, t = [ctx |-> t.ctx, n |-> t.n],
             t.n \in valid[t.ctx], t.n \notin valid'[t.ctx]
      PROVE  Rotates /\ t = r
  <2>1. t.ctx = q /\ new /\ t.n \in old
    BY <1>3, <1>6
  <2>2. proc[p].cmd = "call" /\ t.n = r.n
    BY <2>1
  <2>3. r.ctx = q /\ r.n \in valid[q]
    BY <2>2 DEF Accepts
  <2>4. Rotates
    BY <2>1, <2>2
  <2>5. r # NoToken /\ At(Procs, r, proc[p].name)
    BY <1>1, <2>3, StoreAssumption DEF NoToken, At, Held
  <2>6. r = [ctx |-> r.ctx, n |-> r.n]
    BY <2>5 DEF Traced, Traceable
  <2> QED
    BY <1>6, <2>1, <2>2, <2>3, <2>4, <2>6
<1>7. ~Rotates => \A c \in Names : valid[c] \subseteq valid'[c]
  BY <1>3
<1> QED
  BY <1>1, <1>3, <1>5, <1>6, <1>7 DEF Serves


\* The tokens p is granted: the refresh token is a new one, the one it has
\* shown where tokens do not rotate, or none.
LEMMA GrantedToken ==
  ASSUME NEW p \in Procs
  PROVE  LET q == proc[p].provider
         IN  \/ /\ proc[p].cmd = "login" \/ Rotates
                /\ Granted(p).refresh = [ctx |-> q, n |-> issued[q] + 1]
             \/ /\ ~Rotates
                /\ Granted(p).refresh \in {proc[p].entry.refresh, NoToken}
BY DEF Granted

LEMMA LoseTokensRefresh ==
  ASSUME StoreInv, RefreshInv, NEW p \in Procs, LoseTokens(p)
  PROVE  RefreshInv'
<1>1. /\ proc[p].pc = "grant" /\ Accepts(p) /\ Grant(p)
      /\ proc' = [proc EXCEPT ![p] = Stopped]
      /\ lossy' = TRUE /\ UNCHANGED <<config, texts>>
  BY DEF LoseTokens, File
<1>2. Moves(p) /\ proc'[p].pc = "idle"
  BY <1>1, StoppedFields DEF Moves, StoreInv, Shape
<1>3. /\ Serves(p)
      /\ DOMAIN issued' = Names /\ DOMAIN valid' = Names
      /\ \A c \in Names : issued'[c] \in Nat
  BY <1>1, GrantServes DEF RefreshInv
<1>4. TypedAt(p)' /\ ~Holds(p)' /\ Copies(p)
  BY <1>1, <1>2, IdleTyped DEF Copies, OnFile, Filed
<1>5. Typed'
  BY <1>1, <1>2, <1>3, <1>4, TypedStep DEF RefreshInv, Typed
<1>6. Traced'
  BY <1>2, <1>3, <1>4, <1>5, CopiesTraced DEF RefreshInv
<1>7. Private'
  BY <1>2, <1>3, <1>4, CopiesPrivate DEF RefreshInv
<1>8. Usable'
  BY <1>1 DEF Usable
<1> QED
  BY <1>5, <1>6, <1>7, <1>8 DEF RefreshInv

\* A token that is granted is of the context the command is about, and new, or
\* was there before.
LEMMA ReceivedAt ==
  ASSUME NEW p \in Procs, Moves(p), UNCHANGED <<config, texts>>,
         proc[p].pc = "grant", proc'[p].pc = "verify", proc'[p].name = proc[p].name,
         NEW S \in SUBSET Procs, NEW t, NEW c, At(S, t, c)'
  PROVE  \/ At(S, t, c)
         \/ p \in S /\ c = proc[p].name /\ t = proc'[p].entry.refresh
<1>1. CASE OnFile(t, c)'
  BY <1>1 DEF At, OnFile, Filed
<1>2. ASSUME NEW q \in Procs, Copied(q, t, c)' PROVE At(S, t, c)
  <2>1. q # p
    BY <1>2 DEF Copied, Updates
  <2> QED
    BY <1>2, <2>1, OthersStay DEF At
<1>3. ASSUME NEW q \in S, Held(q, t, c)', q # p PROVE At(S, t, c)
  BY <1>3, OthersStay DEF At
<1>4. CASE p \in S /\ Held(p, t, c)'
  BY <1>4 DEF Held
<1> QED
  BY <1>1, <1>2, <1>3, <1>4 DEF At

LEMMA ReceiveTokensRefresh ==
  ASSUME StoreInv, RefreshInv, NEW p \in Procs, ReceiveTokens(p)
  PROVE  RefreshInv'
<1> DEFINE q   == proc[p].provider
           new == [ctx |-> q, n |-> issued[q] + 1]
           r   == proc[p].entry.refresh
           g   == proc'[p].entry.refresh
           b   == proc[p].name
<1>1. /\ Moves(p) /\ proc[p].pc = "grant" /\ proc'[p].pc = "verify"
      /\ proc'[p].cmd = proc[p].cmd /\ proc'[p].name = b
      /\ proc'[p].entry = Granted(p)
      /\ UNCHANGED <<config, texts, lossy>>
      /\ Accepts(p) /\ Grant(p)
  BY ReceiveTokensEffect DEF StoreInv, ReceiveTokens, SameCommand
<1>2. /\ q \in Names /\ Serves(p)
      /\ DOMAIN issued' = Names /\ DOMAIN valid' = Names
      /\ \A c \in Names : issued'[c] \in Nat
      /\ issued'[q] = issued[q] + 1
      /\ proc[p].cmd = "login" \/ Rotates => issued[q] + 1 \in valid'[q]
      /\ ~Rotates => \A c \in Names : valid[c] \subseteq valid'[c]
  BY <1>1, GrantServes DEF RefreshInv
<1>3. \/ (proc[p].cmd = "login" \/ Rotates) /\ g = new
      \/ ~Rotates /\ g \in {r, NoToken}
  BY <1>1, GrantedToken
<1>4. /\ TypedAt(p) /\ ~Reading(p) /\ ~Reading(p)' /\ ~Updates(p)' /\ ~Holds(p)
      /\ issued[q] \in Nat
  BY <1>1, <1>2 DEF RefreshInv, Typed, TypedAt, Reading, Updates, Holds
<1>5. TypedAt(p)' /\ Holds(p)'
  BY <1>1, <1>4 DEF TypedAt, Reading, Updates, Holds
<1>6. Typed'
  BY <1>1, <1>2, <1>5, TypedStep DEF RefreshInv, Typed
<1>7. Held(p, r, b)
  BY <1>4 DEF Held
<1>8. /\ new # NoToken /\ new.ctx = q /\ new.n = issued[q] + 1
      /\ \A c : ~At(Procs, new, c)
  <2>1. new.ctx = q /\ new.n = issued[q] + 1
    OBVIOUS
  <2>2. new # NoToken
    BY <1>2, <2>1, StoreAssumption DEF NoToken
  <2>3. ~(new.n <= issued[new.ctx])
    BY <1>4, <2>1
  <2> HIDE DEF new
  <2> QED
    BY <2>1, <2>2, <2>3 DEF RefreshInv, Traced, Traceable
<1>9. ASSUME NEW t, NEW c, t # NoToken, At(Procs, t, c)'
      PROVE  Traceable(t)' /\ \A d : At(Procs, t, d)' => c = d
  <2>1. \A d : At(Procs, t, d)' => At(Procs, t, d) \/ (d = b /\ t = g)
    BY <1>1, ReceivedAt
  <2>2. CASE t = new
    <3>1. \A d : At(Procs, t, d)' => d = b
      BY <1>8, <2>1, <2>2
    <3>2. \/ proc[p].cmd = "login" \/ Rotates
          \/ ~Rotates /\ new \in {r, NoToken}
      BY <1>3, <1>8, <1>9, <2>1, <2>2
    <3>3. proc[p].cmd = "login" \/ Rotates
      BY <1>7, <1>8, <3>2 DEF At
    <3>4. issued'[q] = issued[q] + 1 /\ issued[q] + 1 \in Nat /\ issued[q] + 1 <= issued[q] + 1
      BY <1>2, <1>4
    <3>5. Traceable(t)'
      BY <1>2, <1>8, <2>2, <3>3, <3>4 DEF Traceable
    <3> QED
      BY <1>9, <3>1, <3>5
  <2>3. CASE t # new
    <3>1. \A d : At(Procs, t, d)' => At(Procs, t, d)
      <4>1. t = g => t = r
        BY <1>3, <1>9, <2>3
      <4> QED
        BY <1>7, <2>1, <4>1 DEF At
    <3>2. Traceable(t) /\ \A d : At(Procs, t, d) => c = d
      BY <1>9, <3>1 DEF RefreshInv, Traced
    <3>3. issued[t.ctx] \in Nat /\ issued'[t.ctx] \in Nat /\ issued[t.ctx] <= issued'[t.ctx]
      BY <1>2, <3>2 DEF Traceable, RefreshInv, Typed, Serves
    <3>4. Traceable(t)'
      BY <1>2, <3>2, <3>3 DEF Traceable
    <3> QED
      BY <3>1, <3>2, <3>4
  <2> QED
    BY <2>2, <2>3
<1>10. Traced'
  BY <1>9 DEF Traced
<1>11. ASSUME Rotates, NEW o \in Procs, Holds(o)',
              NEW t, t = proc'[o].entry.refresh, t # NoToken
       PROVE  t.n \in valid'[t.ctx] /\ \A c : ~At(Procs \ {o}, t, c)'
  <2>1. CASE o = p
    <3>1. t = new
      BY <1>3, <1>11, <2>1
    <3>2. t.n \in valid'[t.ctx]
      BY <1>2, <1>8, <1>11, <3>1
    <3>3. \A c : At(Procs \ {o}, t, c) => At(Procs, t, c)
      BY DEF At
    <3>4. \A c : At(Procs \ {o}, t, c)' => At(Procs \ {o}, t, c)
      BY <1>1, <2>1, ReceivedAt
    <3> QED
      BY <1>8, <3>1, <3>2, <3>3, <3>4
  <2>2. CASE o # p
    <3>1. Holds(o) /\ proc[o].entry.refresh = t
      BY <1>1, <1>11, <2>2, OthersStay
    <3>2. t.n \in valid[t.ctx] /\ \A c : ~At(Procs \ {o}, t, c)
      BY <1>11, <3>1 DEF RefreshInv, Private, PrivateOf
    <3>3. At(Procs, t, proc[o].name)
      BY <3>1 DEF Held, Holds, Reading, At
    <3>4. Traceable(t)
      BY <1>11, <3>3 DEF RefreshInv, Traced
    <3>5. t # r
      BY <1>7, <2>2, <3>2 DEF At
    <3>6. t.n \in valid'[t.ctx]
      BY <1>2, <3>2, <3>4, <3>5 DEF Serves, Traceable
    <3>7. t # g
      BY <1>3, <1>8, <1>11, <3>3
    <3> QED
      BY <1>1, <3>2, <3>6, <3>7, ReceivedAt
  <2> QED
    BY <2>1, <2>2
<1>12. Private'
  BY <1>11 DEF Private, PrivateOf
<1>13. Usable'
  BY <1>1, <1>2, <1>4, <1>5, QuietUsable DEF RefreshInv
<1> QED
  BY <1>6, <1>10, <1>12, <1>13 DEF RefreshInv


LEMMA TruncateRefresh ==
  ASSUME StoreInv, RefreshInv, NEW p \in Procs, TruncateConfigFile(p)
  PROVE  RefreshInv'
<1>1. /\ Moves(p) /\ config' = EmptyConfig /\ texts' = {}
      /\ proc[p].pc = "truncate" /\ proc'[p].pc = "fill"
      /\ proc'[p].cmd = proc[p].cmd
      /\ proc'[p].name = proc[p].name /\ proc'[p].entry = proc[p].entry
      /\ proc'[p].read = proc[p].read
      /\ lossy' = (lossy \/ config # proc[p].read)
  BY TruncateEffect DEF StoreInv, SameContext, SameCommand
<1>2. UNCHANGED <<valid, issued>>
  BY DEF TruncateConfigFile, Providers
<1>3. DOMAIN config'.entry = {}
  BY <1>1, NoContexts
<1>4. TypedAt(p) /\ ~Reading(p) /\ Updates(p)
  BY <1>1 DEF RefreshInv, Typed, TypedAt, Reading, Updates
<1>5. TypedAt(p)' /\ (Holds(p)' <=> Holds(p))
  BY <1>1, <1>4 DEF TypedAt, Reading, Updates, Holds
<1>6. Copies(p)
  BY <1>1, <1>3, <1>4 DEF Copies, Copied, Held, OnFile, Filed
<1>7. Serves(p) /\ Typed'
  BY <1>1, <1>2, <1>3, <1>5, NoGrant, TypedStep DEF RefreshInv, Typed
<1>8. Traced'
  BY <1>1, <1>6, <1>7, CopiesTraced DEF RefreshInv
<1>9. Private'
  BY <1>1, <1>2, <1>5, <1>6, <1>7, CopiesPrivate DEF RefreshInv
<1>10. ASSUME ~lossy', NEW r \in Procs, proc'[r].pc = "fill",
              \A q \in Procs : q # r => proc'[q].pc # "fill",
              NEW c \in DOMAIN proc'[r].read.entry
       PROVE  Valid(proc[r].read.entry[c].refresh)' \/ Replaced(c)'
  <2>1. r = p /\ \A q \in Procs : proc[q].pc # "fill"
    BY <1>1, <1>10, OthersStay
  <2>2. proc'[r].read = config /\ ~lossy
    BY <1>1, <1>10, <2>1
  <2>3. PICK t : t = config.entry[c].refresh /\ t = proc'[r].read.entry[c].refresh
    BY <2>2
  <2>4. Valid(t) \/ Replaced(c)
    BY <1>10, <2>1, <2>2, <2>3 DEF RefreshInv, Usable, UsableIn
  <2>5. At(Procs, t, c)
    BY <1>10, <2>2, <2>3 DEF At, OnFile, Filed
  <2>6. Valid(t)' \/ Replaced(c)'
    BY <1>1, <1>2, <1>5, <1>7, <2>4, <2>5, StaysUsable DEF RefreshInv
  <2> QED
    BY <2>3, <2>6 DEF Valid
<1>11. Usable'
  BY <1>1, <1>10 DEF Usable, UsableIn
<1> QED
  BY <1>7, <1>8, <1>9, <1>11 DEF RefreshInv

\* The token p is about to write is valid.
LEMMA HeldIsValid ==
  ASSUME RefreshInv, NEW p \in Procs, proc[p].pc = "fill"
  PROVE  Valid(proc[p].entry.refresh)
<1> DEFINE t == proc[p].entry.refresh
<1> SUFFICES ASSUME t # NoToken PROVE t.n \in valid[t.ctx]
  BY DEF Valid
<1>1. ~Reading(p)
  BY DEF Reading
<1>2. Holds(p)
  BY <1>1 DEF RefreshInv, Typed, Holds, Blank
<1>3. CASE Rotates
  BY <1>2, <1>3 DEF RefreshInv, Private, PrivateOf
<1>4. CASE ~Rotates
  BY <1>1, <1>4 DEF RefreshInv, Traced, Traceable, At, Held
<1> QED
  BY <1>3, <1>4

LEMMA FillRefresh ==
  ASSUME StoreInv, RefreshInv, NEW p \in Procs, FillConfigFile(p)
  PROVE  RefreshInv'
<1> DEFINE l == proc[p]
           new == Updated(proc[p])
<1>1. /\ Moves(p) /\ l.pc = "fill" /\ texts' = texts \cup {new}
      /\ LaidOver(config', new) \/ (config' = EmptyConfig /\ texts # {})
      /\ \/ proc'[p].pc = "idle"
         \/ /\ proc'[p].pc = "ready" /\ proc'[p].cmd = l.cmd
            /\ proc'[p].name = l.name /\ proc'[p].entry = l.entry
      /\ lossy' = (lossy \/ texts # {})
  BY FillEffect DEF StoreInv, SameContext, SameCommand
<1>2. UNCHANGED <<valid, issued>>
  BY DEF FillConfigFile, Providers
<1>3. /\ IsConfig(l.read)
      /\ l.cmd = "create" \/ l.name \in DOMAIN l.read.entry
  BY <1>1 DEF StoreInv, Shape, Named, Updates
<1>4. /\ TypedAt(p) /\ ~Reading(p) /\ Updates(p) /\ ~Updates(p)' /\ ~Holds(p)'
      /\ l.name \in Names /\ DOMAIN l.read.entry \subseteq Names
  BY <1>1 DEF RefreshInv, Typed, TypedAt, Reading, Updates, Holds
<1>5. /\ l.name \in DOMAIN new.entry /\ DOMAIN new.entry \subseteq Names
      /\ \A c \in DOMAIN new.entry :
           \/ /\ c \in DOMAIN l.read.entry /\ new.entry[c] = l.read.entry[c]
              /\ c # l.name \/ l.cmd = "set"
           \/ c = l.name /\ new.entry[c] = l.entry
  <2>1. CASE l.cmd = "set"
    BY <1>1, <1>3, <1>4, <2>1, UpdatedFields
  <2>2. CASE l.cmd # "set"
    BY <1>1, <1>3, <1>4, <2>2, UpdatedFields
  <2> QED
    BY <2>1, <2>2
<1> HIDE DEF new
<1>6. TypedAt(p)'
  BY <1>1, <1>4 DEF TypedAt, Reading, Updates
<1>7. Copies(p)
  <2>1. ASSUME NEW t, NEW c, t # NoToken, OnFile(t, c)'
        PROVE  OnFile(t, c) \/ Copied(p, t, c) \/ Held(p, t, c)
    <3>1. Filed(new, t, c) => Copied(p, t, c) \/ Held(p, t, c)
      BY <1>4, <1>5 DEF Filed, Copied, Held
    <3>2. CASE \E f \in texts' : Filed(f, t, c)
      BY <1>1, <3>1, <3>2 DEF OnFile
    <3>3. CASE Filed(config', t, c) /\ LaidOver(config', new)
      BY <3>1, <3>3 DEF LaidOver, OnFile, Filed
    <3>4. CASE Filed(config', t, c) /\ config' = EmptyConfig
      BY <3>4, NoContexts DEF Filed
    <3> QED
      BY <1>1, <2>1, <3>2, <3>3, <3>4 DEF OnFile, Filed
  <2> QED
    BY <1>1, <1>4, <2>1 DEF Copies, Copied, Held, Reading
<1>8. Serves(p) /\ Typed'
  <2>1. DOMAIN config'.entry \subseteq Names
    <3>1. CASE LaidOver(config', new)
      BY <1>5, <3>1 DEF LaidOver, RefreshInv, Typed
    <3>2. CASE config' = EmptyConfig
      BY <3>2, NoContexts
    <3> QED
      BY <1>1, <3>1, <3>2
  <2>2. \A f \in texts' : DOMAIN f.entry \subseteq Names
    BY <1>1, <1>5 DEF RefreshInv, Typed
  <2> QED
    BY <1>1, <1>2, <1>6, <2>1, <2>2, NoGrant, TypedStep DEF RefreshInv, Typed
<1>9. Traced'
  BY <1>1, <1>7, <1>8, CopiesTraced DEF RefreshInv
<1>10. Private'
  BY <1>1, <1>4, <1>7, <1>8, CopiesPrivate DEF RefreshInv
<1>11. ASSUME ~lossy', \A q \in Procs : proc'[q].pc # "fill",
              NEW c \in DOMAIN config'.entry
       PROVE  Valid(config.entry[c].refresh)' \/ Replaced(c)'
  <2>1. /\ ~lossy /\ texts = {}
        /\ \A q \in Procs : q # p => proc[q].pc # "fill"
    BY <1>1, <1>11, OthersStay
  <2>5. c \in DOMAIN new.entry /\ config'.entry[c] = new.entry[c]
    BY <1>1, <1>11, <2>1 DEF LaidOver
  <2>2. UsableIn(l.read)
    BY <1>1, <2>1 DEF RefreshInv, Usable
  <2>3. CASE c = l.name /\ config'.entry[c] = l.entry
    BY <1>1, <1>2, <2>3, HeldIsValid DEF Valid
  <2>4. CASE /\ c \in DOMAIN l.read.entry /\ config'.entry[c] = l.read.entry[c]
             /\ c # l.name \/ l.cmd = "set"
    <3>1. CASE Valid(l.read.entry[c].refresh)
      BY <1>2, <2>4, <3>1 DEF Valid
    <3>2. CASE Replaced(c)
      <4>1. PICK q \in Procs : Holds(q) /\ proc[q].name = c
        BY <3>2 DEF Replaced
      <4>2. q # p
        BY <2>4, <4>1 DEF Holds, Granting
      <4>3. Holds(q)' /\ proc'[q].name = c
        BY <1>1, <4>1, <4>2, OthersStay
      <4> QED
        BY <4>3 DEF Replaced
    <3> QED
      BY <2>2, <2>4, <3>1, <3>2 DEF UsableIn
  <2> QED
    BY <1>5, <2>5, <2>3, <2>4
<1>12. Usable'
  BY <1>1, <1>11 DEF Usable, UsableIn
<1> QED
  BY <1>8, <1>9, <1>10, <1>12 DEF RefreshInv

LEMMA RefreshInit == Init => RefreshInv
<1> SUFFICES ASSUME Init PROVE RefreshInv
  OBVIOUS
<1>1. created \subseteq Names /\ proc = [p \in Procs |-> Stopped] /\ texts = {}
  BY DEF Init
<1>2. PICK users \in SUBSET created :
        /\ \E active \in IF created = {} THEN {Unnamed} ELSE created :
             config = [active |-> active, entry |-> [c \in created |->
                         IF c \in users THEN LoggedIn(c) ELSE Blank]]
        /\ issued = [c \in Names |-> IF c \in users THEN 1 ELSE 0]
        /\ valid = [c \in Names |-> IF c \in users THEN {1} ELSE {}]
  BY DEF Init
<1>3. \A p \in Procs : proc[p].pc = "idle"
  BY <1>1, StoppedFields
<1>4. config.entry = [c \in created |-> IF c \in users THEN LoggedIn(c) ELSE Blank]
  BY <1>2
<1>5. Typed
  BY <1>1, <1>2, <1>3, <1>4 DEF Typed, Updates, Reading
<1>6. ASSUME NEW t, NEW c, t # NoToken, At(Procs, t, c)
      PROVE  c \in users /\ t = [ctx |-> c, n |-> 1]
  <2>1. Filed(config, t, c)
    BY <1>1, <1>3, <1>6 DEF At, OnFile, Copied, Held, Updates, Reading
  <2>2. c \in created /\ config.entry[c].refresh = t
    BY <1>4, <2>1 DEF Filed
  <2>3. CASE c \in users
    BY <1>4, <2>2, <2>3 DEF LoggedIn
  <2>4. CASE c \notin users
    BY <1>4, <1>6, <2>2, <2>4 DEF Blank
  <2> QED
    BY <2>3, <2>4
<1>7. ASSUME NEW t, NEW c, t # NoToken, At(Procs, t, c)
      PROVE  Traceable(t) /\ \A d : At(Procs, t, d) => c = d
  <2>1. c \in users /\ t = [ctx |-> c, n |-> 1]
    BY <1>6, <1>7
  <2>2. t.ctx = c /\ t.n = 1 /\ t = [ctx |-> t.ctx, n |-> t.n]
    BY <2>1
  <2>3. c \in Names /\ issued[c] = 1 /\ valid[c] = {1}
    BY <1>1, <1>2, <2>1
  <2>4. Traceable(t)
    BY <2>2, <2>3 DEF Traceable
  <2>5. ASSUME NEW d, At(Procs, t, d) PROVE c = d
    <3>1. t = [ctx |-> d, n |-> 1]
      BY <1>6, <1>7, <2>5
    <3> QED
      BY <2>2, <3>1
  <2> QED
    BY <2>4, <2>5
<1>8. Traced
  BY <1>7 DEF Traced
<1>9. Private
  BY <1>3 DEF Private, PrivateOf, Holds
<1>10. ASSUME NEW c \in DOMAIN config.entry PROVE Valid(config.entry[c].refresh)
  <2>1. CASE c \in users
    BY <1>1, <1>2, <1>4, <2>1 DEF Valid, LoggedIn
  <2>2. CASE c \notin users
    BY <1>4, <2>2 DEF Valid, Blank
  <2> QED
    BY <2>1, <2>2
<1>11. Usable
  BY <1>3, <1>10 DEF Usable, UsableIn
<1> QED
  BY <1>5, <1>8, <1>9, <1>11 DEF RefreshInv

LEMMA RefreshStep == StoreInv /\ RefreshInv /\ [Next]_vars => RefreshInv'
<1> SUFFICES ASSUME StoreInv, RefreshInv, [Next]_vars PROVE RefreshInv'
  OBVIOUS
<1>1. CASE UNCHANGED <<config, texts, proc, valid, issued, lossy>>
  BY <1>1 DEF RefreshInv, Typed, Traced, Traceable, Private, PrivateOf, Usable,
     UsableIn, Valid, Replaced, At, OnFile, Filed, Copied, Held, Holds, Updates, Reading
<1>2. ASSUME NEW p \in Procs, TokensRefused(p) \/ Finish(p) \/ Kill(p) PROVE RefreshInv'
  BY <1>2, StopRefresh DEF TokensRefused, Finish, Kill
<1>3. ASSUME NEW c \in Names, Expire(c) PROVE RefreshInv'
  BY <1>1, <1>3 DEF Expire, File
<1>4. CASE UNCHANGED vars
  BY <1>1, <1>4 DEF vars
<1> QED
  BY <1>2, <1>3, <1>4, StartRefresh, OpenAdapterRefresh, ReadContextRefresh,
     AskProviderRefresh, ReceiveTokensRefresh, LoseTokensRefresh,
     VerifyIDTokenRefresh, ReadForUpdateRefresh, TruncateRefresh, FillRefresh
     DEF Next

\* The refresh token on file is one its provider accepts, however logins,
\* logouts and refreshes interleave, while every update of the file was
\* completed and none overwritten unseen (getAccessToken, SetContext).
THEOREM RefreshTokenIsUsable == Spec => []RefreshTokenUsable
<1>1. RefreshInv => RefreshTokenUsable
  <2> SUFFICES ASSUME RefreshInv, ~lossy, NEW c \in DOMAIN config.entry,
                      config.entry[c].refresh # NoToken, \A p \in Procs : ~Pending(p)
               PROVE  Valid(config.entry[c].refresh)
    BY DEF RefreshTokenUsable, Valid
  <2>1. ~Replaced(c) /\ \A p \in Procs : proc[p].pc # "fill"
    BY DEF Pending, Replaced, Holds, Granting
  <2> QED
    BY <2>1 DEF RefreshInv, Usable, UsableIn
<1> QED
  BY <1>1, StoreInit, StoreStep, RefreshInit, RefreshStep, PTL DEF Spec
=============================================================================
