---------------------------- MODULE ContextStore ----------------------------
(***************************************************************************)
(* The contexts and login tokens in config.yaml (cmd/common.go,            *)
(* cmd/context.go, cmd/login.go, CreateAdapterWithTimeout of cmd/root.go): *)
(* ivcap processes that read, change and rewrite the one file without a    *)
(* lock, and an identity provider per context that hands out tokens.       *)
(*                                                                         *)
(* A process may be killed at any point.  os.WriteFile truncates the file  *)
(* and then writes it; an empty file parses as a Config without contexts,  *)
(* which is also what a missing file counts as.  Two processes that both   *)
(* truncate before either writes leave the end of the longer text behind   *)
(* the shorter one.                                                        *)
(***************************************************************************)
EXTENDS Naturals, FiniteSets

CONSTANTS
  Procs,        \* processes
  Names,        \* names of contexts, each a deployment of its own
  Unnamed,      \* the empty name
  Rotates,      \* providers replace the refresh token they are shown
  MaxCommands,  \* bound: commands begun
  MaxTokens     \* bound: grants of one provider

ASSUME StoreAssumption ==
  /\ Unnamed \notin Names
  /\ Rotates \in BOOLEAN
  /\ MaxCommands \in Nat /\ MaxTokens \in Nat

VARIABLES
  config,     \* what a reader finds in the file
  readable,   \* the file is YAML
  texts,      \* Configs written to it since it was last truncated
  proc,       \* locals of each process
  valid,      \* provider: refresh tokens it accepts, by number
  issued,     \* provider: grants made
  expired,    \* provider: access tokens up to this number have expired
  created,    \* contexts whose creation was completed
  commands,   \* commands begun
  switched,   \* `context set` or `create` overlapped another command
  lossy       \* an update of the file was overwritten or never completed

vars == <<config, readable, texts, proc, valid, issued, expired, created,
          commands, switched, lossy>>

File == <<config, readable, texts>>

Token   == [ctx: Names, n: 1..MaxTokens]
NoToken == [ctx |-> Unnamed, n |-> 0]
Entry   == [access: Token \cup {NoToken}, refresh: Token \cup {NoToken}]
Blank   == [access |-> NoToken, refresh |-> NoToken]

Config == [active: Names \cup {Unnamed},
           entry: UNION {[known -> Entry] : known \in SUBSET Names}]
LoggedIn(c) ==
  [access |-> [ctx |-> c, n |-> 1], refresh |-> [ctx |-> c, n |-> 1]]
EmptyConfig == [active |-> Unnamed, entry |-> <<>>]

\* "call" is any command that talks to the deployment.
Commands == {"call", "login", "relogin", "logout", "create", "set"}

\* The pcs are the reads and writes of a command in order.  opt is the
\* --context flag or the argument; url the context the adapter is for; name
\* and entry the Context in memory; provider the one asked for tokens; read
\* the Config that SetContext read.
Locals ==
  [pc: {"idle", "adapter", "context", "provider", "grant", "verify", "save",
        "truncate", "fill", "ready"},
   cmd: Commands, opt: Names \cup {Unnamed}, url: Names \cup {Unnamed},
   name: Names \cup {Unnamed}, entry: Entry,
   provider: Names \cup {Unnamed}, read: Config]

TypeOK ==
  /\ config \in Config /\ readable \in BOOLEAN
  /\ \A text \in texts : text \in Config
  /\ proc \in [Procs -> Locals]
  /\ \A p \in Procs : proc[p].pc \in {"grant", "verify"} =>
                        proc[p].provider \in Names
  /\ valid \in [Names -> SUBSET (1..MaxTokens)]
  /\ issued \in [Names -> 0..MaxTokens]
  /\ expired \in [Names -> 0..MaxTokens]
  /\ created \subseteq Names
  /\ commands \in 0..MaxCommands
  /\ switched \in BOOLEAN /\ lossy \in BOOLEAN

Stopped == [pc |-> "idle", cmd |-> "call", opt |-> Unnamed, url |-> Unnamed,
            name |-> Unnamed, entry |-> Blank, provider |-> Unnamed,
            read |-> EmptyConfig]

\* Some contexts were created earlier, and to some of them somebody logged in.
Init ==
  /\ created \in SUBSET Names
  /\ \E users \in SUBSET created :
       /\ \E active \in IF created = {} THEN {Unnamed} ELSE created :
            config = [active |-> active, entry |-> [c \in created |->
                        IF c \in users THEN LoggedIn(c) ELSE Blank]]
       /\ issued = [c \in Names |-> IF c \in users THEN 1 ELSE 0]
       /\ valid = [c \in Names |-> IF c \in users THEN {1} ELSE {}]
  /\ readable = TRUE /\ texts = {}
  /\ proc = [p \in Procs |-> Stopped]
  /\ expired = [c \in Names |-> 0]
  /\ commands = 0
  /\ switched = FALSE /\ lossy = FALSE

-----------------------------------------------------------------------------

Providers == <<valid, issued, expired>>

\* The context GetContextWithError picks out of the file for process p.
Picked(p) ==
  IF proc[p].opt # Unnamed THEN proc[p].opt ELSE config.active
IsKnown(p) == readable /\ Picked(p) \in DOMAIN config.entry

\* A token granted to p is not in the file yet, or the file is truncated.
Pending(p) ==
  \/ proc[p].pc \in {"verify", "fill"}
  \/ /\ proc[p].pc \in {"save", "truncate"}
     /\ proc[p].cmd \in {"call", "login", "relogin"}

\* The process exits (cobra.CheckErr) or is killed.
Stop(p) ==
  /\ proc' = [proc EXCEPT ![p] = Stopped]
  /\ lossy' = (lossy \/ Pending(p))
  /\ UNCHANGED <<File, Providers, created, commands, switched>>

Continue(p, locals) ==
  /\ proc' = [proc EXCEPT ![p] = locals]
  /\ UNCHANGED <<File, Providers, created, commands, switched, lossy>>

Switching == {"create", "set"}

Start(p, cmd, opt) ==
  /\ proc[p].pc = "idle"
  /\ commands < MaxCommands
  /\ cmd \in Switching => opt # Unnamed
  /\ commands' = commands + 1
  /\ proc' = [proc EXCEPT ![p] = [Stopped EXCEPT
       !.pc = CASE cmd = "call" -> "adapter"
                [] cmd \in Switching -> "save"
                [] OTHER -> "context",
       !.cmd = cmd, !.opt = opt,
       !.name = IF cmd \in Switching THEN opt ELSE Unnamed]]
  /\ switched' = (switched \/ \E q \in Procs \ {p} :
                    /\ proc[q].pc # "idle"
                    /\ cmd \in Switching \/ proc[q].cmd \in Switching)
  /\ UNCHANGED <<File, Providers, created, lossy>>

-----------------------------------------------------------------------------
(* CreateAdapterWithTimeout and getAccessToken                             *)

\* The first read of the file: the URL.
OpenAdapter(p) ==
  /\ proc[p].pc = "adapter"
  /\ IF IsKnown(p)
     THEN Continue(p, [proc[p] EXCEPT !.pc = "context", !.url = Picked(p)])
     ELSE Stop(p)

IsExpired(t) == t = NoToken \/ t.n <= expired[t.ctx]

\* The second read: the Context that getAccessToken, login or logout is about.
ReadContext(p) ==
  /\ proc[p].pc = "context"
  /\ LET name   == Picked(p)
         entry  == config.entry[name]
         loaded == [proc[p] EXCEPT !.name = name, !.entry = entry]
         cmd    == proc[p].cmd
     IN  CASE ~IsKnown(p) -> Stop(p)
           [] IsKnown(p) /\ cmd = "logout" ->
                Continue(p, [loaded EXCEPT !.pc = "save", !.entry = Blank])
           [] IsKnown(p) /\ cmd \in {"login", "relogin"} ->
                Continue(p, [loaded EXCEPT !.pc = "provider"])
           [] IsKnown(p) /\ cmd = "call" ->
                IF ~IsExpired(entry.access)
                THEN Continue(p, [loaded EXCEPT !.pc = "ready"])
                ELSE IF entry.refresh = NoToken
                     THEN Stop(p)
                     ELSE Continue(p, [loaded EXCEPT !.pc = "provider"])

\* getLoginInformation creates an adapter of its own: the third read.
AskProvider(p) ==
  /\ proc[p].pc = "provider"
  /\ IF IsKnown(p)
     THEN Continue(p, [proc[p] EXCEPT !.pc = "grant", !.provider = Picked(p)])
     ELSE Stop(p)

-----------------------------------------------------------------------------
(* getTokenResponse and the provider                                       *)

\* The provider accepts what it is shown: the device code, the refresh token
\* given to `context login`, or the one in the Context.
Accepts(p) ==
  LET q == proc[p].provider
      t == proc[p].entry.refresh
  IN  /\ issued[q] < MaxTokens
      /\ proc[p].cmd = "call" => t.ctx = q /\ t.n \in valid[q]

\* A new access token, and a refresh token at the first login or when the
\* provider rotates them.
Grant(p) ==
  LET q   == proc[p].provider
      n   == issued[q] + 1
      new == proc[p].cmd = "login" \/ Rotates
      old == IF proc[p].cmd = "call" THEN {proc[p].entry.refresh.n} ELSE {}
  IN  /\ issued' = [issued EXCEPT ![q] = n]
      /\ valid' = IF new
                  THEN [valid EXCEPT ![q] = (@ \ old) \cup {n}]
                  ELSE valid

\* Mutant: the new refresh token is not recorded.
GrantedKeepingOld(p) ==
  LET q == proc[p].provider
      t == [ctx |-> q, n |-> issued[q] + 1]
  IN  [access |-> t, refresh |-> IF proc[p].cmd = "call"
                                 THEN proc[p].entry.refresh ELSE t]

Granted(p) ==
  LET q   == proc[p].provider
      t   == [ctx |-> q, n |-> issued[q] + 1]
      new == proc[p].cmd = "login" \/ Rotates
  IN  [access  |-> t,
       refresh |-> IF new THEN t
                   ELSE IF proc[p].cmd = "call" THEN proc[p].entry.refresh
                   ELSE NoToken]

ReceiveTokens(p) ==
  /\ proc[p].pc = "grant"
  /\ Accepts(p)
  /\ Grant(p)
  /\ proc' = [proc EXCEPT ![p].pc = "verify", ![p].entry = Granted(p)]
  /\ UNCHANGED <<File, expired, created, commands, switched, lossy>>

\* The provider answers and the reply is lost, or what it returns is no token.
LoseTokens(p) ==
  /\ proc[p].pc = "grant"
  /\ Accepts(p)
  /\ Grant(p)
  /\ proc' = [proc EXCEPT ![p] = Stopped]
  /\ lossy' = TRUE
  /\ UNCHANGED <<File, expired, created, commands, switched>>

\* invalid_grant, access_denied, expired_token, or no answer.
TokensRefused(p) ==
  /\ proc[p].pc = "grant"
  /\ Stop(p)

\* ParseIDToken: the tokens are stored only after the ID token was verified.
VerifyIDToken(p) ==
  /\ proc[p].pc = "verify"
  /\ Continue(p, [proc[p] EXCEPT !.pc = "save"]) \/ Stop(p)

-----------------------------------------------------------------------------
(* SetContext and WriteConfigFile                                          *)

\* Mutant: `context set` takes any name.
ReadForUpdateUnchecked(p) ==
  /\ proc[p].pc = "save"
  /\ Continue(p, [proc[p] EXCEPT !.pc = "truncate", !.read = config])

\* The file is read again; only `create` may name a context not in it.
ReadForUpdate(p) ==
  /\ proc[p].pc = "save"
  /\ IF /\ readable
        /\ proc[p].cmd = "create" \/ proc[p].name \in DOMAIN config.entry
     THEN Continue(p, [proc[p] EXCEPT !.pc = "truncate", !.read = config])
     ELSE Stop(p)

\* Mutant: a new context replaces the list instead of being appended.
UpdatedForgetting(l) ==
  IF l.cmd = "set"
  THEN [l.read EXCEPT !.active = l.name]
  ELSE [active |-> l.name, entry |-> [c \in {l.name} |-> l.entry]]

\* Mutant: the active context is updated, whichever one was asked for.
UpdatedActive(l) ==
  LET name == IF l.read.active = Unnamed THEN l.name ELSE l.read.active
  IN  IF l.cmd = "set"
      THEN [l.read EXCEPT !.active = l.name]
      ELSE [active |-> name,
            entry |-> [c \in DOMAIN l.read.entry \cup {name} |->
                         IF c = name THEN l.entry ELSE l.read.entry[c]]]

\* The Config that is written: the context replaced or appended (the first
\* one becomes the active one), or another one made active.
Updated(l) ==
  LET known == DOMAIN l.read.entry
      first == known = {}
  IN  IF l.cmd = "set"
      THEN [l.read EXCEPT !.active = l.name]
      ELSE [active |-> IF first THEN l.name ELSE l.read.active,
            entry  |-> [c \in known \cup {l.name} |->
                          IF c = l.name THEN l.entry ELSE l.read.entry[c]]]

TruncateConfigFile(p) ==
  /\ proc[p].pc = "truncate"
  /\ config' = EmptyConfig /\ readable' = TRUE /\ texts' = {}
  /\ proc' = [proc EXCEPT ![p].pc = "fill"]
  /\ lossy' = (lossy \/ config # proc[p].read)
  /\ UNCHANGED <<Providers, created, commands, switched>>

\* The new text begins the file.  Behind it may follow whole entries of older
\* texts, the first of a name being the one that counts, and what is no YAML.
Overwrite(new) ==
  /\ texts' = texts \cup {new}
  /\ \/ /\ readable' = TRUE
        /\ \E more \in SUBSET (UNION {DOMAIN t.entry : t \in texts} \ DOMAIN new.entry) :
           \E from \in [more -> texts] :
             /\ \A c \in more : c \in DOMAIN from[c].entry
             /\ config' = [active |-> new.active,
                  entry |-> [c \in DOMAIN new.entry \cup more |->
                    IF c \in more THEN from[c].entry[c] ELSE new.entry[c]]]
     \/ /\ texts # {}
        /\ readable' = FALSE /\ config' = EmptyConfig

FillConfigFile(p) ==
  /\ proc[p].pc = "fill"
  /\ Overwrite(Updated(proc[p]))
  /\ proc' = [proc EXCEPT ![p] =
                IF @.cmd = "call" THEN [@ EXCEPT !.pc = "ready"] ELSE Stopped]
  /\ created' = IF proc[p].cmd = "create" THEN created \cup {proc[p].name}
                ELSE created
  /\ lossy' = (lossy \/ texts # {})
  /\ UNCHANGED <<Providers, commands, switched>>

\* The command is done with its adapter.
Finish(p) ==
  /\ proc[p].pc = "ready"
  /\ Stop(p)

Kill(p) ==
  /\ proc[p].pc # "idle"
  /\ Stop(p)

\* Time passes: the tokens granted so far expire one after the other.
Expire(c) ==
  /\ expired[c] < issued[c]
  /\ expired' = [expired EXCEPT ![c] = @ + 1]
  /\ UNCHANGED <<File, proc, valid, issued, created, commands, switched,
                 lossy>>

Next ==
  \/ \E p \in Procs :
       \/ \E cmd \in Commands, opt \in Names \cup {Unnamed} : Start(p, cmd, opt)
       \/ OpenAdapter(p)
       \/ ReadContext(p)
       \/ AskProvider(p)
       \/ ReceiveTokens(p)
       \/ LoseTokens(p)
       \/ TokensRefused(p)
       \/ VerifyIDToken(p)
       \/ ReadForUpdate(p)
       \/ TruncateConfigFile(p)
       \/ FillConfigFile(p)
       \/ Finish(p)
       \/ Kill(p)
  \/ \E c \in Names : Expire(c)

Spec == Init /\ [][Next]_vars

-----------------------------------------------------------------------------

\* However the reads and writes of the commands interleave, and whichever of
\* them is cut short, the active context is one of the file's contexts.
ActiveExists ==
  config.active # Unnamed => config.active \in DOMAIN config.entry

OfContext(t, c) == t = NoToken \/ t.ctx = c

\* A context holds tokens of its own deployment only, and a command talks to a
\* deployment with a token of that deployment, although the file is read for
\* the URL, for the token and for the provider in turn: unless the active
\* context was switched under a running command.
TokensBelong ==
  ~switched =>
    /\ \A c \in DOMAIN config.entry :
         OfContext(config.entry[c].access, c) /\ OfContext(config.entry[c].refresh, c)
    /\ \A p \in Procs : proc[p].pc = "ready" =>
         proc[p].name = proc[p].url /\ proc[p].entry.access.ctx = proc[p].url

\* The refresh token on file is one the provider still accepts, however
\* logins, logouts and refreshes interleave, as long as each update of the
\* file is completed and none is overwritten unseen.
RefreshTokenUsable ==
  ~lossy => \A c \in DOMAIN config.entry :
    LET t == config.entry[c].refresh
    IN  (t # NoToken /\ \A p \in Procs : ~Pending(p)) => t.n \in valid[t.ctx]

\* Under the same condition no context that was created disappears.
ContextsKept ==
  ~lossy /\ (\A p \in Procs : proc[p].pc # "fill") =>
    created \subseteq DOMAIN config.entry

\* CreateAdapterWithTimeout's comment: both the URL and the access token are
\* those of the active context.
AdapterOfOneContext ==
  \A p \in Procs : proc[p].pc = "ready" => proc[p].name = proc[p].url

=============================================================================
