------------------------------ MODULE JobWatch ------------------------------
(***************************************************************************)
(* Waiting for a job: createJobCmd, waitForResult, watchJob and            *)
(* streamJobResults (cmd/job.go), and runTool, service_run and             *)
(* waitForServiceJob of the MCP server (pkg/mcp), against a service that   *)
(* runs the job at its own pace.                                           *)
(***************************************************************************)
EXTENDS Naturals

CONSTANTS
  WatchChecks,   \* maxCheck with --watch, 99
  McpChecks      \* maxChecks of waitForServiceJob, 100

ASSUME ChecksAssumption == {WatchChecks, McpChecks} \subseteq Nat \ {0}

VARIABLES
  job,      \* the job at the service
  described,   \* its aspect, which tells readJob the service id, is there
  client    \* locals of the command or handler

jobVars == <<job, described, client>>

\* A job without status reads as "?".
Running  == {"?", "scheduled", "executing"}
Finished == {"succeeded", "failed", "error"}

\* "once" waits as long as the service said and reads the job once; "tool" is
\* the MCP server's runTool or a watching service_run or nextflow_run, "start"
\* one of these that does not watch.
Modes == {"once", "watch", "stream", "tool", "start"}

IsCommand == client.mode \in {"once", "watch", "stream"}

\* shown is the status of the job the caller is given, "none" with an error;
\* answered: it came with the service's reply to the submission.
JobInit ==
  /\ job = "none"
  /\ described = FALSE
  /\ \E mode \in Modes :
       client = [pc |-> "submit", mode |-> mode, tries |-> 0, shown |-> "none",
                 answered |-> FALSE]

JobGoto(pc) == client' = [client EXCEPT !.pc = pc] /\ UNCHANGED <<job, described>>

-----------------------------------------------------------------------------
(* The client                                                              *)

\* CreateServiceJobRaw: 202 with a job, which `job create` and `nextflow run`
\* go on to watch.
Submit ==
  /\ client.pc = "submit" /\ client.mode # "start"
  /\ job' \in Running \cup Finished
  /\ client' = [client EXCEPT
       !.pc = IF client.mode = "stream" THEN "events" ELSE "wait"]
  /\ UNCHANGED described

\* Mutant: the status of the job as it was started is taken for its result.
ToolStarted ==
  /\ client.pc = "submit" /\ ~IsCommand
  /\ job' \in Running \cup Finished
  /\ client' = [client EXCEPT !.pc = "result", !.shown = job']
  /\ UNCHANGED described

\* nextflow_run without watch returns the id of the job.
Started ==
  /\ client.pc = "submit" /\ client.mode = "start"
  /\ job' \in Running \cup Finished
  /\ client' = [client EXCEPT !.pc = "result"]
  /\ UNCHANGED described

\* A reply other than 202 is passed on as it is, whatever status it shows.
ToolAnsweredAtOnce ==
  /\ client.pc = "submit" /\ ~IsCommand
  /\ job' \in Running \cup Finished
  /\ client' = [client EXCEPT !.pc = "result", !.shown = job', !.answered = TRUE]
  /\ UNCHANGED described

\* The commands look up the job by the id in that reply.
AnsweredAtOnce ==
  /\ client.pc = "submit" /\ IsCommand
  /\ job' \in Running \cup Finished
  /\ client' = [client EXCEPT !.pc = "find", !.mode = "once"]
  /\ UNCHANGED described

SubmitFails == client.pc = "submit" /\ JobGoto("error")

\* time.Sleep; only `job create` looks for the job's service first.
Sleep ==
  /\ client.pc = "wait"
  /\ JobGoto(IF client.mode = "tool" THEN "read" ELSE "find")

\* readJob finds the service id in the job's aspect.
FindJob == client.pc = "find" /\ described /\ JobGoto("read")

NotFound == client.pc = "find" /\ JobGoto("error")

\* The events end with the job, or when the connection is not reopened.
EventsEnd ==
  /\ client.pc = "events"
  /\ JobGoto("find") \/ JobGoto("error")

\* Mutant: the number of checks is not limited.
CheckJobForever ==
  /\ client.pc = "read" /\ client.mode # "tool"
  /\ IF job \in Finished \/ client.mode # "watch"
     THEN client' = [client EXCEPT !.pc = "result", !.shown = job]
     ELSE client' = [client EXCEPT !.pc = "wait"]
  /\ UNCHANGED <<job, described>>

MaxChecks == IF client.mode = "watch" THEN WatchChecks ELSE 1

\* Mutant: the last check is not made.
CheckJobEarly ==
  /\ client.pc = "read" /\ client.mode # "tool"
  /\ LET tries == client.tries + 1
     IN  IF tries + 1 >= MaxChecks \/ job \in Finished
         THEN client' = [client EXCEPT !.pc = "result", !.tries = tries,
                                       !.shown = job]
         ELSE client' = [client EXCEPT !.pc = "wait", !.tries = tries]
  /\ UNCHANGED <<job, described>>

\* One check of watchJob: after the last one the job is shown as it is.
CheckJob ==
  /\ client.pc = "read" /\ client.mode # "tool"
  /\ LET tries == client.tries + 1
     IN  IF tries >= MaxChecks \/ job \in Finished
         THEN client' = [client EXCEPT !.pc = "result", !.tries = tries,
                                       !.shown = job]
         ELSE client' = [client EXCEPT !.pc = "wait", !.tries = tries]
  /\ UNCHANGED <<job, described>>

\* Mutant: as in watchJob, the last check counts as the end.
CheckServiceJobOnce ==
  /\ client.pc = "read" /\ client.mode = "tool"
  /\ LET tries == client.tries + 1
     IN  IF tries >= McpChecks \/ job \in Finished
         THEN client' = [client EXCEPT !.pc = "result", !.tries = tries,
                                       !.shown = job]
         ELSE client' = [client EXCEPT !.pc = "wait", !.tries = tries]
  /\ UNCHANGED <<job, described>>

\* One check of waitForServiceJob; a finished job without result-content, a
\* failed one for instance, is an error.
CheckServiceJob ==
  /\ client.pc = "read" /\ client.mode = "tool"
  /\ LET tries == client.tries + 1
     IN  IF job \in Finished
         THEN \/ client' = [client EXCEPT !.pc = "result", !.tries = tries,
                                          !.shown = job]
              \/ client' = [client EXCEPT !.pc = "error", !.tries = tries]
         ELSE client' = [client EXCEPT
                           !.pc = IF tries < McpChecks THEN "wait" ELSE "error",
                           !.tries = tries]
  /\ UNCHANGED <<job, described>>

ReadFails == client.pc = "read" /\ JobGoto("error")

-----------------------------------------------------------------------------
(* The service                                                             *)

JobProceeds ==
  /\ \/ job = "?" /\ job' = "scheduled"
     \/ job = "scheduled" /\ job' = "executing"
     \/ job \in Running /\ job' \in Finished
  /\ UNCHANGED <<described, client>>

AspectAppears ==
  /\ job # "none" /\ ~described
  /\ described' = TRUE
  /\ UNCHANGED <<job, client>>

-----------------------------------------------------------------------------

ClientStep ==
  \/ Submit
  \/ Started
  \/ ToolAnsweredAtOnce
  \/ AnsweredAtOnce
  \/ SubmitFails
  \/ Sleep
  \/ FindJob
  \/ NotFound
  \/ EventsEnd
  \/ CheckJob
  \/ CheckServiceJob
  \/ ReadFails

JobNext == ClientStep \/ JobProceeds \/ AspectAppears

\* The process runs on; nothing is assumed of the service, whose event stream
\* may stay open for ever.
JobSpec ==
  /\ JobInit /\ [][JobNext]_jobVars
  /\ WF_jobVars(ClientStep /\ client.pc # "events")

-----------------------------------------------------------------------------

\* What an MCP client is given as the result of a job it waited for
\* (waitForServiceJob) is the result of a job that has finished; it is given
\* none of a job it only started.  A command that watches a job (watchJob) shows
\* a job that has not finished only when all its checks are used up.  A reply
\* that answers the submission at once is passed on unread and exempt.
ShownIsFinal ==
  client.pc = "result" /\ ~client.answered =>
    /\ client.mode = "start" => client.shown = "none"
    /\ client.mode = "tool" => client.shown \in Finished /\ job = client.shown
    /\ client.mode = "watch" => \/ client.shown \in Finished /\ job = client.shown
                               \/ client.tries >= WatchChecks

\* Polling ends, also when the job never does.
PollingEnds == client.pc = "wait" ~> client.pc \in {"result", "error"}

=============================================================================
