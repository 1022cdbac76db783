--------------------------- MODULE AgentContainer ---------------------------
(***************************************************************************)
(* One chat, its agent container, and what lies between the two: the input *)
(* directory (messages as files, the sentinel _close), the outputs on      *)
(* stdout, the timers of the host and the exit of the process.             *)
(*                                                                         *)
(* Host: runContainerAgent of container-runner.ts with its output parser,  *)
(* the output callbacks of orchestrator.ts (those of task-scheduler.ts do  *)
(* the same), and sendMessage, closeStdin and notifyIdle of group-queue.ts.*)
(* Container: main, runQuery and the polls of the agent runner.            *)
(*                                                                         *)
(* The host is single threaded and so is the agent runner: an action is    *)
(* one stretch of one of them between awaits.                              *)
(***************************************************************************)
EXTENDS Naturals, Sequences, SequencesExt

CONSTANTS
  MaxRuns,      \* bound: containers started for this chat
  MaxMessages,  \* bound: follow-up messages piped
  MaxOutputs,   \* bound: results and heartbeats of one container
  MaxBacklog,   \* bound: outputs of a container not yet handled by the host
  MaxCrashes    \* bound: crashes of the host

ASSUME BoundsAssumption ==
  /\ MaxRuns \in Nat \ {0}
  /\ MaxMessages \in Nat
  /\ MaxOutputs \in Nat
  /\ MaxBacklog \in Nat \ {0, 1}
  /\ MaxCrashes \in Nat

Runs == 1 .. MaxRuns
Messages == 1 .. MaxMessages

\* What an output marker says: text for the user, a success without text
\* (heartbeat or session update), an error.
OutputKinds == {"text", "null", "error"}

RowStatus ==
  {"none", "running", "completed", "failed", "timeout", "spawn_error"}

VARIABLES
  run,         \* the newest run, 0 before the first
  phase,       \* of that run on the host: idle, up, closing, resolved
  timedOut,    \* the hard timeout has fired in this run
  hadOutput,   \* the parser of this run has seen an output
  chain,       \* per run: outputs parsed whose callback has not finished
  sending,     \* per run: the callback awaits routeOutbound
  broken,      \* a callback of the newest run rejected, the chain skips the rest
  sent,        \* outputSentToUser of the newest run
  idleTimer,   \* per run: its idle timer is armed
  result,      \* what runContainerAgent resolved to for the newest run
  row,         \* its status in runtime_containers
  resume,      \* resumePositions of the folder: the run it comes from, or 0
  from,        \* the resume position the newest run was started with
  failed,      \* history: runs that ended in an error
  idleWaiting, \* the queue believes the container waits for input
  files,       \* message files in the input directory
  closeFor,    \* runs for which _close was written; the file is there iff # {}
  piped,       \* number of messages piped so far
  agent,       \* the process in the container, see AgentType
  stream,      \* messages pushed into the query, not yet taken by the SDK
  prompt,      \* messages in the prompt of the query being set up
  outputs,     \* outputs written by this container (bounds the model)
  read,        \* history: messages an agent was given
  dropped,     \* history: messages taken from the directory for nobody
  late,        \* history: an output was handled after its run had ended
  foreign,     \* history: a container consumed a _close not meant for it
  crashes      \* crashes so far (bounds the model)

host == <<phase, timedOut, result, row, crashes, run, from, failed>>
chains == <<hadOutput, chain, sending, broken, sent, idleTimer, resume, late>>
dir == <<files, closeFor, piped, idleWaiting>>
inside == <<agent, stream, prompt, read, dropped, foreign>>
vars == <<host, chains, dir, inside, outputs>>

\* where:    boot, script, setup, query, wait, lingering, exited
\* orphan:   the poll of a runQuery that threw is still alive
\* closed:   closedDuringQuery; ended: the stream got end()
\* session:  there is a session id or a resume position; retried: it is gone
AgentType ==
  [where : {"boot", "script", "setup", "query", "wait", "lingering", "exited"},
   orphan : BOOLEAN, closed : BOOLEAN, ended : BOOLEAN,
   session : BOOLEAN, retried : BOOLEAN, ok : BOOLEAN]

Gone(ok) ==
  [where |-> "exited", orphan |-> FALSE, closed |-> FALSE,
   ended |-> FALSE, session |-> FALSE, retried |-> FALSE, ok |-> ok]

TypeOK ==
  /\ run \in 0 .. MaxRuns
  /\ phase \in {"idle", "up", "closing", "resolved"}
  /\ timedOut \in BOOLEAN /\ hadOutput \in BOOLEAN
  /\ chain \in [Runs -> Seq(OutputKinds)]
  /\ {sending, idleTimer} \subseteq [Runs -> BOOLEAN]
  /\ result \in {"none", "success", "error"}
  /\ row \in RowStatus
  /\ resume \in 0 .. MaxRuns /\ from \in 0 .. MaxRuns
  /\ failed \subseteq Runs
  /\ {broken, sent, idleWaiting, late, foreign} \subseteq BOOLEAN
  /\ crashes \in 0 .. MaxCrashes
  /\ files \subseteq Messages /\ prompt \subseteq Messages
  /\ read \subseteq Messages /\ dropped \subseteq Messages
  /\ closeFor \subseteq Runs
  /\ piped \in 0 .. MaxMessages
  /\ agent \in AgentType
  /\ stream \in Seq(Messages)
  /\ outputs \in Nat

Init ==
  /\ run = 0 /\ phase = "idle" /\ timedOut = FALSE
  /\ hadOutput = FALSE
  /\ chain = [r \in Runs |-> <<>>]
  /\ sending = [r \in Runs |-> FALSE] /\ idleTimer = [r \in Runs |-> FALSE]
  /\ broken = FALSE /\ sent = FALSE
  /\ result = "none" /\ row = "none"
  /\ resume = 0 /\ from = 0
  /\ failed = {} /\ crashes = 0
  /\ idleWaiting = FALSE
  /\ files = {} /\ closeFor = {} /\ piped = 0
  /\ agent = Gone(TRUE) /\ stream = <<>> /\ prompt = {} /\ outputs = 0
  /\ read = {} /\ dropped = {} /\ late = FALSE /\ foreign = FALSE

-----------------------------------------------------------------------------
(* The container: outputs                                                  *)

\* writeOutput, and OutputParser.feed on the host: the callback of an output
\* is chained behind those before it; after a rejection it never runs.
Write(ks) ==
  /\ Len(chain[run]) + Len(ks) <= MaxBacklog
  /\ hadOutput' = (hadOutput \/ ks # <<>>)
  /\ chain' = IF broken THEN chain ELSE [chain EXCEPT ![run] = @ \o ks]
  /\ UNCHANGED <<sending, broken, sent, idleTimer, resume, late>>

\* The host has stopped listening to this container only when it has exited.
Alive == phase = "up" /\ agent.where # "exited"

\* shouldClose: the sentinel is unlinked by whoever sees it first.
TakeClose ==
  /\ closeFor # {}
  /\ closeFor' = {}
  /\ foreign' = (foreign \/ run \notin closeFor)
  /\ UNCHANGED <<files, piped, idleWaiting>>

\* drainIpcInput: all message files, by name, that is by time of writing.
TakeFiles ==
  /\ files' = {}
  /\ UNCHANGED <<closeFor, piped, idleWaiting>>

\* Mutant: the newest first.
InReverse(ms) ==
  CHOOSE s \in SetToSeqs(ms) : \A i, j \in DOMAIN s : i < j => s[i] > s[j]

InOrder(ms) ==
  CHOOSE s \in SetToSeqs(ms) : \A i, j \in DOMAIN s : i < j => s[i] < s[j]

-----------------------------------------------------------------------------
(* The container: main                                                     *)

\* The stale _close goes; then the script, if it is a task that has one, or
\* at once the files that wait, into the first prompt, and runQuery.
BeginQuery(more) ==
  agent' = [agent EXCEPT !.where = "setup", !.session = @ \/ more]

\* Mutant: an old sentinel is left where it is.
BootKeepsClose ==
  /\ Alive /\ agent.where = "boot"
  /\ files' = {} /\ prompt' = files
  /\ BeginQuery(FALSE)
  /\ UNCHANGED <<host, chains, closeFor, piped, idleWaiting, stream, read,
                 dropped, foreign, outputs>>

Boot ==
  /\ Alive /\ agent.where = "boot"
  /\ \/ /\ agent' = [agent EXCEPT !.where = "script"]
        /\ UNCHANGED <<files, prompt>>
     \/ /\ files' = {} /\ prompt' = files
        /\ BeginQuery(FALSE)
  /\ closeFor' = {}
  /\ UNCHANGED <<host, chains, piped, idleWaiting, stream, read,
                 dropped, foreign, outputs>>

\* runScript: wakes the agent, or not (also on error, timeout, no output).
ScriptWakes ==
  /\ Alive /\ agent.where = "script"
  /\ prompt' = files /\ TakeFiles
  /\ BeginQuery(FALSE)
  /\ UNCHANGED <<host, chains, stream, read, dropped, foreign, outputs>>

ScriptSkips ==
  /\ Alive /\ agent.where = "script"
  /\ Write(<<"null">>)
  /\ agent' = Gone(TRUE)
  /\ UNCHANGED <<host, dir, stream, prompt, read, dropped, foreign, outputs>>

\* The prompt has reached provider.query: the poll has a query to push into.
Attach ==
  /\ Alive /\ agent.where = "setup"
  /\ agent' = [agent EXCEPT !.where = "query"]
  /\ read' = read \cup prompt
  /\ prompt' = {}
  /\ UNCHANGED <<host, chains, dir, stream, dropped, foreign, outputs>>

\* ipcPolling of the running runQuery.
Polling == agent.where \in {"setup", "query"} /\ ~agent.closed

\* Its poll.  Before provider.query has returned
\* there is no activeQuery: what it drains is pushed nowhere, and a _close
\* it consumes ends nothing.
Poll ==
  /\ Alive /\ Polling
  /\ \/ /\ TakeClose
        /\ agent' = [agent EXCEPT !.closed = TRUE,
                                  !.ended = agent.where = "query"]
        /\ UNCHANGED <<stream, dropped>>
     \/ /\ closeFor = {} /\ files # {}
        /\ TakeFiles
        /\ IF agent.where = "query"
             THEN stream' = stream \o InOrder(files) /\ UNCHANGED dropped
             ELSE dropped' = dropped \cup files /\ UNCHANGED stream
        /\ UNCHANGED <<agent, foreign>>
  /\ UNCHANGED <<host, chains, prompt, read, outputs>>

\* The poll of a runQuery that threw while it was set up: ipcPolling is
\* still true and its activeQuery null.  It goes on until it meets a _close.
OrphanPoll ==
  /\ Alive /\ agent.orphan
  /\ \/ /\ TakeClose
        /\ agent' = IF agent.where = "lingering" THEN Gone(TRUE)
                    ELSE [agent EXCEPT !.orphan = FALSE]
        /\ UNCHANGED dropped
     \/ /\ closeFor = {} /\ files # {}
        /\ TakeFiles
        /\ dropped' = dropped \cup files
        /\ UNCHANGED <<agent, foreign>>
  /\ UNCHANGED <<host, chains, stream, prompt, read, outputs>>

Retries == agent.session /\ ~agent.retried

\* main's catch: one retry without session, or an error output and exit 1.
\* What was pushed into the query that failed is not pushed again.
Caught(orphan) ==
  /\ dropped' = dropped \cup ToSet(stream)
                  \cup (IF Retries THEN {} ELSE prompt)
  /\ stream' = <<>>
  /\ IF Retries
       THEN /\ agent' = [agent EXCEPT !.where = "setup", !.orphan = @ \/ orphan,
                           !.closed = FALSE, !.ended = FALSE,
                           !.session = FALSE, !.retried = TRUE]
            /\ UNCHANGED <<chains, prompt>>
       ELSE /\ agent' = Gone(FALSE) /\ prompt' = {}
            /\ Write(<<"error">>)

\* An exception before the query exists (a plug-in, an unreadable agent
\* definition, an unknown provider): ipcPolling is left on.
SetupThrows ==
  /\ Alive /\ agent.where = "setup"
  /\ Caught(Polling)
  /\ UNCHANGED <<host, dir, read, foreign, outputs>>

\* The SDK reports that the session is not there: ipcPolling is switched off.
StaleSession ==
  /\ Alive /\ agent.where = "query"
  /\ Caught(FALSE)
  /\ UNCHANGED <<host, dir, read, foreign, outputs>>

\* MessageStream: the SDK takes the next message.
QueryTakes ==
  /\ Alive /\ agent.where = "query" /\ stream # <<>>
  /\ stream' = Tail(stream)
  /\ read' = read \cup {Head(stream)}
  /\ UNCHANGED <<host, chains, dir, agent, prompt, dropped, foreign, outputs>>

\* A result, a heartbeat, or a result that is an error.
QueryEmits(k) ==
  /\ Alive /\ agent.where = "query" /\ outputs < MaxOutputs
  /\ Write(<<k>>)
  /\ outputs' = outputs + 1
  /\ UNCHANGED <<host, dir, inside>>

\* main returns: the process exits unless an orphaned poll keeps it alive.
MainReturns ==
  IF agent.orphan THEN [agent EXCEPT !.where = "lingering"]
  ELSE Gone(TRUE)

\* runQuery returns: after the retry and after a _close main returns too,
\* else a session update is written and main waits for the next message.
QueryReturns(ks) ==
  IF agent.retried \/ agent.closed
    THEN /\ agent' = MainReturns
         /\ Write(ks)
    ELSE /\ agent' = [agent EXCEPT !.where = "wait", !.session = TRUE]
         /\ Write(Append(ks, "null"))

\* The stream has ended and the SDK has answered what was in it.
QueryEnds ==
  /\ Alive /\ agent.where = "query" /\ agent.ended /\ stream = <<>>
  /\ QueryReturns(<<>>)
  /\ UNCHANGED <<host, dir, stream, prompt, read, dropped, foreign, outputs>>

\* The SDK stops by itself, as when its own process dies: an error event.
QueryBreaks ==
  /\ Alive /\ agent.where = "query"
  /\ QueryReturns(<<"error">>)
  /\ stream' = <<>>
  /\ dropped' = dropped \cup ToSet(stream)
  /\ UNCHANGED <<host, dir, prompt, read, foreign, outputs>>

\* waitForIpcMessage: the sentinel first, then the files.
WaitPoll ==
  /\ Alive /\ agent.where = "wait"
  /\ \/ /\ TakeClose
        /\ agent' = MainReturns
        /\ UNCHANGED prompt
     \/ /\ closeFor = {} /\ files # {}
        /\ TakeFiles
        /\ prompt' = files
        /\ BeginQuery(TRUE)
        /\ UNCHANGED foreign
  /\ UNCHANGED <<host, chains, stream, read, dropped, outputs>>

\* docker stop after the hard timeout, or the container dies by itself.
Dies ==
  /\ Alive
  /\ agent' = Gone(FALSE)
  /\ dropped' = dropped \cup ToSet(stream) \cup prompt
  /\ stream' = <<>> /\ prompt' = {}
  /\ UNCHANGED <<host, chains, dir, read, foreign, outputs>>

-----------------------------------------------------------------------------
(* The host: starting a run, piping, closing                               *)

\* runContainerAgent up to the spawn, with onProcess and the runtime row.
StartRun(s) ==
  /\ phase = "idle" /\ run < MaxRuns
  /\ run' = run + 1 /\ phase' = "up" /\ timedOut' = FALSE
  /\ hadOutput' = FALSE /\ outputs' = 0
  /\ from' = resume
  /\ row' = "running" /\ result' = "none"
  /\ broken' = FALSE /\ sent' = FALSE
  /\ agent' = [Gone(TRUE) EXCEPT !.where = "boot", !.session = s \/ resume # 0]
  /\ stream' = <<>> /\ prompt' = {}
  /\ idleWaiting' = FALSE
  /\ UNCHANGED <<chain, sending, idleTimer, resume, late, failed,
                 crashes, files, closeFor, piped, read,
                 dropped, foreign>>

\* sendMessage: written as long as the run is registered, whatever the
\* container is doing.
SendMessage ==
  /\ phase # "idle" /\ piped < MaxMessages
  /\ piped' = piped + 1
  /\ files' = files \cup {piped'}
  /\ idleWaiting' = FALSE
  /\ UNCHANGED <<host, chains, inside, closeFor, outputs>>

\* closeStdin on behalf of run r.
CloseStdin(r) == closeFor' = IF phase = "idle" THEN closeFor ELSE closeFor \cup {r}

\* enqueueTask with an idle container up: it is asked to leave.
TaskArrives ==
  /\ idleWaiting
  /\ CloseStdin(run)
  /\ UNCHANGED <<host, chains, inside, files, piped, idleWaiting, outputs>>

\* notifyIdle, called by the callback of run r; a task may be pending.
NotifyIdle(r) ==
  /\ idleWaiting' = (idleWaiting \/ phase # "idle")
  /\ CloseStdin(r) \/ UNCHANGED closeFor
  /\ UNCHANGED <<files, piped>>

\* The idle timer of run r.
IdleTimeout(r) ==
  /\ idleTimer[r]
  /\ idleTimer' = [idleTimer EXCEPT ![r] = FALSE]
  /\ CloseStdin(r)
  /\ UNCHANGED <<host, inside, hadOutput, chain, sending, broken, sent, resume,
                 late, files, piped, idleWaiting, outputs>>

-----------------------------------------------------------------------------
(* The host: output callbacks                                              *)

Ended(r) == r # run \/ phase = "idle" \/ result # "none"

\* The callback of the next output of run r up to its first await: the
\* session and resume position are taken over, an error is noted, a success
\* without text makes the container idle, a text is sent.
Callback(r) ==
  /\ chain[r] # <<>> /\ ~sending[r]
  /\ resume' = r
  /\ late' = (late \/ Ended(r))
  /\ CASE Head(chain[r]) = "text" ->
            /\ sending' = [sending EXCEPT ![r] = TRUE]
            /\ UNCHANGED <<chain, dir>>
       [] Head(chain[r]) = "null" ->
            /\ chain' = [chain EXCEPT ![r] = Tail(@)]
            /\ NotifyIdle(r)
            /\ UNCHANGED sending
       [] OTHER ->
            /\ chain' = [chain EXCEPT ![r] = Tail(@)]
            /\ UNCHANGED <<sending, dir>>
  /\ UNCHANGED <<host, inside, hadOutput, broken, sent, idleTimer,
                 outputs>>

\* The rest of it after routeOutbound: the idle timer starts anew.
Sent(r) ==
  /\ sending[r]
  /\ sending' = [sending EXCEPT ![r] = FALSE]
  /\ sent' = (sent \/ r = run)
  /\ idleTimer' = [idleTimer EXCEPT ![r] = TRUE]
  /\ chain' = [chain EXCEPT ![r] = Tail(@)]
  /\ late' = (late \/ Ended(r))
  /\ NotifyIdle(r)
  /\ UNCHANGED <<host, inside, hadOutput, broken, resume, outputs>>

\* routeOutbound rejects: the chain is rejected, and with it all that follows.
SendFails(r) ==
  /\ sending[r]
  /\ sending' = [sending EXCEPT ![r] = FALSE]
  /\ broken' = (broken \/ r = run)
  /\ chain' = [chain EXCEPT ![r] = <<>>]
  /\ UNCHANGED <<host, dir, inside, hadOutput, sent, idleTimer, resume, late, outputs>>

-----------------------------------------------------------------------------
(* The host: the end of a run                                              *)

\* killOnTimeout; the stop shows as Dies.
HardTimeout ==
  /\ phase = "up" /\ ~timedOut
  /\ timedOut' = TRUE
  /\ UNCHANGED <<phase, result, row, crashes, run, from,
                 failed, chains, dir, inside, outputs>>

Resolve(status, res) ==
  /\ row' = status /\ result' = res
  /\ phase' = "resolved"

\* Mutant: a status runtime_containers does not have.
TimeoutStatusStopped == IF hadOutput THEN "completed" ELSE "stopped"

\* A timeout after an output is the idle container being reaped.
TimeoutStatus == IF hadOutput THEN "completed" ELSE "timeout"

\* The close event after the hard timeout: a run that had output waits for
\* its chain, any other is an error.
ClosedByTimeout ==
  /\ timedOut
  /\ IF hadOutput
       THEN row' = TimeoutStatus /\ phase' = "closing" /\ UNCHANGED result
       ELSE Resolve(TimeoutStatus, "error")

\* The close event of a container that left by itself: with code 0 the chain
\* is awaited, with any other the run is an error at once.
ClosedByExit ==
  /\ ~timedOut
  /\ IF agent.ok THEN phase' = "closing" /\ UNCHANGED <<row, result>>
     ELSE Resolve("failed", "error")

HostClose ==
  /\ phase = "up" /\ agent.where = "exited"
  /\ ClosedByTimeout \/ ClosedByExit
  /\ UNCHANGED <<timedOut, crashes, run, from, failed, chains, dir,
                 inside, outputs>>

\* Mutant: the chain is not awaited.
ChainSettledAtOnce == TRUE

\* parser.settled()
ChainSettled == chain[run] = <<>>

\* Mutant: onError of resolveFromParser is not called.
ChainErrorUnrecorded ==
  /\ result' = "error" /\ phase' = "resolved"
  /\ row' = IF timedOut THEN row ELSE "failed"

ChainError == Resolve("failed", "error")

\* resolveFromParser.
Settle ==
  /\ phase = "closing" /\ ChainSettled
  /\ IF broken THEN ChainError
     ELSE Resolve("completed", "success")
  /\ UNCHANGED <<timedOut, crashes, run, from, failed, chains, dir,
                 inside, outputs>>

\* The error event of the child: there never was a container.
SpawnError ==
  /\ phase = "up" /\ agent.where = "boot"
  /\ Resolve("spawn_error", "error")
  /\ agent' = Gone(FALSE)
  /\ UNCHANGED <<timedOut, crashes, run, from, failed, chains, dir,
                 stream, prompt, read, dropped, foreign, outputs>>

\* The close event that follows it: the row is written once more.
LateClose ==
  /\ row = "spawn_error"
  /\ row' = "failed"
  /\ UNCHANGED <<phase, timedOut, result, crashes, run, from,
                 failed, chains, dir, inside, outputs>>

\* Mutant: only a run that sent nothing loses its resume position.
ForgetsPositionUnlessSent == result = "error" /\ ~sent

ForgetsPosition == result = "error"

\* The rest of processGroupMessages (runTask) and the release of the slot:
\* after an error the resume position goes, and unless something was sent
\* the run counts as failed without an answer.
EndRun ==
  /\ phase = "resolved"
  /\ phase' = "idle"
  /\ idleTimer' = [idleTimer EXCEPT ![run] = FALSE]
  /\ resume' = IF ForgetsPosition THEN 0 ELSE resume
  /\ IF result = "error"
       THEN failed' = failed \cup {run}
       ELSE UNCHANGED failed
  /\ idleWaiting' = FALSE
  /\ UNCHANGED <<timedOut, result, row, crashes, run, from, hadOutput,
                 chain, sending, broken, sent, late, files, closeFor, piped,
                 inside, outputs>>

\* The host dies; ensureRunning of the next one stops the container.  What
\* is in the directory and in the database stays.
HostCrash ==
  /\ crashes < MaxCrashes /\ phase # "idle"
  /\ phase' = "idle" /\ crashes' = crashes + 1
  /\ hadOutput' = FALSE
  /\ chain' = [r \in Runs |-> <<>>]
  /\ sending' = [r \in Runs |-> FALSE]
  /\ idleTimer' = [r \in Runs |-> FALSE]
  /\ resume' = 0 /\ idleWaiting' = FALSE
  /\ agent' = Gone(FALSE)
  /\ dropped' = dropped \cup ToSet(stream) \cup prompt
  /\ stream' = <<>> /\ prompt' = {}
  /\ UNCHANGED <<timedOut, result, row, run, from, failed, broken,
                 sent, late, files, closeFor, piped, read, foreign, outputs>>

-----------------------------------------------------------------------------

AgentStep ==
  \/ Boot \/ ScriptWakes \/ ScriptSkips \/ Attach \/ Poll \/ OrphanPoll
  \/ SetupThrows \/ StaleSession \/ QueryTakes \/ QueryEnds \/ QueryBreaks
  \/ WaitPoll \/ Dies
  \/ \E k \in OutputKinds : QueryEmits(k)

HostStep ==
  \/ \E s \in BOOLEAN : StartRun(s)
  \/ SendMessage \/ TaskArrives
  \/ \E r \in Runs : \/ IdleTimeout(r) \/ Callback(r) \/ Sent(r)
                     \/ SendFails(r)
  \/ LateClose \/ HardTimeout \/ HostClose \/ Settle \/ SpawnError \/ EndRun \/ HostCrash

Next == AgentStep \/ HostStep

Spec == Init /\ [][Next]_vars

-----------------------------------------------------------------------------
(* Properties                                                              *)

\* Follow-up messages reach the agents in the order in which they were
\* piped, over polls, queries, retries and containers: a message is given to
\* an agent only when each one before it was, or was lost (drainIpcInput
\* sorts the files, MessageStream is first in first out, and what a container
\* leaves in the directory is the first thing the next one reads).
ReadInOrder ==
  \A m \in read, k \in Messages : k < m => k \in read \cup dropped

\* A container obeys only the _close written for its own run: main unlinks
\* the one an earlier run left.  The exception are outputs handled after the
\* end of their run (`late`): these arm the idle timer again.
CloseIsOwn == foreign => late

\* A run that is a success has handled every output: none is waiting, being
\* sent or lost with a rejected chain (resolveFromParser waits for the chain,
\* container-runner.ts:93).
SuccessMeansHandled ==
  result = "success" => chain[run] = <<>> /\ ~sending[run] /\ ~broken

\* What runtime_containers says of a run when it is over is how it ended:
\* completed if and only if it was a success, and never still running.
\* (container-runner.ts writes the row at seven places, two of them before
\* the outcome is known.)  The row of a run cut off by a crash stays
\* "running"; see the README.
RowAgrees ==
  result # "none" =>
    /\ row \in RowStatus \ {"none", "running"}
    /\ (row = "completed") <=> (result = "success")

\* After a failed run the next one does not start from its resume position
\* (runAgent deletes it, "clear stale resume position", task-scheduler.ts:206)
\* unless an output was handled after the end.
FailedPositionForgotten ==
  phase = "up" => late \/ from \notin failed
=============================================================================
