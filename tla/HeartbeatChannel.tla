-------------------------- MODULE HeartbeatChannel --------------------------
(***************************************************************************)
(* What rides on the heartbeat of one agent besides metrics: commands and  *)
(* their acknowledgements, and the update of the agent's own binary, which *)
(* a broadcast may also start.  The heartbeat step and the websocket loop  *)
(* are two goroutines of one process; the process may die at any point.    *)
(***************************************************************************)
EXTENDS Naturals, Sequences, SequencesExt

CONSTANTS
  Command,      \* rows of agent_commands
  MaxPending,   \* maxPendingCommands
  MaxVersion,   \* bound: releases of the agent
  Nil           \* no message

ASSUME MaxPendingAssumption == MaxPending \in Nat \ {0}
ASSUME CommandAssumption == IsFiniteSet(Command)
ASSUME MaxVersionAssumption == MaxVersion \in Nat \ {0}

VARIABLES
  \* the backend
  row,        \* agent_commands.status, "expired" once expires_at has passed
  results,    \* whether a command has none, one or several command_results
  latest,     \* the newest agent_versions row, and the binary that is served
  reported,   \* agents.version
  \* the network
  request,    \* the heartbeat on its way to the backend
  late,       \* an abandoned heartbeat that may still arrive
  reply,      \* the answer on its way to the agent
  push,       \* the version of a binary_update broadcast, 0 if none
  \* the disk of the agent
  configured, \* config.AgentVersion in the bootstrap file
  exe, old,   \* the versions in the executable and in its .old copy, 0 if none
  \* the process of the agent
  running,    \* the version of the process, 0 if it cannot be started
  phase,      \* of the heartbeat step
  todo,       \* commands of the answer that are still to be executed
  executedCommandIDs, pendingCompleted,
  failedUpdateVersion,  \* 0 if no update failed within the cooldown
  update,     \* where the updateBinary of each goroutine is
  \* history
  ran,        \* how often a command was executed: 0, 1 or 2 (more)
  torn        \* two updates overlapped, or the process died inside one

backend  == <<row, results, reported>>
releases == <<latest, push>>
network  == <<request, late, reply>>
step     == <<phase, configured>>
commands == <<todo, executedCommandIDs, pendingCompleted, ran>>
updater  == <<exe, old, running, failedUpdateVersion, update, torn>>
vars == <<backend, releases, network, step, commands, updater>>

Version   == 1..MaxVersion
Goroutine == {"heartbeat", "websocket"}
Heartbeat == [acks : SUBSET Command, version : Version]
Answer    == [commands : SUBSET Command, update : {0} \cup Version]

\* Sequences of different commands that fit the buffers.
Buffer == {s \in SeqOf(Command, MaxPending) : IsInjective(s)}

TypeOK ==
  /\ row \in [Command -> {"none", "pending", "sent", "answered", "expired"}]
  /\ results \in [Command -> 0..2] /\ ran \in [Command -> 0..2]
  /\ latest \in Version /\ reported \in Version /\ configured \in Version
  /\ request \in Heartbeat \cup {Nil} /\ late \in Heartbeat \cup {Nil}
  /\ reply \in Answer \cup {Nil}
  /\ {push, exe, old, running, failedUpdateVersion} \subseteq {0} \cup Version
  /\ phase \in {"idle", "sending", "install"}
  /\ todo \subseteq Command
  /\ executedCommandIDs \in Buffer /\ pendingCompleted \in Buffer
  /\ update \in [Goroutine -> {"none", "remove", "rename", "download"}]
  /\ torn \in BOOLEAN

Init ==
  /\ row = [c \in Command |-> "none"]
  /\ results = [c \in Command |-> 0] /\ ran = [c \in Command |-> 0]
  /\ latest = 1 /\ reported = 1 /\ configured = 1
  /\ request = Nil /\ late = Nil /\ reply = Nil /\ push = 0
  /\ exe = 1 /\ old = 0 /\ running = 1
  /\ phase = "idle" /\ todo = {}
  /\ executedCommandIDs = <<>> /\ pendingCompleted = <<>>
  /\ failedUpdateVersion = 0
  /\ update = [g \in Goroutine |-> "none"]
  /\ torn = FALSE

More(n) == IF n = 2 THEN 2 ELSE n + 1

\* Mutant: the buffers are never cut.
EverySoFar(s) == s

\* What both buffers keep: the newest MaxPending entries.
Newest(s) == IF Len(s) > MaxPending THEN SubSeq(s, Len(s) - MaxPending + 1, Len(s)) ELSE s

-----------------------------------------------------------------------------
(* The backend.                                                            *)

\* Somebody inserts a command; its expires_at passes before it is claimed.
Issue(c) ==
  /\ row[c] = "none" /\ row' = [row EXCEPT ![c] = "pending"]
  /\ UNCHANGED <<results, reported, releases, network, step, commands, updater>>

Expire(c) ==
  /\ row[c] = "pending" /\ row' = [row EXCEPT ![c] = "expired"]
  /\ UNCHANGED <<results, reported, releases, network, step, commands, updater>>

\* AgentVersionSync: a new release is announced to the connected agents.
Release ==
  /\ latest < MaxVersion /\ latest' = latest + 1
  /\ push' \in IF update["websocket"] = "none" THEN {push, latest'} ELSE {push}
  /\ UNCHANGED <<backend, network, step, commands, updater>>

\* Mutant: one acknowledgement is taken for everything the agent was sent.
AckedTogether(r) ==
  [c \in Command |-> IF r.acks # {} /\ (c \in r.acks \/ row[c] = "sent") THEN "answered" ELSE row[c]]

\* processCompletedCommands.
Acked(r) == [c \in Command |-> IF c \in r.acks THEN "answered" ELSE row[c]]

\* Mutant: a command is sent with every heartbeat until it is acknowledged.
ClaimedUntilAcked(r) == {c \in Command : Acked(r)[c] \in {"pending", "sent"}}

\* claimPendingCommands, after the acknowledgements of the same heartbeat.
Claimed(r) == {c \in Command : Acked(r)[c] = "pending"}

\* The transaction of processAgent, for an agent that has a primary server: without
\* one the activity row of an acknowledgement cannot be written and it rolls back.
Process(r) ==
  /\ reported' = r.version
  /\ row' = [c \in Command |-> IF c \in Claimed(r) THEN "sent" ELSE Acked(r)[c]]
  /\ results' = [c \in Command |-> IF c \in r.acks THEN More(results[c]) ELSE results[c]]

AnswerTo(r) ==
  [commands |-> Claimed(r), update |-> IF r.version # latest THEN latest ELSE 0]

Handle ==
  /\ request # Nil /\ Process(request)
  /\ reply' = AnswerTo(request) /\ request' = Nil
  /\ UNCHANGED <<late, releases, step, commands, updater>>

\* The agent does not wait for this one any more: nobody reads the answer.
HandleLate ==
  /\ late # Nil /\ Process(late) /\ late' = Nil
  /\ UNCHANGED <<request, reply, releases, step, commands, updater>>

\* A heartbeat or an answer does not arrive, a broadcast finds no connection.
Lose ==
  /\ \/ request # Nil /\ request' = Nil /\ UNCHANGED <<late, reply, push>>
     \/ late # Nil /\ late' = Nil /\ UNCHANGED <<request, reply, push>>
     \/ reply # Nil /\ reply' = Nil /\ UNCHANGED <<request, late, push>>
     \/ push # 0 /\ update["websocket"] = "none" /\ push' = 0 /\ UNCHANGED network
  /\ UNCHANGED <<backend, latest, step, commands, updater>>

-----------------------------------------------------------------------------
(* The heartbeat step: sendHeartbeatStep.                                  *)

Payload == [acks |-> ToSet(pendingCompleted), version |-> configured]

\* What the agent waited for so far may still reach the backend.
Abandon ==
  /\ late' \in IF request = Nil THEN {late} ELSE {late, request}
  /\ reply' = Nil

\* Mutant: a tick is skipped when it has only acknowledgements to deliver.
SendStranding ==
  /\ running # 0 /\ phase = "idle" /\ todo = {} /\ pendingCompleted = <<>>
  /\ phase' = "sending" /\ request' = Payload
  /\ UNCHANGED <<late, reply, backend, releases, configured, commands, updater>>

Send ==
  /\ running # 0 /\ phase = "idle" /\ todo = {}
  /\ phase' = "sending" /\ request' = Payload
  /\ UNCHANGED <<late, reply, backend, releases, configured, commands, updater>>

\* A network error or a status that is not 401: the same payload again.
Retry ==
  /\ phase = "sending"
  /\ Abandon /\ request' = Payload
  /\ UNCHANGED <<backend, releases, step, commands, updater>>

\* Mutant: the acknowledgements are dropped whether or not they arrived.
GiveUpAndForget ==
  /\ phase = "sending" /\ phase' = "idle"
  /\ Abandon /\ request' = Nil
  /\ pendingCompleted' = <<>>
  /\ UNCHANGED <<backend, releases, configured, todo, executedCommandIDs, ran, updater>>

\* The next tick is due: the payload is stale.
GiveUp ==
  /\ phase = "sending" /\ phase' = "idle"
  /\ Abandon /\ request' = Nil
  /\ UNCHANGED <<backend, releases, configured, commands, updater>>

\* filterNewCommands: the identifiers of new commands, recorded in some order.
Recorded(new) ==
  {Newest(executedCommandIDs \o s) : s \in SetToSeqs(new)}

\* Mutant: a version is written only when its binary is in place.
ConfiguredAs(version) == configured

\* The version is written to the bootstrap file before the binary is fetched.
Configured(version) == IF version = 0 THEN configured ELSE version

\* The answer: acknowledgements are done with, the update starts, and the
\* commands wait until it has ended.
Receive ==
  /\ phase = "sending" /\ reply # Nil /\ reply' = Nil
  /\ pendingCompleted' = <<>>
  /\ configured' = Configured(reply.update)
  /\ todo' = reply.commands \ ToSet(executedCommandIDs)
  /\ executedCommandIDs' \in Recorded(todo')
  /\ phase' = IF reply.update \in {0, failedUpdateVersion} THEN "idle" ELSE "install"
  /\ update' = [update EXCEPT !["heartbeat"] = IF phase' = "install" THEN "remove" ELSE "none"]
  /\ torn' = (torn \/ (phase' = "install" /\ update["websocket"] # "none"))
  /\ UNCHANGED <<request, late, backend, releases, ran, exe, old, running, failedUpdateVersion>>

Execute(c) ==
  /\ phase = "idle" /\ c \in todo
  /\ todo' = todo \ {c}
  /\ ran' = [ran EXCEPT ![c] = More(@)]
  /\ pendingCompleted' = Newest(Append(pendingCompleted, c))
  /\ UNCHANGED <<backend, releases, network, step, executedCommandIDs, updater>>

-----------------------------------------------------------------------------
(* updateBinary, in whichever goroutine calls it.                          *)

Other(g) == CHOOSE h \in Goroutine : h # g

\* The version a goroutine installs.
Target(g) == IF g = "heartbeat" THEN configured ELSE push

\* A broadcast arrives and is not within the cooldown.
ReceivePush ==
  /\ running # 0 /\ push # 0 /\ update["websocket"] = "none"
  /\ IF push = failedUpdateVersion
       THEN push' = 0 /\ UNCHANGED <<update, torn>>
       ELSE /\ update' = [update EXCEPT !["websocket"] = "remove"]
            /\ torn' = (torn \/ update["heartbeat"] # "none")
            /\ UNCHANGED push
  /\ UNCHANGED <<backend, latest, network, step, commands, exe, old, running, failedUpdateVersion>>

RemoveOld(g) ==
  /\ update[g] = "remove" /\ update' = [update EXCEPT ![g] = "rename"]
  /\ old' = 0
  /\ UNCHANGED <<backend, releases, network, step, commands, exe, running, failedUpdateVersion, torn>>

RenameExe(g) ==
  /\ update[g] = "rename" /\ exe # 0
  /\ update' = [update EXCEPT ![g] = "download"]
  /\ old' = exe /\ exe' = 0
  /\ UNCHANGED <<backend, releases, network, step, commands, running, failedUpdateVersion, torn>>

\* Mutant: a failed download leaves the old binary where it is.
RestoredNever == exe

\* What a failed download leaves in the executable.
Restored == IF old # 0 THEN old ELSE exe

\* The rename or the download fails: the cooldown starts, the caller goes on.
UpdateFails(g) ==
  /\ \/ update[g] = "rename" /\ exe = 0 /\ UNCHANGED <<exe, old>>
     \/ update[g] = "download" /\ exe' = Restored /\ old' = 0
  /\ update' = [update EXCEPT ![g] = "none"]
  /\ failedUpdateVersion' = Target(g)
  /\ phase' = IF g = "heartbeat" THEN "idle" ELSE phase
  /\ push' = IF g = "websocket" THEN 0 ELSE push
  /\ UNCHANGED <<backend, latest, network, configured, commands, running, torn>>

CooldownPasses ==
  /\ failedUpdateVersion # 0 /\ failedUpdateVersion' = 0
  /\ UNCHANGED <<backend, releases, network, step, commands, exe, old, running, update, torn>>

\* A new process starts from the executable that is there, with nothing of the
\* old one's memory.
Restart(binary) ==
  /\ running' = binary
  /\ phase' = "idle" /\ todo' = {}
  /\ executedCommandIDs' = <<>> /\ pendingCompleted' = <<>>
  /\ failedUpdateVersion' = 0
  /\ update' = [g \in Goroutine |-> "none"]
  /\ Abandon /\ request' = Nil
  /\ push' = IF update["websocket"] = "none" THEN push ELSE 0
  /\ UNCHANGED <<backend, latest, configured, ran>>

\* The download is complete: the process exits to be restarted.
UpdateSucceeds(g) ==
  /\ update[g] = "download"
  /\ exe' = latest
  /\ Restart(latest)
  /\ UNCHANGED <<old, torn>>

\* The process is killed, and started again if there is something to start.
Crash ==
  /\ running # 0
  /\ Restart(exe)
  /\ torn' = (torn \/ exe = 0)
  /\ UNCHANGED <<exe, old>>

-----------------------------------------------------------------------------

Update(g) == RemoveOld(g) \/ RenameExe(g) \/ UpdateFails(g) \/ UpdateSucceeds(g)

Next ==
  \/ \E c \in Command : Issue(c) \/ Expire(c) \/ Execute(c)
  \/ Release \/ Handle \/ HandleLate \/ Lose
  \/ Send \/ Retry \/ GiveUp \/ Receive
  \/ ReceivePush \/ CooldownPasses \/ Crash
  \/ \E g \in Goroutine : Update(g)

\* The ticker fires and both goroutines run on.  A heartbeat that is sent again
\* and again is answered, and the answer read, in the end; downloads may fail for
\* ever, broadcasts may all be lost, and the process may die again and again.
Fairness ==
  /\ WF_vars(Send) /\ WF_vars(Retry)
  /\ SF_vars(Handle) /\ SF_vars(Receive)
  /\ WF_vars(\E c \in Command : Execute(c))
  /\ \A g \in Goroutine : WF_vars(Update(g))

Spec == Init /\ [][Next]_vars /\ Fairness

-----------------------------------------------------------------------------

\* No command is executed twice, whatever is lost, sent again or restarted.
AtMostOnce == \A c \in Command : ran[c] <= 1

\* A command the backend counts as answered has been executed.
AnsweredMeansExecuted == \A c \in Command : row[c] = "answered" => ran[c] > 0

\* A result leaves the agent's buffer only once the backend has stored it, unless
\* the process restarts (its memory is emptied) or newer results displace it.
ResultIsKept ==
  [][\A c \in ToSet(pendingCompleted) :
       \/ c \in ToSet(pendingCompleted') \/ row[c] = "answered"
       \/ executedCommandIDs' = <<>> \/ Len(pendingCompleted') = MaxPending]_vars

\* A result in the buffer reaches the backend or leaves the buffer.
ResultArrives ==
  \A c \in Command :
    (c \in ToSet(pendingCompleted)) ~> (row[c] = "answered" \/ c \notin ToSet(pendingCompleted))

\* Unless two updates overlapped or the process died inside one: between updates
\* the executable is there, so that a restart finds something to start.
BinaryIsThere ==
  ~torn /\ (\A g \in Goroutine : update[g] = "none") => exe # 0

\* Once the releases end the backend stops telling a living agent to update, even
\* though a binary does not know its own version: the agent cannot be sent into
\* one restart after another.
UpdatesEnd == <>[](reported = latest \/ running = 0)
=============================================================================
