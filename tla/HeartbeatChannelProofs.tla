------------------------ MODULE HeartbeatChannelProofs ------------------------
(***************************************************************************)
(* What holds of commands, results and the agent's binary for every set of *)
(* commands, every size of the buffers and every number of releases.       *)
(***************************************************************************)
EXTENDS HeartbeatChannel, FiniteSetTheorems, TLAPS

-----------------------------------------------------------------------------
(* Commands.  A command is in one place at a time.                         *)

\* An acknowledgement of c is with the agent or on its way.
Acknowledged(c) ==
  \/ c \in ToSet(pendingCompleted)
  \/ request # Nil /\ c \in request.acks
  \/ late # Nil /\ c \in late.acks

Unclaimed(c) == row[c] \in {"none", "pending", "expired"}
InAnswer(c) == reply # Nil /\ c \in reply.commands

PlaceOf(c) ==
  /\ Unclaimed(c) => ran[c] = 0 /\ c \notin todo /\ ~InAnswer(c)
  /\ InAnswer(c) => ran[c] = 0 /\ c \notin todo
  /\ c \in todo => ran[c] = 0
  /\ ran[c] \in {0, 1}
  /\ Acknowledged(c) => ran[c] = 1
  /\ row[c] = "answered" => ran[c] = 1

CommandTypes ==
  /\ row \in [Command -> {"none", "pending", "sent", "answered", "expired"}]
  /\ ran \in [Command -> 0..2]
  /\ todo \subseteq Command
  /\ pendingCompleted \in Seq(Command)
  /\ reply # Nil => reply.commands \subseteq Command

CommandInv == CommandTypes /\ \A c \in Command : PlaceOf(c)

\* Nothing has been issued yet.
LEMMA InitCommands == Init => CommandInv
BY DEF Init, CommandInv, CommandTypes, PlaceOf, Unclaimed, InAnswer, Acknowledged, ToSet

\* What a buffer keeps was in it, or is what was added.
LEMMA NewestKeeps ==
  ASSUME NEW S, NEW s \in Seq(S)
  PROVE  Newest(s) \in Seq(S) /\ ToSet(Newest(s)) \subseteq ToSet(s)
         /\ (Len(s) <= MaxPending => Newest(s) = s)
<1>1. CASE Len(s) > MaxPending
  <2>. DEFINE n == Len(s) - MaxPending
  <2>1. n \in 1..Len(s) /\ Newest(s) = SubSeq(s, n + 1, Len(s))
    BY <1>1, MaxPendingAssumption DEF Newest
  <2>2. Newest(s) \in Seq(S) /\ Len(Newest(s)) = Len(s) - n
        /\ \A i \in 1..Len(Newest(s)) : Newest(s)[i] = s[n + i]
    BY <2>1
  <2>3. \A i \in 1..Len(Newest(s)) : n + i \in 1..Len(s) BY <2>1, <2>2
  <2>4. ToSet(Newest(s)) \subseteq ToSet(s) BY <2>2, <2>3 DEF ToSet
  <2>. QED BY <1>1, <2>2, <2>4, MaxPendingAssumption
<1>2. CASE ~(Len(s) > MaxPending)
  <2>1. Newest(s) = s BY <1>2 DEF Newest
  <2>. QED BY <2>1
<1>. QED BY <1>1, <1>2

\* The backend takes a heartbeat: it claims what was never claimed and marks as
\* answered what was executed.
LEMMA ProcessKeepsPlaces ==
  ASSUME CommandInv, NEW r, \A c \in Command : c \in r.acks => ran[c] = 1, Process(r),
         UNCHANGED commands, reply' # Nil => reply'.commands \subseteq Command,
         \A c \in Command : InAnswer(c)' => InAnswer(c) \/ c \in Claimed(r),
         \A c \in Command : Acknowledged(c)' => Acknowledged(c)
  PROVE  CommandInv'
<1>1. CommandTypes'
  BY DEF CommandInv, CommandTypes, Process, Claimed, Acked, commands
<1>2. ASSUME NEW c \in Command PROVE PlaceOf(c)'
  <2>1. ran'[c] = ran[c] /\ (c \in todo' <=> c \in todo) BY DEF commands
  <2>2. CASE c \in Claimed(r)
    <3>1. row[c] = "pending" /\ c \notin r.acks BY <2>2 DEF Claimed, Acked
    <3>2. row'[c] = "sent" BY <2>2 DEF Process
    <3>3. PlaceOf(c) BY DEF CommandInv
    <3>. QED BY <2>1, <3>1, <3>2, <3>3 DEF PlaceOf, Unclaimed
  <2>3. CASE c \notin Claimed(r)
    <3>1. row'[c] = IF c \in r.acks THEN "answered" ELSE row[c] BY <2>3 DEF Process, Acked
    <3>2. PlaceOf(c) /\ (c \in r.acks => ran[c] = 1) BY DEF CommandInv
    <3>. QED BY <2>1, <2>3, <3>1, <3>2 DEF PlaceOf, Unclaimed
  <2>. QED BY <2>2, <2>3
<1>. QED BY <1>1, <1>2 DEF CommandInv

\* A step that executes nothing and claims nothing only loses or repeats messages.
LEMMA QuietKeepsPlaces ==
  ASSUME CommandInv, UNCHANGED ran, CommandTypes', UNCHANGED row,
         \A c \in Command : c \in todo' => c \in todo \/ (InAnswer(c) /\ ~InAnswer(c)'),
         \A c \in Command : InAnswer(c)' => InAnswer(c),
         \A c \in Command : Acknowledged(c)' => Acknowledged(c)
  PROVE  CommandInv'
<1>1. ASSUME NEW c \in Command PROVE PlaceOf(c)'
  <2>1. PlaceOf(c) BY DEF CommandInv
  <2>. QED BY <2>1 DEF PlaceOf, Unclaimed
<1>. QED BY <1>1 DEF CommandInv

\* The steps of the backend.
LEMMA BackendKeepsPlaces ==
  ASSUME CommandInv, (\E c \in Command : Issue(c) \/ Expire(c)) \/ Release \/ Handle \/ HandleLate \/ Lose
  PROVE  CommandInv'
<1>1. ASSUME NEW c \in Command, Issue(c) \/ Expire(c) PROVE CommandInv'
  <2>1. row[c] \in {"none", "pending"} /\ row' \in [Command -> {"none", "pending", "sent", "answered", "expired"}]
        /\ row'[c] \in {"pending", "expired"} /\ \A d \in Command : d # c => row'[d] = row[d]
    BY <1>1 DEF CommandInv, CommandTypes, Issue, Expire
  <2>2. UNCHANGED <<ran, todo, pendingCompleted, request, late, reply>>
    BY <1>1 DEF Issue, Expire, commands, network
  <2>3. CommandTypes' BY <2>1, <2>2 DEF CommandInv, CommandTypes
  <2>4. ASSUME NEW d \in Command PROVE PlaceOf(d)'
    <3>1. PlaceOf(d) BY DEF CommandInv
    <3>2. (d = c /\ row[d] \in {"none", "pending"} /\ row'[d] \in {"pending", "expired"}) \/ row'[d] = row[d]
      BY <2>1
    <3>. QED BY <2>2, <3>1, <3>2 DEF PlaceOf, Unclaimed, InAnswer, Acknowledged
  <2>. QED BY <2>3, <2>4 DEF CommandInv
<1>2. CASE Release
  BY <1>2, QuietKeepsPlaces
     DEF Release, backend, network, commands, CommandInv, CommandTypes, InAnswer, Acknowledged
<1>3. CASE Handle
  <2>1. request # Nil /\ Process(request) /\ reply' = AnswerTo(request) /\ request' = Nil
        /\ UNCHANGED <<late, commands>>
    BY <1>3 DEF Handle
  <2>2. \A c \in Command : c \in request.acks => ran[c] = 1
    BY <2>1 DEF CommandInv, PlaceOf, Acknowledged
  <2>3. \A c \in Command : InAnswer(c)' => c \in Claimed(request)
    BY <2>1 DEF InAnswer, AnswerTo
  <2>5. reply'.commands \subseteq Command BY <2>1 DEF AnswerTo, Claimed
  <2>4. \A c \in Command : Acknowledged(c)' => Acknowledged(c)
    BY <2>1 DEF Acknowledged, commands
  <2>. QED BY <2>1, <2>2, <2>3, <2>4, <2>5, ProcessKeepsPlaces
<1>4. CASE HandleLate
  <2>1. late # Nil /\ Process(late) /\ late' = Nil /\ UNCHANGED <<request, reply, commands>>
    BY <1>4 DEF HandleLate
  <2>2. \A c \in Command : c \in late.acks => ran[c] = 1
    BY <2>1 DEF CommandInv, PlaceOf, Acknowledged
  <2>3. \A c \in Command : InAnswer(c)' => InAnswer(c) BY <2>1 DEF InAnswer
  <2>4. \A c \in Command : Acknowledged(c)' => Acknowledged(c)
    BY <2>1 DEF Acknowledged, commands
  <2>. QED BY <2>1, <2>2, <2>3, <2>4, ProcessKeepsPlaces DEF CommandInv, CommandTypes
<1>5. CASE Lose
  <2>1. UNCHANGED <<row, ran, todo, pendingCompleted>> BY <1>5 DEF Lose, backend, commands
  <2>2. (reply' = reply \/ reply' = Nil) /\ (request' = request \/ request' = Nil)
        /\ (late' = late \/ late' = Nil)
    BY <1>5 DEF Lose, network
  <2>3. CommandTypes' BY <2>1, <2>2 DEF CommandInv, CommandTypes
  <2>. QED BY <2>1, <2>2, <2>3, QuietKeepsPlaces DEF InAnswer, Acknowledged
<1>. QED BY <1>1, <1>2, <1>3, <1>4, <1>5

\* What the agent sends again, or gives up, was acknowledged before.
LEMMA AbandonKeeps ==
  ASSUME Abandon, UNCHANGED pendingCompleted, request' = Nil \/ request' = Payload
  PROVE  \A c : Acknowledged(c)' => Acknowledged(c)
BY DEF Abandon, Payload, Acknowledged

\* A new process has nothing to execute and nothing to acknowledge; what the old
\* one sent may still arrive.
LEMMA RestartKeepsPlaces ==
  ASSUME CommandInv, NEW binary, Restart(binary)
  PROVE  CommandInv'
<1>1. /\ UNCHANGED <<row, ran>> /\ todo' = {} /\ pendingCompleted' = <<>>
      /\ reply' = Nil /\ request' = Nil /\ (late' = late \/ (request # Nil /\ late' = request))
  BY DEF Restart, Abandon, backend
<1>2. CommandTypes' BY <1>1 DEF CommandInv, CommandTypes
<1>3. \A c \in Command : Acknowledged(c)' => Acknowledged(c)
  BY <1>1 DEF Acknowledged, ToSet
<1>. QED BY <1>1, <1>2, <1>3, QuietKeepsPlaces DEF InAnswer

\* A command runs: it leaves the list and its result is recorded.
LEMMA ExecuteKeepsPlaces ==
  ASSUME CommandInv, NEW c \in Command, Execute(c)
  PROVE  CommandInv'
<1>1. /\ c \in todo /\ ran[c] = 0 /\ todo' = todo \ {c} /\ pendingCompleted \in Seq(Command)
      /\ ran' = [ran EXCEPT ![c] = More(@)] /\ pendingCompleted' = Newest(Append(pendingCompleted, c))
      /\ UNCHANGED <<row, request, late, reply>>
  BY DEF CommandInv, CommandTypes, PlaceOf, Execute, backend, network
<1>2. ran' \in [Command -> 0..2] /\ ran'[c] = 1 /\ \A d \in Command : d # c => ran'[d] = ran[d]
  BY <1>1 DEF CommandInv, CommandTypes, More
<1>3. /\ pendingCompleted' \in Seq(Command)
      /\ \A d \in ToSet(pendingCompleted') : d = c \/ d \in ToSet(pendingCompleted)
  <2>. DEFINE s == Append(pendingCompleted, c)
  <2>1. s \in Seq(Command) BY <1>1
  <2>2. \A d \in ToSet(s) : d = c \/ d \in ToSet(pendingCompleted) BY <1>1 DEF ToSet
  <2>. QED BY <1>1, <2>1, <2>2, NewestKeeps
<1>4. CommandTypes' BY <1>1, <1>2, <1>3 DEF CommandInv, CommandTypes
<1>5. ASSUME NEW d \in Command PROVE PlaceOf(d)'
  <2>1. PlaceOf(d) /\ PlaceOf(c) BY DEF CommandInv
  <2>2. Acknowledged(d)' => d = c \/ Acknowledged(d) BY <1>1, <1>3 DEF Acknowledged
  <2>3. InAnswer(d)' = InAnswer(d) BY <1>1 DEF InAnswer
  <2>. QED BY <1>1, <1>2, <2>1, <2>2, <2>3 DEF PlaceOf, Unclaimed
<1>. QED BY <1>4, <1>5 DEF CommandInv

\* The steps of the heartbeat loop.
LEMMA StepKeepsPlaces ==
  ASSUME CommandInv, Send \/ Retry \/ GiveUp \/ Receive
  PROVE  CommandInv'
<1>1. CASE Send
  BY <1>1, QuietKeepsPlaces
     DEF Send, Payload, backend, commands, CommandInv, CommandTypes, InAnswer, Acknowledged
<1>2. CASE Retry \/ GiveUp
  <2>1. Abandon /\ UNCHANGED <<row, ran, todo, pendingCompleted>> /\ (request' = Nil \/ request' = Payload)
    BY <1>2 DEF Retry, GiveUp, backend, commands
  <2>2. CommandTypes' BY <2>1 DEF CommandInv, CommandTypes, Abandon
  <2>3. \A c \in Command : Acknowledged(c)' => Acknowledged(c) BY <2>1, AbandonKeeps
  <2>. QED BY <2>1, <2>2, <2>3, QuietKeepsPlaces DEF Abandon, InAnswer
<1>3. CASE Receive
  <2>1. /\ reply # Nil /\ reply' = Nil /\ pendingCompleted' = <<>>
        /\ todo' \subseteq reply.commands
        /\ UNCHANGED <<row, ran, request, late>>
    BY <1>3 DEF Receive, backend
  <2>2. \A c \in Command : c \in todo' => InAnswer(c) /\ ~InAnswer(c)'
    BY <2>1 DEF InAnswer
  <2>3. CommandTypes'
    BY <2>1 DEF CommandInv, CommandTypes
  <2>4. \A c \in Command : Acknowledged(c)' => Acknowledged(c)
    BY <2>1 DEF Acknowledged, ToSet
  <2>. QED BY <2>1, <2>2, <2>3, <2>4, QuietKeepsPlaces DEF InAnswer
<1>. QED BY <1>1, <1>2, <1>3

\* The updates of the binary concern no command, except by starting a process.
LEMMA UpdaterKeepsPlaces ==
  ASSUME CommandInv, ReceivePush \/ CooldownPasses \/ Crash \/ \E g \in Goroutine : Update(g)
  PROVE  CommandInv'
<1>1. CASE Crash BY <1>1, RestartKeepsPlaces DEF Crash
<1>2. CASE \E g \in Goroutine : UpdateSucceeds(g)
  BY <1>2, RestartKeepsPlaces DEF UpdateSucceeds
<1>3. CASE ReceivePush \/ CooldownPasses \/ \E g \in Goroutine : RemoveOld(g) \/ RenameExe(g) \/ UpdateFails(g)
  <2>1. UNCHANGED <<row, ran, todo, pendingCompleted, request, late, reply>>
    BY <1>3 DEF ReceivePush, CooldownPasses, RemoveOld, RenameExe, UpdateFails, backend, network, commands
  <2>2. CommandTypes' BY <2>1 DEF CommandInv, CommandTypes
  <2>. QED BY <2>1, <2>2, QuietKeepsPlaces DEF InAnswer, Acknowledged
<1>. QED BY <1>1, <1>2, <1>3 DEF Update

LEMMA CommandsInductive == CommandInv /\ [Next]_vars => CommandInv'
<1>. SUFFICES ASSUME CommandInv, [Next]_vars PROVE CommandInv'
  OBVIOUS
<1>1. CASE UNCHANGED vars
  BY <1>1 DEF vars, backend, network, commands, CommandInv, CommandTypes, PlaceOf, Unclaimed,
              InAnswer, Acknowledged
<1>2. CASE Next
  BY <1>2, BackendKeepsPlaces, ExecuteKeepsPlaces, StepKeepsPlaces, UpdaterKeepsPlaces DEF Next
<1>. QED BY <1>1, <1>2

LEMMA CommandsInvariant == Spec => []CommandInv
BY InitCommands, CommandsInductive, PTL DEF Spec

\* No command runs twice, for any number of commands and any loss, delay,
\* repetition and restart (claimPendingCommands, filterNewCommands).
THEOREM CommandsRunOnce == Spec => []AtMostOnce
<1>1. CommandInv => AtMostOnce BY DEF CommandInv, PlaceOf, AtMostOnce
<1>. QED BY <1>1, CommandsInvariant, PTL

\* The backend counts a command as answered only after the agent ran it
\* (processCompletedCommands).
THEOREM AnsweredCommandsRan == Spec => []AnsweredMeansExecuted
<1>1. CommandInv => AnsweredMeansExecuted BY DEF CommandInv, PlaceOf, AnsweredMeansExecuted
<1>. QED BY <1>1, CommandsInvariant, PTL

-----------------------------------------------------------------------------
(* Types.                                                                  *)

BackendTypes ==
  /\ row \in [Command -> {"none", "pending", "sent", "answered", "expired"}]
  /\ results \in [Command -> 0..2] /\ ran \in [Command -> 0..2]

VersionTypes ==
  /\ latest \in Version /\ reported \in Version /\ configured \in Version
  /\ push \in {0} \cup Version /\ exe \in {0} \cup Version /\ old \in {0} \cup Version
  /\ running \in {0} \cup Version /\ failedUpdateVersion \in {0} \cup Version

MessageTypes ==
  /\ request \in Heartbeat \cup {Nil} /\ late \in Heartbeat \cup {Nil}
  /\ reply \in Answer \cup {Nil}

ControlTypes ==
  /\ phase \in {"idle", "sending", "install"}
  /\ update \in [Goroutine -> {"none", "remove", "rename", "download"}]
  /\ torn \in BOOLEAN

BufferTypes ==
  /\ todo \subseteq Command
  /\ executedCommandIDs \in Buffer /\ pendingCompleted \in Buffer

Types == BackendTypes /\ VersionTypes /\ MessageTypes /\ ControlTypes /\ BufferTypes

LEMMA TypesAreTypeOK == Types <=> TypeOK
BY DEF Types, TypeOK, BackendTypes, VersionTypes, MessageTypes, ControlTypes, BufferTypes

\* A buffer is a sequence without repetitions, no longer than its capacity.
LEMMA BufferIs ==
  ASSUME NEW s
  PROVE  s \in Buffer <=> s \in Seq(Command) /\ Len(s) <= MaxPending /\ IsInjective(s)
<1>1. ASSUME s \in Buffer PROVE s \in Seq(Command) /\ Len(s) <= MaxPending /\ IsInjective(s)
  <2>1. PICK m \in 0..MaxPending : s \in [1..m -> Command] BY <1>1 DEF Buffer, SeqOf
  <2>2. m \in Nat BY <2>1, MaxPendingAssumption
  <2>3. s \in Seq(Command) /\ Len(s) = m BY <2>1, <2>2
  <2>. QED BY <1>1, <2>1, <2>3, MaxPendingAssumption DEF Buffer
<1>2. ASSUME s \in Seq(Command), Len(s) <= MaxPending, IsInjective(s) PROVE s \in Buffer
  <2>1. Len(s) \in 0..MaxPending /\ s \in [1..Len(s) -> Command] BY <1>2, MaxPendingAssumption
  <2>. QED BY <1>2, <2>1 DEF Buffer, SeqOf
<1>. QED BY <1>1, <1>2

LEMMA EmptyIsBuffer == <<>> \in Buffer
<1>1. DOMAIN <<>> = {} /\ Len(<<>>) = 0 /\ <<>> \in Seq(Command) OBVIOUS
<1>2. IsInjective(<<>>) BY <1>1, Zenon DEF IsInjective
<1>3. 0 <= MaxPending BY MaxPendingAssumption
<1>4. Len(<<>>) <= MaxPending BY <1>1, <1>3, Zenon
<1>. QED BY <1>1, <1>2, <1>4, BufferIs, Zenon

LEMMA NewestIsBuffer ==
  ASSUME NEW s \in Seq(Command), IsInjective(s)
  PROVE  Newest(s) \in Buffer
<1>1. CASE Len(s) > MaxPending
  <2>. DEFINE n == Len(s) - MaxPending
  <2>1. n \in 1..Len(s) /\ Newest(s) = SubSeq(s, n + 1, Len(s))
    BY <1>1, MaxPendingAssumption DEF Newest
  <2>2. Newest(s) \in Seq(Command) /\ Len(Newest(s)) = MaxPending
        /\ \A i \in 1..MaxPending : Newest(s)[i] = s[n + i] /\ n + i \in 1..Len(s)
    BY <2>1, MaxPendingAssumption
  <2>3. IsInjective(Newest(s))
    <3>1. ASSUME NEW i \in 1..MaxPending, NEW j \in 1..MaxPending, Newest(s)[i] = Newest(s)[j] PROVE i = j
      <4>1. s[n + i] = s[n + j] BY <2>2, <3>1
      <4>2. n + i = n + j BY <2>2, <4>1 DEF IsInjective
      <4>. QED BY <2>1, <4>2, MaxPendingAssumption
    <3>. QED BY <2>2, <3>1 DEF IsInjective
  <2>. QED BY <2>2, <2>3, BufferIs, MaxPendingAssumption
<1>2. CASE ~(Len(s) > MaxPending)
  BY <1>2, BufferIs, MaxPendingAssumption DEF Newest
<1>. QED BY <1>1, <1>2

-----------------------------------------------------------------------------
(* The executable.  Only a goroutine that downloads may be without one, and *)
(* then it keeps the copy.                                                  *)

UpdateTypes ==
  /\ latest \in Version
  /\ update \in [Goroutine -> {"none", "remove", "rename", "download"}]
  /\ update["heartbeat"] # "none" => phase = "install"

Whole ==
  /\ update["heartbeat"] = "none" \/ update["websocket"] = "none"
  /\ exe = 0 => \E g \in Goroutine : update[g] = "download"
  /\ \A g \in Goroutine : update[g] = "download" => old # 0

BinaryInv == UpdateTypes /\ (torn \/ Whole)

LEMMA InitBinary == Init => BinaryInv
BY MaxVersionAssumption DEF Init, BinaryInv, UpdateTypes, Whole, Version, Goroutine

\* The steps that concern no update leave it as it is.
LEMMA OthersKeepBinary ==
  ASSUME BinaryInv, UNCHANGED <<latest, update, exe, old, torn>>,
         phase' = phase \/ phase # "install"
  PROVE  BinaryInv'
BY DEF BinaryInv, UpdateTypes, Whole

\* The steps of an update that leave the process running.
LEMMA UpdatesKeepBinary ==
  ASSUME BinaryInv, NEW g \in Goroutine, RemoveOld(g) \/ RenameExe(g) \/ UpdateFails(g)
  PROVE  BinaryInv'
<1>1. /\ update' \in [Goroutine -> {"none", "remove", "rename", "download"}]
      /\ update[g] # "none" /\ \A h \in Goroutine : h # g => update'[h] = update[h]
      /\ latest' = latest /\ torn' = torn
  BY DEF BinaryInv, UpdateTypes, RemoveOld, RenameExe, UpdateFails, releases
<1>2. UpdateTypes'
  <2>1. CASE RemoveOld(g) \/ RenameExe(g)
    BY <1>1, <2>1 DEF RemoveOld, RenameExe, step, BinaryInv, UpdateTypes, Goroutine
  <2>2. CASE UpdateFails(g)
    BY <1>1, <2>2 DEF UpdateFails, BinaryInv, UpdateTypes, Goroutine
  <2>. QED BY <2>1, <2>2
<1>3. ASSUME Whole PROVE Whole'
  <2>1. \A h \in Goroutine : h # g => update[h] = "none" /\ update'[h] = "none"
    BY <1>1, <1>3 DEF Whole, Goroutine
  <2>2. CASE RemoveOld(g)
    <3>1. update[g] = "remove" /\ update'[g] = "rename" /\ exe' = exe
      BY <2>2 DEF RemoveOld, BinaryInv, UpdateTypes
    <3>2. exe # 0 /\ \A h \in Goroutine : update'[h] # "download"
      BY <1>3, <2>1, <3>1 DEF Whole
    <3>. QED BY <2>1, <3>1, <3>2 DEF Whole, Goroutine
  <2>3. CASE RenameExe(g)
    <3>1. update'[g] = "download" /\ old' = exe /\ exe # 0
      BY <2>3 DEF RenameExe, BinaryInv, UpdateTypes
    <3>. QED BY <2>1, <3>1 DEF Whole, Goroutine
  <2>4. CASE UpdateFails(g)
    <3>1. update'[g] = "none" /\ \A h \in Goroutine : update'[h] = "none"
      BY <2>1, <2>4 DEF UpdateFails, BinaryInv, UpdateTypes
    <3>2. CASE update[g] = "rename" /\ exe = 0
      BY <1>3, <2>1, <3>2 DEF Whole
    <3>3. CASE update[g] = "download" /\ exe' = Restored
      BY <1>3, <3>1, <3>3 DEF Whole, Restored, Goroutine
    <3>. QED BY <2>4, <3>2, <3>3 DEF UpdateFails
  <2>. QED BY <2>2, <2>3, <2>4
<1>. QED BY <1>1, <1>2, <1>3 DEF BinaryInv

\* A new process updates nothing yet.
LEMMA RestartKeepsBinary ==
  ASSUME BinaryInv, UpdateTypes, NEW binary, Restart(binary), torn' \/ exe' # 0
  PROVE  BinaryInv'
<1>1. /\ update' = [g \in Goroutine |-> "none"] /\ latest' = latest
  BY DEF Restart
<1>2. UpdateTypes' BY <1>1 DEF UpdateTypes, Goroutine
<1>3. torn' \/ Whole' BY <1>1 DEF Whole, Goroutine
<1>. QED BY <1>2, <1>3 DEF BinaryInv

LEMMA BinaryInductive == BinaryInv /\ [Next]_vars => BinaryInv'
<1>. SUFFICES ASSUME BinaryInv, [Next]_vars PROVE BinaryInv'
  OBVIOUS
<1>. USE DEF updater, step, releases
<1>1. CASE UNCHANGED vars BY <1>1, OthersKeepBinary DEF vars
<1>2. ASSUME NEW c \in Command, Issue(c) \/ Expire(c) \/ Execute(c) PROVE BinaryInv'
  BY <1>2, OthersKeepBinary DEF Issue, Expire, Execute
<1>3. CASE Release
  <2>1. latest' \in Version BY <1>3, MaxVersionAssumption DEF Release, Version, BinaryInv, UpdateTypes
  <2>2. UNCHANGED <<update, exe, old, torn, phase>> BY <1>3 DEF Release
  <2>. QED BY <2>1, <2>2 DEF BinaryInv, UpdateTypes, Whole
<1>4. CASE Handle \/ HandleLate \/ Lose
  BY <1>4, OthersKeepBinary DEF Handle, HandleLate, Lose
<1>5. CASE Send \/ Retry \/ GiveUp
  BY <1>5, OthersKeepBinary DEF Send, Retry, GiveUp
<1>6. CASE Receive
  <2>1. /\ phase = "sending" /\ UNCHANGED <<latest, exe, old>>
        /\ phase' \in {"idle", "install"}
        /\ update' = [update EXCEPT !["heartbeat"] = IF phase' = "install" THEN "remove" ELSE "none"]
    BY <1>6 DEF Receive
  <2>2. update["heartbeat"] = "none" BY <2>1 DEF BinaryInv, UpdateTypes
  <2>3. /\ update' \in [Goroutine -> {"none", "remove", "rename", "download"}]
        /\ update'["websocket"] = update["websocket"]
        /\ update'["heartbeat"] = IF phase' = "install" THEN "remove" ELSE "none"
    BY <2>1 DEF BinaryInv, UpdateTypes, Goroutine
  <2>4. UpdateTypes' BY <2>1, <2>3 DEF BinaryInv, UpdateTypes
  <2>5. torn' \/ (~torn /\ (phase' = "install" => update["websocket"] = "none"))
    BY <1>6, Zenon DEF Receive
  <2>6. torn' \/ Whole' BY <2>1, <2>2, <2>3, <2>5 DEF BinaryInv, Whole, Goroutine
  <2>. QED BY <2>4, <2>6 DEF BinaryInv
<1>7. CASE ReceivePush
  <2>1. UNCHANGED <<latest, exe, old, phase>> /\ update["websocket"] = "none" BY <1>7 DEF ReceivePush
  <2>2. CASE push = failedUpdateVersion
    BY <1>7, <2>1, <2>2, OthersKeepBinary DEF ReceivePush
  <2>3. CASE push # failedUpdateVersion
    <3>1. /\ update' = [update EXCEPT !["websocket"] = "remove"]
          /\ torn' = (torn \/ update["heartbeat"] # "none")
      BY <1>7, <2>3 DEF ReceivePush
    <3>2. /\ update' \in [Goroutine -> {"none", "remove", "rename", "download"}]
          /\ update'["heartbeat"] = update["heartbeat"] /\ update'["websocket"] = "remove"
      BY <3>1 DEF BinaryInv, UpdateTypes, Goroutine
    <3>3. torn' \/ (~torn /\ update["heartbeat"] = "none") BY <3>1, Zenon
    <3>4. UpdateTypes' BY <2>1, <3>2 DEF BinaryInv, UpdateTypes
    <3>5. torn' \/ Whole' BY <2>1, <3>2, <3>3 DEF BinaryInv, Whole, Goroutine
    <3>. QED BY <3>4, <3>5 DEF BinaryInv
  <2>. QED BY <2>2, <2>3
<1>8. CASE CooldownPasses
  BY <1>8, OthersKeepBinary DEF CooldownPasses
<1>9. CASE Crash
  <2>1. torn' = (torn \/ exe = 0) /\ exe' = exe /\ Restart(exe) BY <1>9 DEF Crash
  <2>2. torn' \/ exe # 0 BY <2>1, Zenon
  <2>. QED BY <2>1, <2>2, RestartKeepsBinary DEF BinaryInv
<1>10. ASSUME NEW g \in Goroutine, Update(g) PROVE BinaryInv'
  <2>1. CASE UpdateSucceeds(g)
    <3>1. exe' # 0 /\ Restart(latest)
      BY <2>1 DEF UpdateSucceeds, BinaryInv, UpdateTypes, Version
    <3>. QED BY <3>1, RestartKeepsBinary DEF BinaryInv
  <2>. QED BY <1>10, <2>1, UpdatesKeepBinary DEF Update
<1>. QED BY <1>1, <1>2, <1>3, <1>4, <1>5, <1>6, <1>7, <1>8, <1>9, <1>10 DEF Next

\* Between two updates there is a binary to start, whatever fails and whenever the
\* process dies, unless two updates overlapped or the process died inside one
\* (updateBinary: remove the copy, rename, download, restore).
THEOREM BinaryStays == Spec => []BinaryIsThere
<1>1. BinaryInv => BinaryIsThere BY DEF BinaryInv, Whole, BinaryIsThere
<1>2. Spec => []BinaryInv BY InitBinary, BinaryInductive, PTL DEF Spec
<1>. QED BY <1>1, <1>2, PTL

-----------------------------------------------------------------------------
(* Results.  A request under way carries what the buffer holds, and when an *)
(* answer is under way the backend has all of it.                          *)

Waiting ==
  /\ request # Nil => phase = "sending" /\ reply = Nil /\ request.acks = ToSet(pendingCompleted)
  /\ reply # Nil => phase = "sending" /\ \A c \in ToSet(pendingCompleted) : row[c] = "answered"

KeptInv == CommandInv /\ BinaryInv /\ Waiting

\* One step may do no more than ResultIsKept says.
Kept ==
  \A c \in ToSet(pendingCompleted) :
     \/ c \in ToSet(pendingCompleted') \/ row[c] = "answered"
     \/ executedCommandIDs' = <<>> \/ Len(pendingCompleted') = MaxPending

LEMMA BufferedAreCommands ==
  ASSUME CommandTypes
  PROVE  ToSet(pendingCompleted) \subseteq Command
BY DEF CommandTypes, ToSet

\* Taking a heartbeat leaves what was answered, and answers what it acknowledges.
LEMMA ProcessAnswers ==
  ASSUME NEW r, Process(r), NEW c \in Command, row[c] = "answered" \/ c \in r.acks
  PROVE  row'[c] = "answered"
BY DEF Process, Claimed, Acked

\* A step after which nothing is under way.
LEMMA NothingWaits ==
  ASSUME request' = Nil, reply' = Nil PROVE Waiting'
BY DEF Waiting

\* Only executing a command cuts the buffer; what is not cut stays.
LEMMA ExecuteKeepsResults ==
  ASSUME CommandTypes, NEW c \in Command, Execute(c)
  PROVE  Kept
<1>. DEFINE s == Append(pendingCompleted, c)
<1>1. s \in Seq(Command) /\ pendingCompleted' = Newest(s) /\ ToSet(pendingCompleted) \subseteq ToSet(s)
  <2>1. pendingCompleted \in Seq(Command) BY DEF CommandTypes
  <2>2. \A i \in DOMAIN pendingCompleted : i \in DOMAIN s /\ s[i] = pendingCompleted[i] BY <2>1
  <2>. QED BY <2>1, <2>2 DEF Execute, ToSet
<1>2. CASE Len(s) > MaxPending
  BY <1>1, <1>2, MaxPendingAssumption DEF Newest, Kept
<1>3. CASE ~(Len(s) > MaxPending)
  BY <1>1, <1>3 DEF Newest, Kept
<1>. QED BY <1>2, <1>3

LEMMA WaitingHolds ==
  ASSUME KeptInv, [Next]_vars
  PROVE  Waiting' /\ (Kept \/ UNCHANGED vars)
<1>. USE DEF KeptInv
<1>1. CommandTypes BY DEF CommandInv
<1>2. ASSUME UNCHANGED <<row, request, reply, pendingCompleted>>, phase' = phase \/ phase # "sending"
      PROVE  Waiting' /\ Kept
  BY <1>2 DEF Waiting, Kept
<1>. USE DEF backend, network, commands, step
<1>3. CASE UNCHANGED vars BY <1>2, <1>3 DEF vars
<1>4. ASSUME NEW c \in Command, Issue(c) \/ Expire(c) PROVE Waiting' /\ Kept
  <2>1. UNCHANGED <<request, reply, pendingCompleted, phase>> /\ row[c] # "answered"
        /\ row' = [row EXCEPT ![c] = IF Issue(c) THEN "pending" ELSE "expired"]
    BY <1>4 DEF Issue, Expire
  <2>2. \A d \in Command : row[d] = "answered" => row'[d] = "answered"
    BY <1>1, <2>1 DEF CommandTypes
  <2>. QED BY <1>1, <2>1, <2>2, BufferedAreCommands DEF Waiting, Kept
<1>5. ASSUME NEW c \in Command, Execute(c) PROVE Waiting' /\ Kept
  <2>1. phase = "idle" /\ UNCHANGED <<request, reply>> BY <1>5 DEF Execute
  <2>2. Waiting' BY <2>1, NothingWaits DEF Waiting
  <2>. QED BY <1>1, <1>5, <2>2, ExecuteKeepsResults
<1>6. CASE Release BY <1>2, <1>6 DEF Release
<1>7. CASE Handle
  <2>1. /\ request # Nil /\ Process(request) /\ request' = Nil
        /\ UNCHANGED <<pendingCompleted, phase>>
    BY <1>7 DEF Handle
  <2>2. phase = "sending" /\ request.acks = ToSet(pendingCompleted) BY <2>1 DEF Waiting
  <2>3. \A c \in ToSet(pendingCompleted) : row'[c] = "answered"
    BY <1>1, <2>1, <2>2, BufferedAreCommands, ProcessAnswers
  <2>. QED BY <2>1, <2>2, <2>3 DEF Waiting, Kept
<1>8. CASE HandleLate
  <2>1. Process(late) /\ UNCHANGED <<request, reply, pendingCompleted, phase>> BY <1>8 DEF HandleLate
  <2>2. \A c \in ToSet(pendingCompleted) : row[c] = "answered" => row'[c] = "answered"
    BY <1>1, <2>1, BufferedAreCommands, ProcessAnswers
  <2>. QED BY <2>1, <2>2 DEF Waiting, Kept
<1>9. CASE Lose
  BY <1>9 DEF Lose, Waiting, Kept
<1>10. CASE Send
  <2>1. /\ phase = "idle" /\ phase' = "sending" /\ request' = Payload
        /\ UNCHANGED <<reply, pendingCompleted>>
    BY <1>10 DEF Send
  <2>. QED BY <2>1 DEF Waiting, Kept, Payload
<1>11. CASE Retry
  BY <1>11 DEF Retry, Abandon, Payload, Waiting, Kept
<1>12. CASE GiveUp
  BY <1>12, NothingWaits DEF GiveUp, Abandon, Kept
<1>13. CASE Receive
  <2>1. reply # Nil /\ reply' = Nil /\ UNCHANGED request BY <1>13 DEF Receive
  <2>2. request' = Nil /\ Kept BY <2>1 DEF Waiting, Kept
  <2>. QED BY <2>1, <2>2, NothingWaits
<1>14. CASE ReceivePush \/ CooldownPasses
  BY <1>2, <1>14 DEF ReceivePush, CooldownPasses
<1>15. ASSUME NEW binary, Restart(binary) PROVE Waiting' /\ Kept
  BY <1>15, NothingWaits DEF Restart, Abandon, Kept
<1>16. CASE Crash BY <1>15, <1>16 DEF Crash
<1>17. ASSUME NEW g \in Goroutine, Update(g) PROVE Waiting' /\ Kept
  <2>1. CASE RemoveOld(g) \/ RenameExe(g) BY <1>2, <2>1 DEF RemoveOld, RenameExe
  <2>2. CASE UpdateFails(g)
    <3>1. UNCHANGED <<row, request, reply, pendingCompleted>> /\ update[g] # "none"
          /\ (phase' = phase \/ g = "heartbeat")
      BY <2>2 DEF UpdateFails
    <3>2. g = "heartbeat" => phase = "install" BY <3>1 DEF BinaryInv, UpdateTypes
    <3>. QED BY <1>2, <3>1, <3>2
  <2>3. CASE UpdateSucceeds(g) BY <1>15, <2>3 DEF UpdateSucceeds
  <2>. QED BY <1>17, <2>1, <2>2, <2>3 DEF Update
<1>. QED BY <1>3, <1>4, <1>5, <1>6, <1>7, <1>8, <1>9, <1>10, <1>11, <1>12, <1>13, <1>14,
            <1>16, <1>17 DEF Next

\* A result leaves the buffer only when the backend has it, a newer one displaces
\* it or the process ends (the answer to a heartbeat empties the buffer, and it
\* answers exactly what the buffer held).
THEOREM ResultsAreKept == Spec => ResultIsKept
<1>1. Init => KeptInv
  BY InitCommands, InitBinary, NothingWaits DEF KeptInv, Init, Waiting
<1>2. KeptInv /\ [Next]_vars => KeptInv'
  BY CommandsInductive, BinaryInductive, WaitingHolds DEF KeptInv
<1>3. KeptInv /\ [Next]_vars =>
        [\A c \in ToSet(pendingCompleted) :
           \/ c \in ToSet(pendingCompleted') \/ row[c] = "answered"
           \/ executedCommandIDs' = <<>> \/ Len(pendingCompleted') = MaxPending]_vars
  BY WaitingHolds DEF Kept
<1>. QED BY <1>1, <1>2, <1>3, PTL DEF Spec, ResultIsKept

-----------------------------------------------------------------------------
(* Types, continued.                                                       *)

\* The identifiers of new commands fit behind those already executed.
LEMMA RecordedIsBuffer ==
  ASSUME executedCommandIDs \in Buffer, NEW new \in SUBSET Command,
         new \cap ToSet(executedCommandIDs) = {}, NEW s \in Recorded(new)
  PROVE  s \in Buffer
<1>. DEFINE n == Cardinality(new)
<1>1. IsFiniteSet(new) /\ n \in Nat BY CommandAssumption, FS_Subset, FS_CardinalityType
<1>2. PICK t \in SetToSeqs(new) : s = Newest(executedCommandIDs \o t) BY DEF Recorded
<1>3. /\ t \in [1..n -> new] /\ \A i, j \in 1..n : i # j => t[i] # t[j]
  BY <1>2 DEF SetToSeqs
<1>4. executedCommandIDs \in Seq(Command) /\ IsInjective(executedCommandIDs) BY BufferIs
<1>5. t \in Seq(Command) /\ Len(t) = n BY <1>1, <1>3
<1>. DEFINE u == executedCommandIDs \o t
            m == Len(executedCommandIDs)
<1>6. /\ u \in Seq(Command) /\ Len(u) = m + n /\ m \in Nat
      /\ \A i \in 1..m : u[i] = executedCommandIDs[i]
      /\ \A i \in m+1..m+n : u[i] = t[i - m] /\ i - m \in 1..n
  BY <1>1, <1>4, <1>5
<1>7. ASSUME NEW i \in 1..m+n, NEW j \in 1..m+n, u[i] = u[j] PROVE i = j
  <2>1. CASE i \in 1..m /\ j \in 1..m
    BY <1>4, <1>6, <1>7, <2>1 DEF IsInjective
  <2>2. CASE i \in m+1..m+n /\ j \in m+1..m+n
    <3>1. t[i - m] = t[j - m] BY <1>6, <1>7, <2>2
    <3>2. i - m = j - m BY <1>3, <1>6, <2>2, <3>1
    <3>. QED BY <1>1, <1>6, <2>2, <3>2
  <2>3. \A k \in 1..m, l \in m+1..m+n : u[k] # u[l]
    <3>. TAKE k \in 1..m, l \in m+1..m+n
    <3>1. u[k] \in ToSet(executedCommandIDs) BY <1>4, <1>6 DEF ToSet
    <3>2. u[l] \in new BY <1>3, <1>6
    <3>. QED BY <3>1, <3>2
  <2>4. \A k \in 1..m+n : k \in 1..m \/ k \in m+1..m+n BY <1>1, <1>6
  <2>. QED BY <1>7, <2>1, <2>2, <2>3, <2>4
<1>8. IsInjective(u) BY <1>6, <1>7 DEF IsInjective
<1>. QED BY <1>2, <1>6, <1>8, NewestIsBuffer

\* A heartbeat as the network carries it.
LEMMA PayloadIsHeartbeat ==
  ASSUME CommandTypes, VersionTypes PROVE Payload \in Heartbeat
BY BufferedAreCommands DEF Payload, Heartbeat, VersionTypes

LEMMA InitTypes == Init => Types
<1>. SUFFICES ASSUME Init PROVE Types
  OBVIOUS
<1>1. <<>> \in Buffer BY EmptyIsBuffer
<1>2. BackendTypes /\ VersionTypes /\ MessageTypes
  BY MaxVersionAssumption DEF Init, BackendTypes, VersionTypes, MessageTypes, Version
<1>3. ControlTypes /\ BufferTypes
  BY <1>1 DEF Init, ControlTypes, BufferTypes
<1>. QED BY <1>2, <1>3 DEF Types

\* The results of a command are counted up to "several".
LEMMA BackendTypesHold ==
  ASSUME Types, CommandInv', [Next]_vars PROVE BackendTypes'
<1>1. results \in [Command -> 0..2] BY DEF Types, BackendTypes
<1>2. results' \in [Command -> 0..2]
  <2>1. ASSUME NEW r, Process(r) PROVE results' \in [Command -> 0..2]
    BY <1>1, <2>1 DEF Process, More
  <2>2. CASE Handle \/ HandleLate BY <2>1, <2>2 DEF Handle, HandleLate
  <2>3. CASE UNCHANGED results BY <1>1, <2>3
  <2>4. Handle \/ HandleLate \/ UNCHANGED results
    BY DEF Next, vars, backend, Issue, Expire, Execute, Release, Lose, Send, Retry, GiveUp, Receive,
           ReceivePush, CooldownPasses, Crash, Restart, Update, RemoveOld, RenameExe, UpdateFails,
           UpdateSucceeds
  <2>. QED BY <2>2, <2>3, <2>4
<1>. QED BY <1>2 DEF BackendTypes, CommandInv, CommandTypes

\* Versions come from releases and from messages that carry a release.
LEMMA VersionTypesHold ==
  ASSUME Types, [Next]_vars PROVE VersionTypes'
<1>1. VersionTypes /\ MessageTypes BY DEF Types
<1>. USE <1>1 DEF backend, releases, network, step, updater
<1>2. ASSUME NEW r \in Heartbeat, Process(r), UNCHANGED <<releases, step, updater>> PROVE VersionTypes'
  BY <1>2 DEF Process, Heartbeat, VersionTypes
<1>3. CASE UNCHANGED vars BY <1>3 DEF vars, VersionTypes
<1>4. ASSUME NEW c \in Command, Issue(c) \/ Expire(c) \/ Execute(c) PROVE VersionTypes'
  BY <1>4 DEF Issue, Expire, Execute, VersionTypes
<1>5. CASE Release
  <2>1. latest' \in Version BY <1>5, MaxVersionAssumption DEF Release, VersionTypes, Version
  <2>2. push' \in {0} \cup Version BY <1>5, <2>1 DEF Release, VersionTypes
  <2>. QED BY <1>5, <2>1, <2>2 DEF Release, VersionTypes
<1>6. CASE Handle
  BY <1>2, <1>6 DEF Handle, MessageTypes
<1>7. CASE HandleLate
  BY <1>2, <1>7 DEF HandleLate, MessageTypes
<1>8. CASE Lose \/ Send \/ Retry \/ GiveUp
  BY <1>8 DEF Lose, Send, Retry, GiveUp, VersionTypes
<1>9. CASE Receive
  <2>1. reply \in Answer BY <1>9 DEF Receive, MessageTypes
  <2>2. configured' \in Version BY <1>9, <2>1 DEF Receive, Configured, Answer, VersionTypes
  <2>. QED BY <1>9, <2>2 DEF Receive, VersionTypes
<1>10. CASE ReceivePush \/ CooldownPasses
  BY <1>10 DEF ReceivePush, CooldownPasses, VersionTypes
<1>11. ASSUME NEW binary \in {0} \cup Version, Restart(binary), exe' \in {0} \cup Version, old' = old
       PROVE  VersionTypes'
  BY <1>11 DEF Restart, VersionTypes
<1>12. CASE Crash BY <1>11, <1>12 DEF Crash, VersionTypes
<1>13. ASSUME NEW g \in Goroutine, Update(g) PROVE VersionTypes'
  <2>1. CASE RemoveOld(g) \/ RenameExe(g) BY <2>1 DEF RemoveOld, RenameExe, VersionTypes
  <2>2. CASE UpdateFails(g) BY <2>2 DEF UpdateFails, Target, Restored, VersionTypes
  <2>3. CASE UpdateSucceeds(g) BY <1>11, <2>3 DEF UpdateSucceeds, VersionTypes
  <2>. QED BY <1>13, <2>1, <2>2, <2>3 DEF Update
<1>. QED BY <1>3, <1>4, <1>5, <1>6, <1>7, <1>8, <1>9, <1>10, <1>12, <1>13 DEF Next

LEMMA MessageTypesHold ==
  ASSUME Types, CommandTypes, [Next]_vars PROVE MessageTypes'
<1>1. MessageTypes /\ VersionTypes BY DEF Types
<1>2. Payload \in Heartbeat BY <1>1, PayloadIsHeartbeat
<1>. USE <1>1 DEF network, MessageTypes
<1>3. CASE UNCHANGED network BY <1>3
<1>4. CASE Handle
  <2>1. AnswerTo(request) \in Answer
    BY <1>4 DEF Handle, AnswerTo, Answer, Claimed, VersionTypes
  <2>. QED BY <1>4, <2>1 DEF Handle
<1>5. CASE HandleLate BY <1>5 DEF HandleLate
<1>6. CASE Lose BY <1>6 DEF Lose
<1>7. CASE Send BY <1>2, <1>7 DEF Send
<1>8. CASE Retry \/ GiveUp BY <1>2, <1>8 DEF Retry, GiveUp, Abandon
<1>9. CASE Receive BY <1>9 DEF Receive
<1>10. CASE \E binary : Restart(binary) BY <1>10 DEF Restart, Abandon
<1>11. \/ UNCHANGED network \/ Handle \/ HandleLate \/ Lose \/ Send \/ Retry \/ GiveUp \/ Receive
       \/ \E binary : Restart(binary)
  BY DEF Next, vars, Issue, Expire, Execute, Release, ReceivePush, CooldownPasses, Crash, Update,
         RemoveOld, RenameExe, UpdateFails, UpdateSucceeds
<1>. QED BY <1>3, <1>4, <1>5, <1>6, <1>7, <1>8, <1>9, <1>10, <1>11

LEMMA ControlTypesHold ==
  ASSUME Types, BinaryInv', [Next]_vars PROVE ControlTypes'
<1>1. ControlTypes BY DEF Types
<1>2. phase' \in {"idle", "sending", "install"}
  BY <1>1 DEF ControlTypes, Next, vars, step, Issue, Expire, Execute, Release, Handle, HandleLate, Lose,
     Send, Retry, GiveUp, Receive, ReceivePush, CooldownPasses, Crash, Restart, Update, RemoveOld,
     RenameExe, UpdateFails, UpdateSucceeds
<1>3. torn' \in BOOLEAN
  <2>1. torn \in BOOLEAN BY <1>1 DEF ControlTypes
  <2>2. CASE Receive
    <3>1. torn' = (torn \/ (phase' = "install" /\ update["websocket"] # "none")) BY <2>2 DEF Receive
    <3>. QED BY <3>1, Zenon
  <2>3. CASE ReceivePush
    <3>1. torn' = torn \/ torn' = (torn \/ update["heartbeat"] # "none") BY <2>3 DEF ReceivePush
    <3>. QED BY <2>1, <3>1, Zenon
  <2>4. CASE Crash
    <3>1. torn' = (torn \/ exe = 0) BY <2>4 DEF Crash
    <3>. QED BY <3>1, Zenon
  <2>5. CASE UNCHANGED torn BY <2>1, <2>5
  <2>6. Receive \/ ReceivePush \/ Crash \/ UNCHANGED torn
    BY DEF Next, vars, updater, Issue, Expire, Execute, Release, Handle, HandleLate, Lose, Send, Retry,
           GiveUp, CooldownPasses, Update, RemoveOld, RenameExe, UpdateFails, UpdateSucceeds
  <2>. QED BY <2>2, <2>3, <2>4, <2>5, <2>6
<1>. QED BY <1>2, <1>3 DEF ControlTypes, BinaryInv, UpdateTypes

LEMMA BufferTypesHold ==
  ASSUME Types, CommandInv, CommandInv', [Next]_vars PROVE BufferTypes'
<1>1. BufferTypes BY DEF Types
<1>2. todo' \subseteq Command BY DEF CommandInv, CommandTypes
<1>3. <<>> \in Buffer BY EmptyIsBuffer
<1>. USE <1>1, <1>2, <1>3 DEF BufferTypes
<1>4. CASE UNCHANGED <<executedCommandIDs, pendingCompleted>> BY <1>4
<1>5. ASSUME NEW c \in Command, Execute(c) PROVE BufferTypes'
  <2>1. /\ c \in Command /\ c \in todo /\ executedCommandIDs' = executedCommandIDs
        /\ pendingCompleted' = Newest(Append(pendingCompleted, c))
    BY <1>5 DEF Execute
  <2>2. pendingCompleted \in Seq(Command) /\ IsInjective(pendingCompleted) BY BufferIs
  <2>3. c \notin ToSet(pendingCompleted)
    BY <2>1 DEF CommandInv, PlaceOf, Acknowledged
  <2>4. \A i \in DOMAIN pendingCompleted : pendingCompleted[i] # c BY <2>3 DEF ToSet
  <2>. DEFINE s == Append(pendingCompleted, c)
  <2>5. /\ s \in Seq(Command) /\ Len(s) = Len(pendingCompleted) + 1 /\ s[Len(s)] = c
        /\ \A i \in 1..Len(pendingCompleted) : s[i] = pendingCompleted[i]
    BY <2>2
  <2>6. ASSUME NEW i \in 1..Len(s), NEW j \in 1..Len(s), s[i] = s[j] PROVE i = j
    <3>1. (i = Len(s) \/ i \in 1..Len(pendingCompleted)) /\ (j = Len(s) \/ j \in 1..Len(pendingCompleted))
      BY <2>2, <2>5
    <3>. QED BY <2>2, <2>4, <2>5, <2>6, <3>1 DEF IsInjective
  <2>7. IsInjective(s) BY <2>5, <2>6 DEF IsInjective
  <2>. QED BY <2>1, <2>5, <2>7, NewestIsBuffer
<1>6. CASE Receive
  <2>1. /\ pendingCompleted' = <<>> /\ todo' = reply.commands \ ToSet(executedCommandIDs)
        /\ executedCommandIDs' \in Recorded(todo')
    BY <1>6 DEF Receive
  <2>2. todo' \cap ToSet(executedCommandIDs) = {} BY <2>1
  <2>. QED BY <2>1, <2>2, RecordedIsBuffer
<1>7. CASE \E binary : Restart(binary) BY <1>7 DEF Restart
<1>8. \/ UNCHANGED <<executedCommandIDs, pendingCompleted>> \/ Receive
      \/ (\E c \in Command : Execute(c)) \/ \E binary : Restart(binary)
  BY DEF Next, vars, commands, Issue, Expire, Release, Handle, HandleLate, Lose, Send, Retry, GiveUp,
         ReceivePush, CooldownPasses, Crash, Update, RemoveOld, RenameExe, UpdateFails, UpdateSucceeds
<1>. QED BY <1>4, <1>5, <1>6, <1>7, <1>8

\* Every variable keeps its type; the buffers never hold a command twice, however
\* often one is sent (filterNewCommands, recordCommandResult).
THEOREM TypeCorrect == Spec => []TypeOK
<1>1. Types /\ CommandInv /\ BinaryInv /\ [Next]_vars => (Types /\ CommandInv /\ BinaryInv)'
  <2>. SUFFICES ASSUME Types, CommandInv, BinaryInv, [Next]_vars
                PROVE  (Types /\ CommandInv /\ BinaryInv)'
    OBVIOUS
  <2>1. CommandInv' /\ BinaryInv' BY CommandsInductive, BinaryInductive
  <2>2. CommandTypes BY DEF CommandInv
  <2>. QED BY <2>1, <2>2, BackendTypesHold, VersionTypesHold, MessageTypesHold, ControlTypesHold,
              BufferTypesHold DEF Types
<1>2. Init => Types /\ CommandInv /\ BinaryInv BY InitTypes, InitCommands, InitBinary
<1>3. Types => TypeOK BY TypesAreTypeOK
<1>. QED BY <1>1, <1>2, <1>3, PTL DEF Spec

=============================================================================

