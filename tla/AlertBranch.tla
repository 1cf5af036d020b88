------------------------------ MODULE AlertBranch ------------------------------
(***************************************************************************)
(* One branch of an alert graph, metric -> condition -> sustained (with    *)
(* the repeat capability) -> notification, on every server: the jobs that  *)
(* evaluate a heartbeat, the sweeps that fire due timers, the latch and    *)
(* the phase in node_config_states, the task index in the cache, and the   *)
(* alert row on the action board.                                          *)
(*                                                                         *)
(* Every read and every write of the cache or the database is a step, but  *)
(* for a task, which is put and forgotten along with its entry in the      *)
(* index: the index is one cache key that each writer reads, changes and   *)
(* writes back whole.                                                      *)
(***************************************************************************)
EXTENDS Naturals, Sequences, FiniteSets

CONSTANTS
    Servers,
    Workers,     \* queue workers
    Sweeps,      \* runs of node-tasks:process, which may overlap
    Pages,       \* requests and jobs that reset a server
    Repeats,     \* whether the node has a repeat interval
    MaxRepeats,  \* its cap; 0 = endless
    MaxQueue,    \* bound: evaluations of one server that wait in the queue
    MaxFlips,    \* bound: changes of the condition
    MaxMishaps   \* bound: saves of the configuration, resets and crashes

ASSUME ConstantsAssumption ==
    /\ Servers # {} /\ Repeats \in BOOLEAN
    /\ MaxRepeats \in Nat /\ MaxQueue \in Nat /\ MaxFlips \in Nat /\ MaxMishaps \in Nat
    /\ Workers \cap Sweeps = {} /\ Pages \cap (Workers \cup Sweeps) = {}

VARIABLES
    holds,   \* whether the latest sample of a server meets the condition
    latch,   \* node_config_states "branch:...": armed
    phase,   \* node_config_states of the sustained node: phase
    index,   \* node_task:index, when the task of a server fires
    body,    \* node_task:<id>, the task of a server, if any
    queue,   \* jobs: evaluate a heartbeat, send a notification
    proc,    \* what each process is doing
    row,     \* whether the alert of a server is open on the board
    sent,    \* history: notifications since the latch was armed
    mishap,  \* history: servers whose evaluation was lost, refused, overwritten or left over
    orphans,    \* history: servers whose row opened after the release, or outlived a reset or a crash
    flips, mishaps  \* bounds

states == <<latch, phase>>
cache == <<index, body>>
history == <<sent, mishap, orphans>>
bounds == <<flips, mishaps>>
vars == <<holds, states, cache, queue, proc, row, history, bounds>>

Procs == Workers \cup Sweeps \cup Pages
MaxSent == MaxRepeats + 2
Count == 0..MaxRepeats
Task == [repeat: BOOLEAN, count: Count]
Index == [Servers -> {"absent", "later", "due"}]
Job == [kind: {"evaluate", "notify"}, server: Servers, on: BOOLEAN]

Nobody == CHOOSE s \in Servers : TRUE
NoTasks == [s \in Servers |-> {}]
Idle == [pc |-> "idle", server |-> Nobody, on |-> FALSE, phase |-> "idle",
         copy |-> [s \in Servers |-> "absent"], due |-> NoTasks, task |-> {}]

TypeOK ==
    /\ holds \in [Servers -> BOOLEAN]
    /\ latch \in [Servers -> BOOLEAN]
    /\ phase \in [Servers -> {"idle", "pending", "firing"}]
    /\ index \in Index
    /\ body \in [Servers -> SUBSET Task] /\ \A s \in Servers : Cardinality(body[s]) <= 1
    /\ queue \in Seq(Job)
    /\ proc \in [Procs ->
            [pc: {"idle", "latch", "active", "release", "tidy", "arm", "load", "evaluate", "cancel",
                  "cancelled", "forget", "schedule", "put", "notify", "remove", "work", "check", "verify"},
             server: Servers, on: BOOLEAN, phase: {"idle", "pending", "firing"},
             copy: Index, due: [Servers -> SUBSET Task], task: SUBSET Task]]
    /\ row \in [Servers -> BOOLEAN]
    /\ sent \in [Servers -> 0..MaxSent]
    /\ mishap \subseteq Servers /\ orphans \subseteq Servers
    /\ flips \in 0..MaxFlips /\ mishaps \in 0..MaxMishaps

Init ==
    /\ holds = [s \in Servers |-> FALSE]
    /\ latch = [s \in Servers |-> FALSE] /\ phase = [s \in Servers |-> "idle"]
    /\ index = [s \in Servers |-> "absent"] /\ body = NoTasks
    /\ queue = <<>> /\ proc = [p \in Procs |-> Idle]
    /\ row = [s \in Servers |-> FALSE] /\ sent = [s \in Servers |-> 0]
    /\ mishap = {} /\ orphans = {}
    /\ flips = 0 /\ mishaps = 0

-----------------------------------------------------------------------------
(* The environment *)

Flip(s) ==
    /\ flips < MaxFlips /\ flips' = flips + 1
    /\ holds' = [holds EXCEPT ![s] = ~@]
    /\ UNCHANGED <<states, cache, queue, proc, row, history, mishaps>>

\* A heartbeat puts its value into a job.
Heartbeat(s) ==
    /\ Cardinality({i \in DOMAIN queue : queue[i].kind = "evaluate" /\ queue[i].server = s}) < MaxQueue
    /\ queue' = Append(queue, [kind |-> "evaluate", server |-> s, on |-> holds[s]])
    /\ UNCHANGED <<holds, states, cache, proc, row, history, bounds>>

TaskIsDue(s) ==
    /\ index[s] = "later"
    /\ index' = [index EXCEPT ![s] = "due"]
    /\ UNCHANGED <<holds, states, body, queue, proc, row, history, bounds>>

-----------------------------------------------------------------------------
(* The processes *)

Goto(p, pc) == proc' = [proc EXCEPT ![p] = [@ EXCEPT !.pc = pc]]
Finish(p) == proc' = [proc EXCEPT ![p] = Idle]

\* A sweep goes on with the next due task.
Rest(p) == IF p \in Sweeps /\ proc[p].due # NoTasks THEN [Idle EXCEPT !.pc = "work", !.due = proc[p].due] ELSE Idle
Done(p) == proc' = [proc EXCEPT ![p] = Rest(p)]

\* Whether anybody holds the evaluation of s: its due task is taken but not yet
\* worked off, or a job on it is under way.
HeldBy(s, ps) == \E p \in ps :
    proc[p].due[s] # {} \/ (proc[p].pc \notin {"idle", "work", "remove", "tidy"} /\ proc[p].server = s)
Busy(s) == HeldBy(s, Procs)
Scheduled(s) == index[s] # "absent" /\ body[s] # {}

\* Writing the index back undoes what others wrote since it was read.
Overwritten(p) == {s \in Servers : (index[s] = "absent") # (proc[p].copy[s] = "absent")}

\* An entry that has come due since stays due.
Copied(p) == [s \in Servers |->
    IF proc[p].copy[s] = "later" /\ index[s] = "due" THEN "due" ELSE proc[p].copy[s]]

Take(p) ==
    /\ p \in Workers /\ proc[p].pc = "idle" /\ queue # <<>>
    /\ proc' = [proc EXCEPT ![p] = [Idle EXCEPT
            !.pc = IF Head(queue).kind = "evaluate" THEN "latch" ELSE "notify",
            !.server = Head(queue).server, !.on = Head(queue).on]]
    /\ queue' = Tail(queue)
    /\ UNCHANGED <<holds, states, cache, row, history, bounds>>

\* loadBranchLatch: while the branch is armed its sub-branches are not evaluated.
ReadLatch(p) ==
    /\ proc[p].pc = "latch"
    /\ LET s == proc[p].server
       IN  IF latch[s] /\ proc[p].on THEN Finish(p)
           ELSE Goto(p, IF latch[s] THEN "active" ELSE IF proc[p].on THEN "arm" ELSE "load")
    /\ UNCHANGED <<holds, states, cache, queue, row, history, bounds>>

FindActivePhase(p) ==
    /\ proc[p].pc = "active"
    /\ IF phase[proc[p].server] # "idle" THEN Finish(p) ELSE Goto(p, "release")
    /\ UNCHANGED <<holds, states, cache, queue, row, history, bounds>>

\* branchHasActiveEvaluation
FindActive(p) ==
    /\ proc[p].pc = "active"
    /\ IF Scheduled(proc[p].server) THEN Finish(p) ELSE Goto(p, "release")
    /\ UNCHANGED <<holds, states, cache, queue, row, history, bounds>>

Release(p) ==
    /\ proc[p].pc = "release"
    /\ latch' = [latch EXCEPT ![proc[p].server] = FALSE]
    /\ Goto(p, "tidy")
    /\ UNCHANGED <<holds, phase, cache, queue, row, history, bounds>>

\* cleanupAlertActionItems, the last that is done to a branch that is over.
Tidy(p) ==
    /\ proc[p].pc = "tidy"
    /\ row' = [row EXCEPT ![proc[p].server] = FALSE]
    /\ orphans' = orphans \ {proc[p].server}
    /\ Done(p)
    /\ UNCHANGED <<holds, states, cache, queue, sent, mishap, bounds>>

Arm(p) ==
    /\ proc[p].pc = "arm"
    /\ LET s == proc[p].server
           leftOver == phase[s] # "idle" \/ index[s] # "absent" \/ HeldBy(s, Procs \ {p})
       IN  /\ latch' = [latch EXCEPT ![s] = TRUE]
           /\ sent' = [sent EXCEPT ![s] = 0]
           /\ mishap' = IF leftOver THEN mishap \cup {s} ELSE mishap \ {s}
    /\ Goto(p, "load")
    /\ UNCHANGED <<holds, phase, cache, queue, row, orphans, bounds>>

LoadState(p) ==
    /\ proc[p].pc = "load"
    /\ proc' = [proc EXCEPT ![p] = [@ EXCEPT !.pc = "evaluate", !.phase = phase[proc[p].server]]]
    /\ UNCHANGED <<holds, states, cache, queue, row, history, bounds>>

\* Another evaluation of the server has saved its result since this one read it.
Outdated(p) == phase[proc[p].server] # proc[p].phase

EvaluateStartsLater(p) ==
    /\ proc[p].pc = "evaluate"
    /\ LET s == proc[p].server
           was == proc[p].phase
           on == proc[p].on
       IN  /\ phase' = [phase EXCEPT ![s] = IF ~on THEN "idle" ELSE IF was = "idle" THEN "pending" ELSE was]
           /\ IF ~on /\ was # "idle" THEN Goto(p, "cancel") ELSE Finish(p)
           /\ mishap' = IF Outdated(p) THEN mishap \cup {s} ELSE mishap
    /\ UNCHANGED <<holds, latch, cache, queue, row, sent, orphans, bounds>>

\* SustainedNode::onHeartbeat and the save of its result. An idle node starts the
\* sustain window; any other waits while the condition holds and ends when it
\* does not. A result that was saved in between is overwritten unseen.
Evaluate(p) ==
    /\ proc[p].pc = "evaluate"
    /\ LET s == proc[p].server
           was == proc[p].phase
           on == proc[p].on
       IN  /\ phase' = [phase EXCEPT ![s] = IF ~on THEN "idle" ELSE IF was = "idle" THEN "pending" ELSE was]
           /\ IF on /\ was = "idle"
              THEN proc' = [proc EXCEPT ![p] = [@ EXCEPT !.pc = "schedule", !.task = {[repeat |-> FALSE, count |-> 0]}]]
              ELSE IF ~on /\ was # "idle" THEN Goto(p, "cancel") ELSE Finish(p)
           /\ mishap' = IF Outdated(p) THEN mishap \cup {s} ELSE mishap
    /\ UNCHANGED <<holds, latch, cache, queue, row, sent, orphans, bounds>>

-----------------------------------------------------------------------------
(* NodeTaskScheduler *)

\* schedule and cancelByNode read the index ...
ReadIndex(p) ==
    /\ proc[p].pc \in {"schedule", "cancel"}
    /\ proc' = [proc EXCEPT ![p] = [@ EXCEPT !.copy = index,
                    !.pc = IF proc[p].pc = "schedule" THEN "put" ELSE "cancelled"]]
    /\ UNCHANGED <<holds, states, cache, queue, row, history, bounds>>

PutBeside(p) ==
    /\ proc[p].pc = "put"
    /\ LET s == proc[p].server
           skip == proc[p].copy[s] # "absent" /\ \A t \in proc[p].task : ~t.repeat
       IN  /\ index' = IF skip THEN index ELSE [Copied(p) EXCEPT ![s] = "later"]
           /\ body' = IF skip THEN body ELSE [body EXCEPT ![s] = @ \cup proc[p].task]
           /\ mishap' = IF skip THEN mishap ELSE mishap \cup (Overwritten(p) \ {s})
           /\ IF p \in Sweeps THEN Goto(p, "notify") ELSE Done(p)
    /\ UNCHANGED <<holds, states, queue, row, sent, orphans, bounds>>

\* ... and write it back. A task that is queued already stays, unless a repeat
\* replaces it. A sweep sends its notification only then.
Put(p) ==
    /\ proc[p].pc = "put"
    /\ LET s == proc[p].server
           skip == proc[p].copy[s] # "absent" /\ \A t \in proc[p].task : ~t.repeat
       IN  /\ index' = IF skip THEN index ELSE [Copied(p) EXCEPT ![s] = "later"]
           /\ body' = IF skip THEN body ELSE [body EXCEPT ![s] = proc[p].task]
           /\ mishap' = IF skip THEN mishap ELSE mishap \cup (Overwritten(p) \ {s})
           /\ IF p \in Sweeps THEN Goto(p, "notify") ELSE Done(p)
    /\ UNCHANGED <<holds, states, queue, row, sent, orphans, bounds>>

\* cancelByNode and cancelByServer.
Cancelled(p) ==
    /\ proc[p].pc = "cancelled"
    /\ LET s == proc[p].server
           gone == {s} \cup (IF p \in Pages THEN {} ELSE {r \in Servers : body[r] = {}})
       IN  /\ index' = [r \in Servers |-> IF r \in gone THEN "absent" ELSE Copied(p)[r]]
           /\ body' = IF proc[p].copy[s] = "absent" THEN body ELSE [body EXCEPT ![s] = {}]
           /\ mishap' = mishap \cup {s} \cup Overwritten(p)
    /\ IF proc[p].on /\ p \notin Workers THEN Goto(p, "forget") ELSE Done(p)
    /\ UNCHANGED <<holds, states, queue, row, sent, orphans, bounds>>

\* What follows for the states: a sweep whose condition failed sets the phase to
\* idle and goes on to the board, a page deletes all states of the server.
Forget(p) ==
    /\ proc[p].pc = "forget"
    /\ LET s == proc[p].server
       IN  /\ phase' = [phase EXCEPT ![s] = "idle"]
           /\ latch' = IF p \in Pages THEN [latch EXCEPT ![s] = FALSE] ELSE latch
           /\ orphans' = IF p \in Pages /\ row[s] THEN orphans \cup {s} ELSE orphans
           /\ mishap' = mishap \cup {s}
    /\ IF p \in Sweeps THEN Goto(p, "tidy") ELSE Finish(p)
    /\ UNCHANGED <<holds, cache, queue, row, sent, bounds>>

\* fireDue
ReadDue(p) ==
    /\ p \in Sweeps /\ proc[p].pc = "idle"
    /\ proc' = [proc EXCEPT ![p] = [Idle EXCEPT !.pc = "remove", !.copy = index]]
    /\ UNCHANGED <<holds, states, cache, queue, row, history, bounds>>

RemoveDue(p) ==
    /\ proc[p].pc = "remove"
    /\ LET due == {s \in Servers : proc[p].copy[s] = "due"}
           taken == [s \in Servers |-> IF s \in due THEN body[s] ELSE {}]
       IN  /\ index' = [s \in Servers |-> IF s \in due THEN "absent" ELSE Copied(p)[s]]
           /\ body' = [s \in Servers |-> IF s \in due THEN {} ELSE body[s]]
           /\ mishap' = mishap \cup Overwritten(p)
           /\ proc' = [proc EXCEPT ![p] = IF taken = NoTasks THEN Idle ELSE [Idle EXCEPT !.pc = "work", !.due = taken]]
    /\ UNCHANGED <<holds, states, queue, row, sent, orphans, bounds>>

Work(p, s) ==
    /\ proc[p].pc = "work" /\ proc[p].due[s] # {}
    /\ proc' = [proc EXCEPT ![p] = [@ EXCEPT !.pc = "check", !.server = s,
                    !.task = proc[p].due[s], !.due = [proc[p].due EXCEPT ![s] = {}]]]
    /\ UNCHANGED <<holds, states, cache, queue, row, history, bounds>>

\* liveConditionStillHolds
CheckLive(p) ==
    /\ proc[p].pc = "check"
    /\ proc' = [proc EXCEPT ![p] = [@ EXCEPT !.pc = IF holds[proc[p].server] THEN "verify" ELSE "cancel",
                                             !.on = ~holds[proc[p].server]]]
    /\ UNCHANGED <<holds, states, cache, queue, row, history, bounds>>

Again(t) ==
    LET n == t.count + (IF t.repeat THEN 1 ELSE 0)
    IN  Repeats /\ (MaxRepeats = 0 \/ n < MaxRepeats)

VerifyStaysFiring(p) ==
    /\ proc[p].pc = "verify"
    /\ \E t \in proc[p].task :
        LET s == proc[p].server
        IN  \/ /\ phase' = [phase EXCEPT ![s] = "firing"]
               /\ proc' = [proc EXCEPT ![p] = [@ EXCEPT
                    !.pc = IF Again(t) THEN "schedule" ELSE "notify", !.task = {[t EXCEPT !.repeat = TRUE]}]]
            \/ /\ phase' = [phase EXCEPT ![s] = "idle"]
               /\ Goto(p, "cancel")
    /\ UNCHANGED <<holds, latch, cache, queue, row, history, bounds>>

\* SustainedNode::onTimerFire and the save of its result, when the samples of the
\* window confirm the condition and when they do not. The count in the context of
\* the task wins over the stored one, and the next task gets it as it was.
Verify(p) ==
    /\ proc[p].pc = "verify"
    /\ \E t \in proc[p].task :
        LET s == proc[p].server
        IN  \/ /\ phase' = [phase EXCEPT ![s] = IF Again(t) THEN "firing" ELSE "idle"]
               /\ proc' = [proc EXCEPT ![p] = [@ EXCEPT
                    !.pc = IF Again(t) THEN "schedule" ELSE "notify", !.task = {[t EXCEPT !.repeat = TRUE]}]]
            \/ /\ phase' = [phase EXCEPT ![s] = "idle"]
               /\ Goto(p, "cancel")
    /\ UNCHANGED <<holds, latch, cache, queue, row, history, bounds>>

-----------------------------------------------------------------------------
(* Notifications *)

Dispatch(p) ==
    /\ p \in Sweeps /\ proc[p].pc = "notify"
    /\ LET s == proc[p].server
       IN  /\ queue' = Append(queue, [kind |-> "notify", server |-> s, on |-> TRUE])
           /\ sent' = [sent EXCEPT ![s] = IF @ < MaxSent THEN @ + 1 ELSE @]
    /\ Done(p)
    /\ UNCHANGED <<holds, states, cache, row, mishap, orphans, bounds>>

\* SendNotification opens the row of the alert, whatever became of the condition.
Send(p) ==
    /\ p \in Workers /\ proc[p].pc = "notify"
    /\ LET s == proc[p].server
       IN  /\ row' = [row EXCEPT ![s] = TRUE]
           /\ orphans' = IF latch[s] THEN orphans \ {s} ELSE orphans \cup {s}
    /\ Finish(p)
    /\ UNCHANGED <<holds, states, cache, queue, sent, mishap, bounds>>

-----------------------------------------------------------------------------
(* Mishaps *)

\* Saving the configuration cancels the tasks and leaves latch and phase.
ConfigSaved ==
    /\ mishaps < MaxMishaps /\ mishaps' = mishaps + 1
    /\ index' = [s \in Servers |-> "absent"]
    /\ body' = [s \in Servers |-> IF index[s] = "absent" THEN body[s] ELSE {}]
    /\ mishap' = Servers
    /\ UNCHANGED <<holds, states, queue, proc, row, sent, orphans, flips>>

\* The server changes its alert scope or is back online: cancelByServer and delete.
Reset(p, s) ==
    /\ p \in Pages /\ proc[p].pc = "idle"
    /\ mishaps < MaxMishaps /\ mishaps' = mishaps + 1
    /\ proc' = [proc EXCEPT ![p] = [Idle EXCEPT !.pc = "cancel", !.server = s, !.on = TRUE]]
    /\ UNCHANGED <<holds, states, cache, queue, row, history, flips>>

\* A process dies between two of its steps; nothing picks its work up again.
Crash(p) ==
    /\ mishaps < MaxMishaps /\ mishaps' = mishaps + 1
    /\ proc[p].pc # "idle"
    /\ mishap' = mishap \cup {s \in Servers : proc[p].due[s] # {} \/ proc[p].server = s}
    /\ orphans' = orphans \cup
           {s \in Servers : proc[p].pc = "tidy" /\ proc[p].server = s /\ row[s] /\ ~latch[s]}
    /\ Finish(p)
    /\ UNCHANGED <<holds, states, cache, queue, row, sent, flips>>

-----------------------------------------------------------------------------

Step(p) ==
    \/ Take(p) \/ ReadLatch(p) \/ FindActive(p) \/ Release(p) \/ Tidy(p) \/ Arm(p) \/ LoadState(p) \/ Evaluate(p)
    \/ ReadIndex(p) \/ Put(p) \/ Cancelled(p) \/ Forget(p) \/ ReadDue(p) \/ RemoveDue(p)
    \/ (\E s \in Servers : Work(p, s)) \/ CheckLive(p) \/ Verify(p) \/ Dispatch(p) \/ Send(p)

Next ==
    \/ \E s \in Servers : Flip(s) \/ Heartbeat(s) \/ TaskIsDue(s)
    \/ \E p \in Procs : Step(p) \/ Crash(p) \/ \E s \in Servers : Reset(p, s)
    \/ ConfigSaved

\* Agents report, time passes, and the workers, the sweep of every five seconds
\* and requests go on.
Fairness ==
    /\ \A s \in Servers : WF_vars(Heartbeat(s)) /\ WF_vars(TaskIsDue(s))
    /\ \A p \in Procs : WF_vars(Step(p))

Spec == Init /\ [][Next]_vars /\ Fairness

-----------------------------------------------------------------------------
(* Properties *)

\* A sustained node that waits for its timer or repeats has its task in the cache,
\* and a task belongs to a node that is not idle, unless one of the mishaps
\* happened to that server: nothing else would ever end the phase while the
\* condition holds.
PhaseHasTask ==
    \A s \in Servers : ~Busy(s) /\ s \notin mishap => (phase[s] # "idle") = Scheduled(s)

\* An armed branch sends its alert, unless its evaluation was lost or refused, or
\* the branch is released first.
AlertComes ==
    \A s \in Servers :
        latch[s] /\ s \notin mishap ~> sent[s] > 0 \/ s \in mishap \/ ~latch[s]

\* Once the condition stays false the branch comes to rest whatever happened:
\* no latch, no phase, no task, so that the next incident starts afresh, and no
\* row on the board unless it was opened after the release, survived a reset, or
\* its process died between the release and the clean-up of the board.
AtRest(s) == ~latch[s] /\ phase[s] = "idle" /\ ~Scheduled(s) /\ (row[s] => s \in orphans)
Settles == \A s \in Servers : <>[]~holds[s] => <>[]AtRest(s)

\* The repeat capability "injects an interval and a repeat cap": no more
\* notifications in one incident than the first and its repeats.
RepeatsAreCapped ==
    \A s \in Servers : MaxRepeats > 0 /\ s \notin mishap => sent[s] <= MaxRepeats + 1

=============================================================================
