--------------------------- MODULE AlertBranchProofs ---------------------------
(***************************************************************************)
(* The states of the alert engine keep their types for any number of       *)
(* servers, workers, overlapping sweeps and pages: in particular a server  *)
(* never has two tasks of one branch, whichever writer loses its update.   *)
(* And a phase keeps its task unless something went wrong with the server. *)
(***************************************************************************)
EXTENDS AlertBranch, FiniteSetTheorems, TLAPS

Phases == {"idle", "pending", "firing"}
PCs == {"idle", "latch", "active", "release", "tidy", "arm", "load", "evaluate", "cancel",
        "cancelled", "forget", "schedule", "put", "notify", "remove", "work", "check", "verify"}
Process == [pc: PCs, server: Servers, on: BOOLEAN, phase: Phases,
            copy: Index, due: [Servers -> SUBSET Task], task: SUBSET Task]

Single(tasks) == \A t, u \in tasks : t = u

\* A process has at most one task in hand, and took at most one of each server.
WellFormed(r) == r \in Process /\ Single(r.task) /\ \A s \in Servers : Single(r.due[s])

StateTypes ==
  /\ holds \in [Servers -> BOOLEAN] /\ latch \in [Servers -> BOOLEAN]
  /\ phase \in [Servers -> Phases] /\ row \in [Servers -> BOOLEAN]

IndexTypes == index \in Index

BodyTypes == body \in [Servers -> SUBSET Task] /\ \A s \in Servers : Single(body[s])

QueueTypes == queue \in Seq(Job)

ProcTypes ==
  /\ proc \in [Procs -> Process]
  /\ \A p \in Procs : WellFormed(proc[p])

HistoryTypes ==
  /\ sent \in [Servers -> 0..MaxSent] /\ mishap \subseteq Servers /\ orphans \subseteq Servers
  /\ flips \in 0..MaxFlips /\ mishaps \in 0..MaxMishaps

Types == StateTypes /\ IndexTypes /\ BodyTypes /\ QueueTypes /\ ProcTypes /\ HistoryTypes

LEMMA SingleIsSmall ==
  ASSUME NEW S, Single(S)
  PROVE  Cardinality(S) <= 1
<1>1. CASE S = {} BY <1>1, FS_EmptySet
<1>2. CASE S # {}
  <2>1. PICK x \in S : TRUE BY <1>2
  <2>2. S = {x} BY <2>1 DEF Single
  <2>. QED BY <2>2, FS_Singleton
<1>. QED BY <1>1, <1>2

LEMMA TypesImplyTypeOK == Types => TypeOK
BY SingleIsSmall
   DEF Types, TypeOK, StateTypes, IndexTypes, BodyTypes, QueueTypes, ProcTypes, HistoryTypes, Process,
       Phases, PCs

-----------------------------------------------------------------------------
(* The processes.                                                          *)

LEMMA IdleWellFormed == WellFormed(Idle) /\ NoTasks \in [Servers -> SUBSET Task]
<1>1. Nobody \in Servers BY ConstantsAssumption DEF Nobody
<1>2. NoTasks \in [Servers -> SUBSET Task] /\ \A s \in Servers : NoTasks[s] = {} BY DEF NoTasks
<1>3. [s \in Servers |-> "absent"] \in Index BY DEF Index
<1>4. Idle \in Process BY <1>1, <1>2, <1>3 DEF Idle, Process, PCs, Phases
<1>. QED BY <1>2, <1>4 DEF WellFormed, Single, Idle

\* Another place, and nothing else.
LEMMA GotoWellFormed ==
  ASSUME NEW r, WellFormed(r), NEW pc \in PCs
  PROVE  WellFormed([r EXCEPT !.pc = pc])
BY DEF WellFormed, Process

LEMMA RestWellFormed ==
  ASSUME ProcTypes, NEW p \in Procs
  PROVE  WellFormed(Rest(p))
<1>1. WellFormed(proc[p]) /\ WellFormed(Idle) BY IdleWellFormed DEF ProcTypes
<1>2. CASE Rest(p) = Idle BY <1>1, <1>2
<1>3. CASE Rest(p) = [Idle EXCEPT !.pc = "work", !.due = proc[p].due]
  <2>1. Rest(p) \in Process /\ Rest(p).task = Idle.task /\ Rest(p).due = proc[p].due
    BY <1>1, <1>3 DEF WellFormed, Process, PCs
  <2>. QED BY <1>1, <2>1 DEF WellFormed
<1>. QED BY <1>2, <1>3 DEF Rest

LEMMA CopiedIsIndex ==
  ASSUME ProcTypes, IndexTypes, NEW p \in Procs
  PROVE  Copied(p) \in Index
<1>1. proc[p].copy \in Index BY DEF ProcTypes, Process
<1>. QED BY <1>1 DEF Copied, Index, IndexTypes

\* One process takes a step.
LEMMA OneStep ==
  ASSUME ProcTypes, NEW p \in Procs, NEW r, WellFormed(r), proc' = [proc EXCEPT ![p] = r]
  PROVE  ProcTypes'
<1>1. r \in Process BY DEF WellFormed
<1>2. proc' \in [Procs -> Process] /\ \A q \in Procs : proc'[q] = IF q = p THEN r ELSE proc[q]
  BY <1>1 DEF ProcTypes
<1>3. \A q \in Procs : WellFormed(proc'[q]) BY <1>2 DEF ProcTypes
<1>. QED BY <1>2, <1>3 DEF ProcTypes, Procs

LEMMA ProcTypesHold ==
  ASSUME Types, [Next]_vars
  PROVE  ProcTypes'
<1>. USE DEF Types
<1>1. CASE UNCHANGED proc BY <1>1 DEF ProcTypes, Procs
<1>2. ASSUME NEW p \in Procs, NEW pc \in PCs, proc' = [proc EXCEPT ![p] = [@ EXCEPT !.pc = pc]]
      PROVE  ProcTypes'
  <2>1. WellFormed([proc[p] EXCEPT !.pc = pc]) BY GotoWellFormed DEF ProcTypes
  <2>2. proc' = [proc EXCEPT ![p] = [proc[p] EXCEPT !.pc = pc]] BY <1>2
  <2>. QED BY <2>1, <2>2, OneStep
<1>3. ASSUME NEW p \in Procs, Finish(p) \/ Done(p) PROVE ProcTypes'
  BY <1>3, OneStep, IdleWellFormed, RestWellFormed DEF Finish, Done
<1>4. ASSUME NEW p \in Procs, Step(p) PROVE ProcTypes'
  <2>1. WellFormed(proc[p]) /\ proc[p] \in Process /\ WellFormed(Idle) BY IdleWellFormed DEF ProcTypes
  <2>2. CASE Take(p)
    <3>. DEFINE r == [Idle EXCEPT !.pc = IF Head(queue).kind = "evaluate" THEN "latch" ELSE "notify",
                                  !.server = Head(queue).server, !.on = Head(queue).on]
    <3>1. Head(queue) \in Job BY <2>2 DEF Take, QueueTypes
    <3>2. r \in Process /\ r.task = Idle.task /\ r.due = Idle.due
      BY <2>1, <3>1 DEF WellFormed, Process, Job, PCs
    <3>3. WellFormed(r) BY <2>1, <3>2 DEF WellFormed
    <3>. QED BY <2>2, <3>3, OneStep DEF Take
  <2>3. CASE ReadLatch(p)
    <3>1. Finish(p) \/ \E pc \in PCs : proc' = [proc EXCEPT ![p] = [@ EXCEPT !.pc = pc]]
      BY <2>3 DEF ReadLatch, Goto, PCs
    <3>. QED BY <1>2, <1>3, <3>1
  <2>4. CASE FindActive(p)
    <3>1. Finish(p) \/ \E pc \in PCs : proc' = [proc EXCEPT ![p] = [@ EXCEPT !.pc = pc]]
      BY <2>4 DEF FindActive, Goto, PCs
    <3>. QED BY <1>2, <1>3, <3>1
  <2>5. CASE Tidy(p) \/ Send(p) BY <1>3, <2>5 DEF Tidy, Send
  <2>17. CASE Release(p)
    <3>1. proc' = [proc EXCEPT ![p] = [@ EXCEPT !.pc = "tidy"]] BY <2>17 DEF Release, Goto
    <3>. QED BY <1>2, <3>1 DEF PCs
  <2>18. CASE Forget(p)
    <3>1. Finish(p) \/ proc' = [proc EXCEPT ![p] = [@ EXCEPT !.pc = "tidy"]] BY <2>18 DEF Forget, Goto
    <3>. QED BY <1>2, <1>3, <3>1 DEF PCs
  <2>6. CASE Arm(p)
    <3>1. "load" \in PCs BY DEF PCs
    <3>2. proc' = [proc EXCEPT ![p] = [@ EXCEPT !.pc = "load"]] BY <2>6 DEF Arm, Goto
    <3>. QED BY <1>2, <3>1, <3>2
  <2>7. CASE LoadState(p)
    <3>. DEFINE r == [proc[p] EXCEPT !.pc = "evaluate", !.phase = phase[proc[p].server]]
    <3>1. phase[proc[p].server] \in Phases BY <2>1 DEF StateTypes, Process
    <3>2. r \in Process /\ r.task = proc[p].task /\ r.due = proc[p].due BY <2>1, <3>1 DEF Process, PCs
    <3>3. WellFormed(r) BY <2>1, <3>2 DEF WellFormed
    <3>4. proc' = [proc EXCEPT ![p] = r] BY <2>7 DEF LoadState
    <3>. QED BY <3>3, <3>4, OneStep
  <2>8. CASE Evaluate(p)
    <3>. DEFINE r == [proc[p] EXCEPT !.pc = "schedule", !.task = {[repeat |-> FALSE, count |-> 0]}]
    <3>1. [repeat |-> FALSE, count |-> 0] \in Task BY ConstantsAssumption DEF Task, Count
    <3>2. r \in Process /\ r.task = {[repeat |-> FALSE, count |-> 0]} /\ r.due = proc[p].due
      BY <2>1, <3>1 DEF Process, PCs
    <3>3. WellFormed(r) BY <2>1, <3>2 DEF WellFormed, Single
    <3>4. \/ proc' = [proc EXCEPT ![p] = r] \/ Finish(p)
          \/ proc' = [proc EXCEPT ![p] = [@ EXCEPT !.pc = "cancel"]]
      BY <2>8 DEF Evaluate, Goto
    <3>5. "cancel" \in PCs BY DEF PCs
    <3>. QED BY <1>2, <1>3, <3>3, <3>4, <3>5, OneStep
  <2>9. CASE ReadIndex(p)
    <3>1. PICK pc \in PCs : proc' = [proc EXCEPT ![p] = [proc[p] EXCEPT !.copy = index, !.pc = pc]]
      BY <2>9 DEF ReadIndex, PCs
    <3>. DEFINE r == [proc[p] EXCEPT !.copy = index, !.pc = pc]
    <3>2. r \in Process /\ r.task = proc[p].task /\ r.due = proc[p].due
      BY <2>1 DEF Process, IndexTypes
    <3>3. WellFormed(r) BY <2>1, <3>2 DEF WellFormed
    <3>. QED BY <3>1, <3>3, OneStep
  <2>10. CASE Put(p)
    <3>1. Done(p) \/ proc' = [proc EXCEPT ![p] = [@ EXCEPT !.pc = "notify"]] BY <2>10 DEF Put, Goto
    <3>2. "notify" \in PCs BY DEF PCs
    <3>. QED BY <1>2, <1>3, <3>1, <3>2
  <2>11. CASE Dispatch(p) BY <1>3, <2>11 DEF Dispatch
  <2>19. CASE Cancelled(p)
    <3>1. Done(p) \/ proc' = [proc EXCEPT ![p] = [@ EXCEPT !.pc = "forget"]] BY <2>19 DEF Cancelled, Goto
    <3>. QED BY <1>2, <1>3, <3>1 DEF PCs
  <2>12. CASE ReadDue(p)
    <3>. DEFINE r == [Idle EXCEPT !.pc = "remove", !.copy = index]
    <3>1. r \in Process /\ r.task = Idle.task /\ r.due = Idle.due
      BY <2>1 DEF WellFormed, Process, PCs, IndexTypes
    <3>2. WellFormed(r) BY <2>1, <3>1 DEF WellFormed
    <3>. QED BY <2>12, <3>2, OneStep DEF ReadDue
  <2>13. CASE RemoveDue(p)
    <3>. DEFINE due == {s \in Servers : proc[p].copy[s] = "due"}
                taken == [s \in Servers |-> IF s \in due THEN body[s] ELSE {}]
                r == [Idle EXCEPT !.pc = "work", !.due = taken]
    <3>1. taken \in [Servers -> SUBSET Task] /\ \A s \in Servers : Single(taken[s])
      BY DEF BodyTypes, Single
    <3>2. r \in Process /\ r.task = Idle.task /\ r.due = taken
      BY <2>1, <3>1 DEF WellFormed, Process, PCs
    <3>3. WellFormed(r) BY <2>1, <3>1, <3>2 DEF WellFormed
    <3>4. proc' = [proc EXCEPT ![p] = Idle] \/ proc' = [proc EXCEPT ![p] = r] BY <2>13 DEF RemoveDue
    <3>. QED BY <2>1, <3>3, <3>4, OneStep
  <2>14. ASSUME NEW s \in Servers, Work(p, s) PROVE ProcTypes'
    <3>. DEFINE left == [proc[p].due EXCEPT ![s] = {}]
                r == [proc[p] EXCEPT !.pc = "check", !.server = s, !.task = proc[p].due[s], !.due = left]
    <3>1. /\ proc[p].due \in [Servers -> SUBSET Task] /\ \A q \in Servers : Single(proc[p].due[q])
      BY <2>1 DEF WellFormed, Process
    <3>2. left \in [Servers -> SUBSET Task] /\ \A q \in Servers : Single(left[q])
      BY <3>1 DEF Single
    <3>3. r \in Process /\ r.task = proc[p].due[s] /\ r.due = left
      BY <2>1, <3>1, <3>2 DEF Process, PCs
    <3>4. WellFormed(r) BY <3>1, <3>2, <3>3 DEF WellFormed
    <3>5. proc' = [proc EXCEPT ![p] = r] BY <2>14 DEF Work
    <3>. QED BY <3>4, <3>5, OneStep
  <2>15. CASE CheckLive(p)
    <3>1. PICK pc \in PCs, on \in BOOLEAN :
            proc' = [proc EXCEPT ![p] = [proc[p] EXCEPT !.pc = pc, !.on = on]]
      <4>1. proc[p].server \in Servers BY <2>1 DEF Process
      <4>. QED BY <2>15, <4>1 DEF CheckLive, PCs
    <3>. DEFINE r == [proc[p] EXCEPT !.pc = pc, !.on = on]
    <3>2. r \in Process /\ r.task = proc[p].task /\ r.due = proc[p].due BY <2>1 DEF Process
    <3>3. WellFormed(r) BY <2>1, <3>2 DEF WellFormed
    <3>. QED BY <3>1, <3>3, OneStep
  <2>16. CASE Verify(p)
    <3>1. PICK t \in proc[p].task :
            \/ \E pc \in PCs : proc' = [proc EXCEPT ![p] = [proc[p] EXCEPT
                    !.pc = pc, !.task = {[t EXCEPT !.repeat = TRUE]}]]
            \/ proc' = [proc EXCEPT ![p] = [@ EXCEPT !.pc = "cancel"]]
      BY <2>16 DEF Verify, Goto, PCs
    <3>2. ASSUME NEW pc \in PCs, proc' = [proc EXCEPT ![p] = [proc[p] EXCEPT
                    !.pc = pc, !.task = {[t EXCEPT !.repeat = TRUE]}]]
          PROVE  ProcTypes'
      <4>. DEFINE r == [proc[p] EXCEPT !.pc = pc, !.task = {[t EXCEPT !.repeat = TRUE]}]
      <4>1. [t EXCEPT !.repeat = TRUE] \in Task BY <2>1 DEF Process, Task
      <4>2. r \in Process /\ r.task = {[t EXCEPT !.repeat = TRUE]} /\ r.due = proc[p].due
        BY <2>1, <4>1 DEF Process
      <4>3. WellFormed(r) BY <2>1, <4>2 DEF WellFormed, Single
      <4>. QED BY <3>2, <4>3, OneStep
    <3>3. "cancel" \in PCs BY DEF PCs
    <3>. QED BY <1>2, <3>1, <3>2, <3>3
  <2>. QED BY <1>4, <2>2, <2>3, <2>4, <2>5, <2>6, <2>7, <2>8, <2>9, <2>10, <2>11, <2>12, <2>13,
              <2>14, <2>15, <2>16, <2>17, <2>18, <2>19 DEF Step
<1>5. ASSUME NEW p \in Procs, Crash(p) PROVE ProcTypes' BY <1>3, <1>5 DEF Crash
<1>6. ASSUME NEW p \in Procs, NEW s \in Servers, Reset(p, s) PROVE ProcTypes'
  <2>. DEFINE r == [Idle EXCEPT !.pc = "cancel", !.server = s, !.on = TRUE]
  <2>1. r \in Process /\ r.task = Idle.task /\ r.due = Idle.due
    BY IdleWellFormed DEF WellFormed, Process, PCs
  <2>2. WellFormed(r) BY <2>1, IdleWellFormed DEF WellFormed
  <2>. QED BY <1>6, <2>2, OneStep DEF Reset
<1>7. \/ UNCHANGED proc \/ \E p \in Procs : Step(p) \/ Crash(p) \/ \E s \in Servers : Reset(p, s)
  BY DEF Next, vars, Flip, Heartbeat, TaskIsDue, ConfigSaved
<1>. QED BY <1>1, <1>4, <1>5, <1>6, <1>7

-----------------------------------------------------------------------------
(* The cache and the tables.                                               *)

LEMMA IndexTypesHold ==
  ASSUME Types, [Next]_vars
  PROVE  IndexTypes'
<1>. USE DEF Types
<1>1. CASE UNCHANGED index BY <1>1 DEF IndexTypes
<1>2. ASSUME NEW s \in Servers, TaskIsDue(s) PROVE IndexTypes'
  BY <1>2 DEF TaskIsDue, IndexTypes, Index
<1>3. CASE ConfigSaved BY <1>3 DEF ConfigSaved, IndexTypes, Index
<1>4. ASSUME NEW p \in Procs, Put(p) \/ Cancelled(p) \/ RemoveDue(p) PROVE IndexTypes'
  <2>1. Copied(p) \in Index /\ index \in Index BY CopiedIsIndex DEF IndexTypes
  <2>2. CASE Put(p)
    <3>1. index' = index \/ index' = [Copied(p) EXCEPT ![proc[p].server] = "later"]
      BY <2>2 DEF Put
    <3>. QED BY <2>1, <3>1 DEF IndexTypes, Index
  <2>3. CASE Cancelled(p)
    <3>1. PICK gone : index' = [r \in Servers |-> IF r \in gone THEN "absent" ELSE Copied(p)[r]]
      BY <2>3 DEF Cancelled
    <3>. QED BY <2>1, <3>1 DEF IndexTypes, Index
  <2>4. CASE RemoveDue(p)
    <3>1. PICK due : index' = [s \in Servers |-> IF s \in due THEN "absent" ELSE Copied(p)[s]]
      BY <2>4 DEF RemoveDue
    <3>. QED BY <2>1, <3>1 DEF IndexTypes, Index
  <2>. QED BY <1>4, <2>2, <2>3, <2>4
<1>5. \/ UNCHANGED index \/ (\E s \in Servers : TaskIsDue(s)) \/ ConfigSaved
      \/ \E p \in Procs : Put(p) \/ Cancelled(p) \/ RemoveDue(p)
  BY DEF Next, vars, cache, Flip, Heartbeat, Step, Crash, Reset, Take, ReadLatch, FindActive, Release, Tidy, Forget,
         Arm, LoadState, Evaluate, ReadIndex, ReadDue, Work, CheckLive, Verify, Dispatch, Send
<1>. QED BY <1>1, <1>2, <1>3, <1>4, <1>5

\* A task is written over the one that was there, never beside it.
LEMMA BodyTypesHold ==
  ASSUME Types, [Next]_vars
  PROVE  BodyTypes'
<1>. USE DEF Types
<1>1. CASE UNCHANGED body BY <1>1 DEF BodyTypes
<1>2. CASE ConfigSaved
  <2>1. body' = [s \in Servers |-> IF index[s] = "absent" THEN body[s] ELSE {}] BY <1>2 DEF ConfigSaved
  <2>. QED BY <2>1 DEF BodyTypes, Single
<1>3. ASSUME NEW p \in Procs, Put(p) PROVE BodyTypes'
  <2>1. WellFormed(proc[p]) BY DEF ProcTypes
  <2>2. proc[p].task \in SUBSET Task /\ Single(proc[p].task) BY <2>1 DEF WellFormed, Process
  <2>3. body' = body \/ body' = [body EXCEPT ![proc[p].server] = proc[p].task] BY <1>3 DEF Put
  <2>. QED BY <2>2, <2>3 DEF BodyTypes
<1>4. ASSUME NEW p \in Procs, Cancelled(p) PROVE BodyTypes'
  <2>1. body' = body \/ body' = [body EXCEPT ![proc[p].server] = {}] BY <1>4 DEF Cancelled
  <2>. QED BY <2>1 DEF BodyTypes, Single
<1>5. ASSUME NEW p \in Procs, RemoveDue(p) PROVE BodyTypes'
  <2>1. PICK due : body' = [s \in Servers |-> IF s \in due THEN {} ELSE body[s]] BY <1>5 DEF RemoveDue
  <2>. QED BY <2>1 DEF BodyTypes, Single
<1>6. \/ UNCHANGED body \/ ConfigSaved
      \/ \E p \in Procs : Put(p) \/ Cancelled(p) \/ RemoveDue(p)
  BY DEF Next, vars, cache, Flip, Heartbeat, TaskIsDue, Step, Crash, Reset, Take, ReadLatch, FindActive,
         Release, Tidy, Forget, Arm, LoadState, Evaluate, ReadIndex, ReadDue, Work, CheckLive, Verify, Dispatch, Send
<1>. QED BY <1>1, <1>2, <1>3, <1>4, <1>5, <1>6

LEMMA QueueTypesHold ==
  ASSUME Types, [Next]_vars
  PROVE  QueueTypes'
<1>1. queue \in Seq(Job) BY DEF Types, QueueTypes
<1>2. ASSUME NEW job \in Job, queue' = Append(queue, job) PROVE QueueTypes'
  BY <1>1, <1>2 DEF QueueTypes
<1>3. ASSUME NEW s \in Servers, Heartbeat(s) PROVE QueueTypes'
  <2>1. holds[s] \in BOOLEAN BY DEF Types, StateTypes
  <2>2. [kind |-> "evaluate", server |-> s, on |-> holds[s]] \in Job BY <2>1 DEF Job
  <2>. QED BY <1>2, <1>3, <2>2 DEF Heartbeat
<1>4. ASSUME NEW p \in Procs, Take(p) PROVE QueueTypes'
  BY <1>1, <1>4 DEF Take, QueueTypes
<1>5. ASSUME NEW p \in Procs, Dispatch(p) PROVE QueueTypes'
  <2>1. proc[p].server \in Servers BY DEF Types, ProcTypes, Process
  <2>2. [kind |-> "notify", server |-> proc[p].server, on |-> TRUE] \in Job BY <2>1 DEF Job
  <2>. QED BY <1>2, <1>5, <2>2 DEF Dispatch
<1>6. CASE UNCHANGED queue BY <1>1, <1>6 DEF QueueTypes
<1>7. UNCHANGED queue \/ (\E s \in Servers : Heartbeat(s)) \/ \E p \in Procs : Take(p) \/ Dispatch(p)
  BY DEF Next, vars, Flip, TaskIsDue, ConfigSaved, Step, Crash, Reset, ReadLatch, FindActive, Release, Tidy, Forget,
         Arm, LoadState, Evaluate, ReadIndex, Put, Cancelled, ReadDue, RemoveDue, Work, CheckLive,
         Verify, Send
<1>. QED BY <1>3, <1>4, <1>5, <1>6, <1>7

LEMMA StateTypesHold ==
  ASSUME Types, [Next]_vars
  PROVE  StateTypes'
<1>. USE DEF Types, StateTypes
<1>1. ASSUME NEW f \in [Servers -> BOOLEAN], NEW s, NEW b \in BOOLEAN
      PROVE  [f EXCEPT ![s] = b] \in [Servers -> BOOLEAN]
  OBVIOUS
<1>2. holds' \in [Servers -> BOOLEAN]
  <2>1. UNCHANGED holds \/ \E s \in Servers : Flip(s)
    BY DEF Next, vars, Heartbeat, TaskIsDue, ConfigSaved, Step, Crash, Reset, Take, ReadLatch,
           FindActive, Release, Tidy, Forget, Arm, LoadState, Evaluate, ReadIndex, Put, Cancelled, ReadDue, RemoveDue,
           Work, CheckLive, Verify, Dispatch, Send
  <2>2. ASSUME NEW s \in Servers, Flip(s) PROVE holds' \in [Servers -> BOOLEAN]
    <3>1. holds' = [holds EXCEPT ![s] = ~holds[s]] BY <2>2 DEF Flip
    <3>2. (~holds[s]) \in BOOLEAN BY Zenon
    <3>. QED BY <1>1, <3>1, <3>2
  <2>. QED BY <2>1, <2>2
<1>3. latch' \in [Servers -> BOOLEAN] /\ row' \in [Servers -> BOOLEAN]
  <2>1. \/ UNCHANGED <<latch, row>>
        \/ \E p \in Procs : Release(p) \/ Tidy(p) \/ Arm(p) \/ Forget(p) \/ Send(p)
    BY DEF Next, vars, states, Flip, Heartbeat, TaskIsDue, ConfigSaved, Step, Crash, Reset, Take,
           ReadLatch, FindActive, LoadState, Evaluate, ReadIndex, Put, Cancelled, ReadDue, RemoveDue, Work,
           CheckLive, Verify, Dispatch
  <2>2. ASSUME NEW p \in Procs, Release(p) \/ Tidy(p) \/ Arm(p) \/ Forget(p) \/ Send(p)
        PROVE  /\ latch' = latch \/ \E s, b : b \in BOOLEAN /\ latch' = [latch EXCEPT ![s] = b]
               /\ row' = row \/ \E s, b : b \in BOOLEAN /\ row' = [row EXCEPT ![s] = b]
    BY <2>2 DEF Release, Tidy, Arm, Forget, Send, states
  <2>. QED BY <1>1, <2>1, <2>2
<1>4. phase' \in [Servers -> Phases]
  <2>1. ASSUME NEW s, NEW f \in Phases PROVE [phase EXCEPT ![s] = f] \in [Servers -> Phases]
    OBVIOUS
  <2>2. UNCHANGED phase \/ \E p \in Procs : Evaluate(p) \/ Forget(p) \/ Verify(p)
    BY DEF Next, vars, states, Flip, Heartbeat, TaskIsDue, ConfigSaved, Step, Crash, Reset, Take,
           ReadLatch, FindActive, Release, Tidy, Arm, LoadState, ReadIndex, Put, Cancelled, ReadDue, RemoveDue,
           Work, CheckLive, Dispatch, Send
  <2>3. ASSUME NEW p \in Procs, Evaluate(p) PROVE \E s, f : f \in Phases /\ phase' = [phase EXCEPT ![s] = f]
    <3>1. proc[p].phase \in Phases BY DEF ProcTypes, Process
    <3>2. (IF ~proc[p].on THEN "idle" ELSE IF proc[p].phase = "idle" THEN "pending" ELSE proc[p].phase) \in Phases
      BY <3>1 DEF Phases
    <3>. QED BY <2>3, <3>2 DEF Evaluate
  <2>4. ASSUME NEW p \in Procs, Forget(p) \/ Verify(p)
        PROVE  phase' = phase \/ \E s, f : f \in Phases /\ phase' = [phase EXCEPT ![s] = f]
    BY <2>4 DEF Forget, Verify, Phases
  <2>. QED BY <2>1, <2>2, <2>3, <2>4
<1>. QED BY <1>2, <1>3, <1>4

LEMMA HistoryTypesHold ==
  ASSUME Types, [Next]_vars
  PROVE  HistoryTypes'
<1>. USE DEF Types, HistoryTypes
<1>1. sent' \in [Servers -> 0..MaxSent]
  <2>1. UNCHANGED sent \/ \E p \in Procs : Arm(p) \/ Dispatch(p)
    BY DEF Next, vars, history, Flip, Heartbeat, TaskIsDue, ConfigSaved, Step, Crash, Reset, Take,
           ReadLatch, FindActive, Release, Tidy, Forget, LoadState, Evaluate, ReadIndex, Put, Cancelled, ReadDue,
           RemoveDue, Work, CheckLive, Verify, Send
  <2>2. MaxSent \in Nat BY ConstantsAssumption DEF MaxSent
  <2>3. ASSUME NEW p \in Procs, Arm(p) PROVE sent' \in [Servers -> 0..MaxSent]
    <3>1. sent' = [sent EXCEPT ![proc[p].server] = 0] BY <2>3 DEF Arm
    <3>2. sent \in [Servers -> 0..MaxSent] /\ 0 \in 0..MaxSent BY <2>2
    <3>. QED BY <3>1, <3>2
  <2>4. ASSUME NEW p \in Procs, Dispatch(p) PROVE sent' \in [Servers -> 0..MaxSent]
    <3>. DEFINE s == proc[p].server
    <3>1. s \in Servers BY DEF ProcTypes, Process
    <3>2. sent' = [sent EXCEPT ![s] = IF sent[s] < MaxSent THEN sent[s] + 1 ELSE sent[s]]
      BY <2>4 DEF Dispatch
    <3>. QED BY <2>2, <3>1, <3>2
  <2>. QED BY <2>1, <2>3, <2>4
<1>2. mishap' \subseteq Servers
  <2>1. \/ UNCHANGED mishap \/ ConfigSaved
        \/ \E p \in Procs : Arm(p) \/ Evaluate(p) \/ Put(p) \/ Cancelled(p) \/ Forget(p) \/ RemoveDue(p) \/ Crash(p)
    BY DEF Next, vars, history, Flip, Heartbeat, TaskIsDue, Step, Reset, Take, ReadLatch, FindActive,
           Release, Tidy, Forget, LoadState, ReadIndex, ReadDue, Work, CheckLive, Verify, Dispatch, Send
  <2>2. ASSUME NEW p \in Procs,
               Arm(p) \/ Evaluate(p) \/ Put(p) \/ Cancelled(p) \/ Forget(p) \/ RemoveDue(p) \/ Crash(p)
        PROVE  mishap' \subseteq Servers
    <3>1. proc[p].server \in Servers BY DEF ProcTypes, Process
    <3>. QED BY <2>2, <3>1 DEF Arm, Evaluate, Put, Cancelled, Forget, RemoveDue, Crash, Overwritten
  <2>. QED BY <2>1, <2>2 DEF ConfigSaved
<1>3. orphans' \subseteq Servers
  <2>1. UNCHANGED orphans \/ \E p \in Procs : Tidy(p) \/ Forget(p) \/ Send(p) \/ Crash(p)
    BY DEF Next, vars, history, Flip, Heartbeat, TaskIsDue, ConfigSaved, Step, Reset, Take,
           ReadLatch, FindActive, Release, Arm, LoadState, Evaluate, ReadIndex, Put, Cancelled, ReadDue,
           RemoveDue, Work, CheckLive, Verify, Dispatch
  <2>2. ASSUME NEW p \in Procs, Tidy(p) \/ Forget(p) \/ Send(p) \/ Crash(p)
        PROVE  orphans' \subseteq Servers
    <3>1. proc[p].server \in Servers BY DEF ProcTypes, Process
    <3>. QED BY <2>2, <3>1 DEF Tidy, Forget, Send, Crash
  <2>. QED BY <2>1, <2>2
<1>4. flips' \in 0..MaxFlips
  <2>1. UNCHANGED flips \/ \E s \in Servers : Flip(s)
    BY DEF Next, vars, bounds, Heartbeat, TaskIsDue, ConfigSaved, Step, Crash, Reset, Take,
           ReadLatch, FindActive, Release, Tidy, Forget, Arm, LoadState, Evaluate, ReadIndex, Put, Cancelled, ReadDue,
           RemoveDue, Work, CheckLive, Verify, Dispatch, Send
  <2>2. UNCHANGED flips \/ (flips < MaxFlips /\ flips' = flips + 1) BY <2>1 DEF Flip
  <2>3. flips \in 0..MaxFlips /\ MaxFlips \in Nat BY ConstantsAssumption
  <2>. QED BY <2>2, <2>3
<1>5. mishaps' \in 0..MaxMishaps
  <2>1. UNCHANGED mishaps \/ ConfigSaved \/ \E p \in Procs : Crash(p) \/ \E s \in Servers : Reset(p, s)
    BY DEF Next, vars, bounds, Flip, Heartbeat, TaskIsDue, Step, Take, ReadLatch, FindActive, Release, Tidy, Forget,
           Arm, LoadState, Evaluate, ReadIndex, Put, Cancelled, ReadDue, RemoveDue, Work, CheckLive,
           Verify, Dispatch, Send
  <2>2. UNCHANGED mishaps \/ (mishaps < MaxMishaps /\ mishaps' = mishaps + 1)
    BY <2>1 DEF ConfigSaved, Crash, Reset
  <2>3. mishaps \in 0..MaxMishaps /\ MaxMishaps \in Nat BY ConstantsAssumption
  <2>. QED BY <2>2, <2>3
<1>. QED BY <1>1, <1>2, <1>3, <1>4, <1>5

LEMMA InitTypes == Init => Types
<1>. SUFFICES ASSUME Init PROVE Types
  OBVIOUS
<1>1. ProcTypes
  <2>1. proc = [p \in Procs |-> Idle] /\ Idle \in Process BY IdleWellFormed DEF Init, WellFormed
  <2>. QED BY <2>1, IdleWellFormed DEF ProcTypes
<1>2. BodyTypes BY DEF Init, NoTasks, BodyTypes, Single
<1>3. HistoryTypes
  <2>1. 0 \in 0..MaxSent BY ConstantsAssumption DEF MaxSent
  <2>. QED BY <2>1, ConstantsAssumption DEF Init, HistoryTypes
<1>4. StateTypes /\ IndexTypes /\ QueueTypes
  BY DEF Init, StateTypes, IndexTypes, Index, QueueTypes, Phases
<1>. QED BY <1>1, <1>2, <1>3, <1>4 DEF Types

\* The states of the engine keep their types and a server never has two tasks of
\* one branch, however the writers of the index interleave (schedule, cancelByNode,
\* fireDue).
THEOREM TypeCorrect == Spec => []TypeOK
<1>1. Types /\ [Next]_vars => Types'
  BY StateTypesHold, IndexTypesHold, BodyTypesHold, QueueTypesHold, ProcTypesHold, HistoryTypesHold DEF Types
<1>. QED BY <1>1, InitTypes, TypesImplyTypeOK, PTL DEF Spec


-----------------------------------------------------------------------------
(* Phase and task. While nothing has gone wrong with a server, one process *)
(* at most is at its incident: it starts the sustain window, or it has the *)
(* task in its hands; with none of both, the task is in the cache as long  *)
(* as the phase is not idle. A cancellation under way will be a mishap.    *)

Carrying(r, s) ==
  r.due[s] # {} \/ (r.pc \in {"schedule", "put", "check", "verify"} /\ r.server = s)
Starting(r, s) == r.pc \in {"load", "evaluate"} /\ r.on /\ r.server = s
Cancelling(r, s) == r.pc \in {"cancel", "cancelled", "forget"} /\ r.server = s

Engaged(p, s) == Carrying(proc[p], s) \/ Starting(proc[p], s)

OneEngaged(s) == \A p, q \in Procs : Engaged(p, s) /\ Engaged(q, s) => p = q
StartsAfresh(s) ==
  \A p \in Procs : Starting(proc[p], s) =>
    /\ phase[s] = "idle" /\ index[s] = "absent"
    /\ proc[p].pc = "evaluate" => proc[p].phase = "idle"
CarriesTask(s) ==
  \A p \in Procs : Carrying(proc[p], s) =>
    /\ phase[s] # "idle" /\ index[s] = "absent"
    /\ proc[p].pc = "put" /\ proc[p].server = s => proc[p].copy[s] = "absent"
TaskSomewhere(s) ==
  phase[s] # "idle" => index[s] # "absent" \/ \E p \in Procs : Carrying(proc[p], s)
TaskHasPhase(s) == index[s] # "absent" => phase[s] # "idle" /\ body[s] # {}

Owned(s) ==
  OneEngaged(s) /\ StartsAfresh(s) /\ CarriesTask(s) /\ TaskSomewhere(s) /\ TaskHasPhase(s)
InOrder(s) == Owned(s) \/ \E p \in Procs : Cancelling(proc[p], s)

\* What a process has in its hands, from the place it is at.
Handy(p, r) ==
  /\ r.pc = "remove" => p \in Sweeps
  /\ p \notin Sweeps \/ r.pc \in {"idle", "remove", "latch", "active", "release", "arm", "load", "evaluate"}
       => r.due = NoTasks
  /\ r.pc # "work" => r.due[r.server] = {}
  /\ r.pc \in {"schedule", "put", "check", "verify"} => r.task # {}

PhaseInv ==
  /\ Types
  /\ \A p \in Procs : Handy(p, proc[p])
  /\ \A s \in Servers : s \notin mishap => InOrder(s)

LEMMA PhaseInvImpliesPhaseHasTask == PhaseInv => PhaseHasTask
<1> SUFFICES ASSUME PhaseInv, NEW s \in Servers, ~Busy(s), s \notin mishap
             PROVE  (phase[s] # "idle") = Scheduled(s)
  BY DEF PhaseHasTask
<1>1. \A p \in Procs : ~Carrying(proc[p], s) /\ ~Cancelling(proc[p], s)
  BY DEF Busy, HeldBy, Carrying, Cancelling
<1>2. Owned(s)
  BY <1>1 DEF PhaseInv, InOrder
<1> QED
  BY <1>1, <1>2 DEF Owned, TaskSomewhere, TaskHasPhase, Scheduled

\* The cache and the phase of s say the same before and after.
SameTask(s) ==
  /\ phase'[s] = "idle" <=> phase[s] = "idle"
  /\ index'[s] = "absent" <=> index[s] = "absent"
  /\ index[s] # "absent" => body'[s] # {}

\* The process that takes the step has as much to do with s as before.
SamePart(p, r, s) ==
  /\ Cancelling(proc[p], s) => Cancelling(r, s)
  /\ Carrying(r, s) <=> Carrying(proc[p], s)
  /\ Starting(r, s) => Starting(proc[p], s)
  /\ r.pc = "evaluate" /\ r.server = s => r.phase = phase[s]
  /\ r.pc = "put" /\ r.server = s => r.copy[s] = index[s]

Moves(p, r) == \A q \in Procs : proc'[q] = IF q = p THEN r ELSE proc[q]

LEMMA StaysInOrder ==
  ASSUME NEW s \in Servers, NEW p \in Procs, NEW r, Moves(p, r), InOrder(s),
         SamePart(p, r, s), Owned(s) => SameTask(s)
  PROVE  InOrder(s)'
<1>1. CASE \E q \in Procs : Cancelling(proc[q], s)
  <2>1. PICK q \in Procs : Cancelling(proc[q], s)
    BY <1>1
  <2>2. Cancelling(proc'[q], s)
    BY <2>1 DEF Moves, SamePart
  <2> QED
    BY <2>2 DEF InOrder
<1>2. CASE Owned(s)
  <2>1. SameTask(s)
    BY <1>2
  <2>2. \A q \in Procs : /\ Carrying(proc'[q], s) <=> Carrying(proc[q], s)
                         /\ Starting(proc'[q], s) => Starting(proc[q], s)
    BY DEF Moves, SamePart
  <2>3. OneEngaged(s)'
    BY <1>2, <2>2 DEF Owned, OneEngaged, Engaged
  <2>4. StartsAfresh(s)'
    <3>1. SUFFICES ASSUME NEW q \in Procs, Starting(proc'[q], s)
                   PROVE  /\ phase'[s] = "idle" /\ index'[s] = "absent"
                          /\ proc'[q].pc = "evaluate" => proc'[q].phase = "idle"
      BY DEF StartsAfresh
    <3>2. /\ phase[s] = "idle" /\ index[s] = "absent"
          /\ proc[q].pc = "evaluate" => proc[q].phase = "idle"
      BY <1>2, <2>2, <3>1 DEF Owned, StartsAfresh
    <3>3. proc'[q].pc = "evaluate" => proc'[q].phase = "idle"
      <4>1. CASE q = p
        BY <3>1, <3>2, <4>1 DEF Moves, SamePart, Starting
      <4>2. CASE q # p
        BY <3>2, <4>2 DEF Moves
      <4> QED
        BY <4>1, <4>2
    <3> QED
      BY <2>1, <3>2, <3>3 DEF SameTask
  <2>5. CarriesTask(s)'
    <3>1. SUFFICES ASSUME NEW q \in Procs, Carrying(proc'[q], s)
                   PROVE  /\ phase'[s] # "idle" /\ index'[s] = "absent"
                          /\ proc'[q].pc = "put" /\ proc'[q].server = s
                               => proc'[q].copy[s] = "absent"
      BY DEF CarriesTask
    <3>2. /\ phase[s] # "idle" /\ index[s] = "absent"
          /\ proc[q].pc = "put" /\ proc[q].server = s => proc[q].copy[s] = "absent"
      BY <1>2, <2>2, <3>1 DEF Owned, CarriesTask
    <3> QED
      BY <2>1, <3>2 DEF SameTask, Moves, SamePart
  <2>6. TaskSomewhere(s)' /\ TaskHasPhase(s)'
    BY <1>2, <2>1, <2>2 DEF Owned, TaskSomewhere, TaskHasPhase, SameTask
  <2> QED
    BY <2>3, <2>4, <2>5, <2>6 DEF InOrder, Owned
<1> QED
  BY <1>1, <1>2 DEF InOrder

\* A process that is about to cancel puts the server in order for the time being.
LEMMA CancellingIsInOrder ==
  ASSUME NEW s \in Servers, NEW p \in Procs, NEW r, Moves(p, r), Cancelling(r, s)
  PROVE  InOrder(s)'
BY DEF Moves, InOrder

\* The only process engaged with s passes its part on.
LEMMA LastEngaged ==
  ASSUME NEW s \in Servers, NEW p \in Procs, NEW r, Moves(p, r), Owned(s), Engaged(p, s)
  PROVE  /\ \A q \in Procs : q # p => ~Carrying(proc'[q], s) /\ ~Starting(proc'[q], s)
         /\ Carrying(proc'[p], s) <=> Carrying(r, s)
         /\ Starting(proc'[p], s) <=> Starting(r, s)
         /\ index[s] = "absent"
BY DEF Moves, Owned, OneEngaged, Engaged, StartsAfresh, CarriesTask

-----------------------------------------------------------------------------
(* Steps that change neither phase nor task                                *)

Kept ==
  /\ \A p \in Procs : Handy(p, proc'[p])
  /\ \A s \in Servers : s \notin mishap' => InOrder(s)'

LEMMA StepKept ==
  ASSUME PhaseInv, NEW p \in Procs, NEW r, Moves(p, r), Handy(p, r),
         \A s \in Servers : s \notin mishap' => InOrder(s)'
  PROVE  Kept
BY DEF Kept, PhaseInv, Moves

LEMMA QuietStep ==
  ASSUME PhaseInv, NEW p \in Procs, NEW r, Moves(p, r), Handy(p, r),
         UNCHANGED <<phase, index, body>>, mishap \subseteq mishap',
         \A s \in Servers : s \notin mishap' => SamePart(p, r, s) \/ Cancelling(r, s)
  PROVE  Kept
<1>1. ASSUME NEW s \in Servers, s \notin mishap'
      PROVE  InOrder(s)'
  <2>1. InOrder(s)
    BY <1>1 DEF PhaseInv
  <2>2. Owned(s) => SameTask(s)
    BY DEF Owned, TaskHasPhase, SameTask
  <2> QED
    BY <1>1, <2>1, <2>2, StaysInOrder, CancellingIsInOrder
<1> QED
  BY <1>1, StepKept

LEMMA ProcessIs ==
  ASSUME PhaseInv, NEW p \in Procs
  PROVE  /\ proc[p] \in Process /\ Handy(p, proc[p])
         /\ proc[p].server \in Servers
         /\ proc[p].due \in [Servers -> SUBSET Task]
         /\ \A r : proc' = [proc EXCEPT ![p] = r] => Moves(p, r)
BY DEF PhaseInv, Types, ProcTypes, Process, Moves

LEMMA MovedTo ==
  ASSUME NEW r \in Process, NEW pc
  PROVE  LET q == [r EXCEPT !.pc = pc]
         IN  /\ q.pc = pc /\ q.server = r.server /\ q.on = r.on /\ q.phase = r.phase
             /\ q.copy = r.copy /\ q.due = r.due /\ q.task = r.task
BY DEF Process

LEMMA IdleIs ==
  /\ Idle.pc = "idle" /\ Idle.due = NoTasks /\ Idle.server \in Servers
  /\ \A s \in Servers : NoTasks[s] = {}
  /\ \A p : Handy(p, Idle)
<1>1. /\ Idle.pc = "idle" /\ Idle.due = NoTasks /\ Idle.server \in Servers
      /\ \A s \in Servers : NoTasks[s] = {}
  BY IdleWellFormed DEF Idle, NoTasks, WellFormed, Process
<1> QED
  BY <1>1 DEF Handy

LEMMA RestIs ==
  ASSUME PhaseInv, NEW p \in Procs
  PROVE  /\ Rest(p).pc \in {"idle", "work"} /\ Rest(p).due = proc[p].due
         /\ Handy(p, Rest(p))
<1>1. CASE p \in Sweeps /\ proc[p].due # NoTasks
  <2>1. Rest(p) = [Idle EXCEPT !.pc = "work", !.due = proc[p].due]
    BY <1>1 DEF Rest
  <2>2. Rest(p).pc = "work" /\ Rest(p).due = proc[p].due
    BY <2>1 DEF Idle
  <2> QED
    BY <1>1, <2>2 DEF Handy
<1>2. CASE ~(p \in Sweeps /\ proc[p].due # NoTasks)
  <2>1. Rest(p) = Idle /\ proc[p].due = NoTasks
    BY <1>2, ProcessIs DEF Rest, Handy
  <2> QED
    BY <2>1, IdleIs
<1> QED
  BY <1>1, <1>2

\* Where a process does nothing for any server but hold the tasks it took.
Aside == {"idle", "latch", "active", "release", "tidy", "arm", "remove", "work", "notify"}

LEMMA AsideSamePart ==
  ASSUME NEW p, NEW r, NEW s, r.pc \in Aside, proc[p].pc \in Aside \cup {"load", "evaluate"},
         r.due[s] = proc[p].due[s]
  PROVE  SamePart(p, r, s)
BY DEF Aside, SamePart, Carrying, Starting, Cancelling

LEMMA HeartbeatSteps ==
  ASSUME PhaseInv, NEW p \in Procs,
         Take(p) \/ ReadLatch(p) \/ FindActive(p) \/ Release(p) \/ LoadState(p)
  PROVE  Kept
<1>0. /\ proc[p] \in Process /\ Handy(p, proc[p]) /\ proc[p].server \in Servers
      /\ \A r : proc' = [proc EXCEPT ![p] = r] => Moves(p, r)
  BY ProcessIs
<1>1. UNCHANGED <<phase, index, body, mishap>>
  BY DEF Take, ReadLatch, FindActive, Release, LoadState, states, cache, history
<1>2. proc[p].pc \in {"idle", "latch", "active", "release", "load"} /\ proc[p].due = NoTasks
  BY <1>0 DEF Take, ReadLatch, FindActive, Release, LoadState, Handy
<1>3. CASE Take(p)
  <2> DEFINE r == [Idle EXCEPT !.pc = IF Head(queue).kind = "evaluate" THEN "latch" ELSE "notify",
                               !.server = Head(queue).server, !.on = Head(queue).on]
  <2>1. Moves(p, r) /\ p \in Workers
    BY <1>0, <1>3 DEF Take
  <2>2. Head(queue).server \in Servers
    <3>1. Head(queue) \in Job
      BY <1>3 DEF Take, PhaseInv, Types, QueueTypes
    <3> QED
      BY <3>1 DEF Job
  <2>3. r.pc \in {"latch", "notify"} /\ r.due = NoTasks /\ r.server \in Servers
    BY <2>2 DEF Idle
  <2>4. Handy(p, r)
    BY <2>3, IdleIs DEF Handy
  <2>5. \A s \in Servers : SamePart(p, r, s)
    BY <1>2, <2>3, IdleIs DEF SamePart, Carrying, Starting, Cancelling
  <2> QED
    BY <1>1, <2>1, <2>4, <2>5, QuietStep
<1>4. ASSUME Finish(p)
      PROVE  Kept
  <2>1. Moves(p, Idle)
    BY <1>0, <1>4 DEF Finish
  <2>2. \A s \in Servers : SamePart(p, Idle, s)
    BY <1>2, IdleIs, AsideSamePart DEF Aside
  <2> QED
    BY <1>1, <2>1, <2>2, IdleIs, QuietStep
<1>5. ASSUME NEW pc \in {"active", "arm", "load", "release", "tidy"}, Goto(p, pc),
             pc = "load" => ~proc[p].on
      PROVE  Kept
  <2> DEFINE r == [proc[p] EXCEPT !.pc = pc]
  <2>1. Moves(p, r)
    BY <1>0, <1>5 DEF Goto
  <2>2. /\ r.pc = pc /\ r.server = proc[p].server /\ r.on = proc[p].on /\ r.due = NoTasks
    BY <1>0, <1>2, MovedTo
  <2>3. Handy(p, r)
    BY <1>0, <1>5, <2>2, IdleIs DEF Handy
  <2>4. \A s \in Servers : SamePart(p, r, s)
    BY <1>2, <1>5, <2>2, IdleIs DEF SamePart, Carrying, Starting, Cancelling
  <2> QED
    BY <1>1, <2>1, <2>3, <2>4, QuietStep
<1>6. CASE ReadLatch(p) \/ FindActive(p) \/ Release(p)
  BY <1>4, <1>5, <1>6 DEF ReadLatch, FindActive, Release
<1>7. CASE LoadState(p)
  <2> DEFINE r == [proc[p] EXCEPT !.pc = "evaluate", !.phase = phase[proc[p].server]]
  <2>1. Moves(p, r)
    BY <1>0, <1>7 DEF LoadState
  <2>2. /\ r.pc = "evaluate" /\ r.server = proc[p].server /\ r.on = proc[p].on
        /\ r.due = NoTasks /\ r.phase = phase[proc[p].server]
    BY <1>0, <1>2 DEF Process
  <2>3. Handy(p, r)
    BY <1>0, <2>2, IdleIs DEF Handy
  <2>4. \A s \in Servers : SamePart(p, r, s)
    BY <1>7, <1>2, <2>2, IdleIs DEF LoadState, SamePart, Carrying, Starting, Cancelling
  <2> QED
    BY <1>1, <2>1, <2>3, <2>4, QuietStep
<1> QED
  BY <1>3, <1>6, <1>7

LEMMA SweepSteps ==
  ASSUME PhaseInv, NEW p \in Procs,
         ReadIndex(p) \/ ReadDue(p) \/ CheckLive(p) \/ \E s \in Servers : Work(p, s)
  PROVE  Kept
<1>0. /\ proc[p] \in Process /\ Handy(p, proc[p]) /\ proc[p].server \in Servers
      /\ proc[p].due \in [Servers -> SUBSET Task]
      /\ \A r : proc' = [proc EXCEPT ![p] = r] => Moves(p, r)
  BY ProcessIs
<1>1. UNCHANGED <<phase, index, body, mishap>>
  BY DEF ReadIndex, ReadDue, CheckLive, Work, states, cache, history
<1>2. CASE ReadIndex(p)
  <2> DEFINE r == [proc[p] EXCEPT !.copy = index,
                      !.pc = IF proc[p].pc = "schedule" THEN "put" ELSE "cancelled"]
  <2>1. Moves(p, r) /\ proc[p].pc \in {"schedule", "cancel"}
    BY <1>0, <1>2 DEF ReadIndex
  <2>2. /\ r.pc = IF proc[p].pc = "schedule" THEN "put" ELSE "cancelled"
        /\ r.server = proc[p].server /\ r.due = proc[p].due /\ r.task = proc[p].task
        /\ r.copy = index
    BY <1>0 DEF Process
  <2>3. Handy(p, r)
    BY <1>0, <2>1, <2>2 DEF Handy
  <2>4. \A s \in Servers : SamePart(p, r, s)
    BY <2>1, <2>2 DEF SamePart, Carrying, Starting, Cancelling
  <2> QED
    BY <1>1, <2>1, <2>3, <2>4, QuietStep
<1>3. CASE ReadDue(p)
  <2> DEFINE r == [Idle EXCEPT !.pc = "remove", !.copy = index]
  <2>1. Moves(p, r) /\ proc[p].pc = "idle" /\ p \in Sweeps /\ proc[p].due = NoTasks
    BY <1>0, <1>3 DEF ReadDue, Handy
  <2>2. r.pc = "remove" /\ r.due = NoTasks /\ r.server \in Servers
    BY IdleIs DEF Idle
  <2>3. Handy(p, r)
    BY <2>1, <2>2, IdleIs DEF Handy
  <2>4. \A s \in Servers : SamePart(p, r, s)
    BY <2>1, <2>2, IdleIs DEF SamePart, Carrying, Starting, Cancelling
  <2> QED
    BY <1>1, <2>1, <2>3, <2>4, QuietStep
<1>4. CASE CheckLive(p)
  <2> DEFINE s == proc[p].server
             r == [proc[p] EXCEPT !.pc = IF holds[s] THEN "verify" ELSE "cancel", !.on = ~holds[s]]
  <2>1. Moves(p, r) /\ proc[p].pc = "check"
    BY <1>0, <1>4 DEF CheckLive
  <2>2. /\ r.pc = IF holds[s] THEN "verify" ELSE "cancel"
        /\ r.server = s /\ r.due = proc[p].due /\ r.task = proc[p].task
    BY <1>0 DEF Process
  <2>3. Handy(p, r)
    BY <1>0, <2>1, <2>2 DEF Handy
  <2>4. \A q \in Servers : SamePart(p, r, q) \/ Cancelling(r, q)
    BY <2>1, <2>2 DEF SamePart, Carrying, Starting, Cancelling
  <2> QED
    BY <1>1, <2>1, <2>3, <2>4, QuietStep
<1>5. ASSUME NEW s \in Servers, Work(p, s)
      PROVE  Kept
  <2> DEFINE left == [proc[p].due EXCEPT ![s] = {}]
             r == [proc[p] EXCEPT !.pc = "check", !.server = s, !.task = proc[p].due[s], !.due = left]
  <2>1. Moves(p, r) /\ proc[p].pc = "work" /\ proc[p].due[s] # {}
    BY <1>0, <1>5 DEF Work
  <2>2. r.pc = "check" /\ r.server = s /\ r.due = left /\ r.task = proc[p].due[s]
    BY <1>0 DEF Process
  <2>3. left[s] = {} /\ \A q \in Servers : q # s => left[q] = proc[p].due[q]
    BY <1>0
  <2>4. p \in Sweeps
    BY <1>0, <2>1, IdleIs DEF Handy
  <2>5. Handy(p, r)
    BY <2>1, <2>2, <2>3, <2>4 DEF Handy
  <2>6. \A q \in Servers : SamePart(p, r, q)
    BY <2>1, <2>2, <2>3 DEF SamePart, Carrying, Starting, Cancelling
  <2> QED
    BY <1>1, <2>1, <2>5, <2>6, QuietStep
<1> QED
  BY <1>2, <1>3, <1>4, <1>5

LEMMA OtherSteps ==
  ASSUME PhaseInv, NEW p \in Procs,
         Dispatch(p) \/ Tidy(p) \/ Send(p) \/ Crash(p) \/ \E s \in Servers : Reset(p, s)
  PROVE  Kept
<1>0. /\ proc[p] \in Process /\ Handy(p, proc[p]) /\ proc[p].server \in Servers
      /\ \A r : proc' = [proc EXCEPT ![p] = r] => Moves(p, r)
  BY ProcessIs
<1>1. UNCHANGED <<phase, index, body>> /\ mishap \subseteq mishap'
  BY DEF Dispatch, Tidy, Send, Crash, Reset, states, cache, history
<1>2. CASE Dispatch(p) \/ Tidy(p)
  <2>1. Moves(p, Rest(p)) /\ proc[p].pc \in {"notify", "tidy"}
    BY <1>0, <1>2 DEF Dispatch, Tidy, Done
  <2>2. \A s \in Servers : SamePart(p, Rest(p), s)
    BY <2>1, RestIs, AsideSamePart DEF Aside
  <2> QED
    BY <1>1, <2>1, <2>2, RestIs, QuietStep
<1>3. CASE Send(p)
  <2>1. Moves(p, Idle) /\ proc[p].pc = "notify" /\ p \in Workers
    BY <1>0, <1>3 DEF Send, Finish
  <2>2. proc[p].due = NoTasks
    BY <1>0, <2>1, ConstantsAssumption DEF Handy
  <2>3. \A s \in Servers : SamePart(p, Idle, s)
    BY <2>1, <2>2, IdleIs, AsideSamePart DEF Aside
  <2> QED
    BY <1>1, <2>1, <2>3, IdleIs, QuietStep
<1>4. CASE Crash(p)
  <2>1. Moves(p, Idle)
    BY <1>0, <1>4 DEF Crash, Finish
  <2>2. \A s \in Servers : s \notin mishap' => proc[p].due[s] = {} /\ proc[p].server # s
    BY <1>4 DEF Crash
  <2>3. \A s \in Servers : s \notin mishap' => SamePart(p, Idle, s)
    BY <2>2, IdleIs DEF SamePart, Carrying, Starting, Cancelling
  <2> QED
    BY <1>1, <2>1, <2>3, IdleIs, QuietStep
<1>5. ASSUME NEW s \in Servers, Reset(p, s)
      PROVE  Kept
  <2> DEFINE r == [Idle EXCEPT !.pc = "cancel", !.server = s, !.on = TRUE]
  <2>1. Moves(p, r) /\ proc[p].pc = "idle" /\ proc[p].due = NoTasks
    BY <1>0, <1>5 DEF Reset, Handy
  <2>2. r.pc = "cancel" /\ r.server = s /\ r.due = NoTasks
    BY DEF Idle
  <2>3. Handy(p, r)
    BY <2>2, IdleIs DEF Handy
  <2>4. \A q \in Servers : SamePart(p, r, q) \/ Cancelling(r, q)
    BY <2>1, <2>2, IdleIs DEF SamePart, Carrying, Starting, Cancelling
  <2> QED
    BY <1>1, <2>1, <2>3, <2>4, QuietStep
<1> QED
  BY <1>2, <1>3, <1>4, <1>5

-----------------------------------------------------------------------------
(* Steps that change the phase or the task                                 *)

\* What a step does not touch stays in order; what it does is argued for.
LEMMA ChangingStep ==
  ASSUME PhaseInv, NEW p \in Procs, NEW r, Moves(p, r), Handy(p, r), mishap \subseteq mishap',
         \A s \in Servers : s \notin mishap' =>
            \/ SamePart(p, r, s) /\ (Owned(s) => SameTask(s))
            \/ Cancelling(r, s)
            \/ ~Cancelling(proc[p], s) /\ (Owned(s) => Owned(s)')
  PROVE  Kept
<1>1. ASSUME NEW s \in Servers, s \notin mishap'
      PROVE  InOrder(s)'
  <2>1. InOrder(s)
    BY <1>1 DEF PhaseInv
  <2>2. CASE ~Cancelling(proc[p], s) /\ (Owned(s) => Owned(s)')
    <3>1. CASE Owned(s)
      BY <2>2, <3>1 DEF InOrder
    <3>2. CASE \E q \in Procs : Cancelling(proc[q], s)
      <4>1. PICK q \in Procs : Cancelling(proc[q], s)
        BY <3>2
      <4>2. proc'[q] = proc[q]
        BY <2>2, <4>1 DEF Moves
      <4> QED
        BY <4>1, <4>2 DEF InOrder
    <3> QED
      BY <2>1, <3>1, <3>2 DEF InOrder
  <2> QED
    BY <1>1, <2>1, <2>2, StaysInOrder, CancellingIsInOrder
<1> QED
  BY <1>1, StepKept

\* A branch that is armed with nothing left over has one process at it.
LEMMA ArmStep ==
  ASSUME PhaseInv, NEW p \in Procs, Arm(p)
  PROVE  Kept
<1>a. PICK n \in Servers : n = proc[p].server
  BY ProcessIs
<1> DEFINE r == [proc[p] EXCEPT !.pc = "load"]
           leftOver == phase[n] # "idle" \/ index[n] # "absent" \/ HeldBy(n, Procs \ {p})
<1>0. /\ proc[p] \in Process /\ Handy(p, proc[p]) /\ n \in Servers
      /\ Moves(p, r)
  BY <1>a, ProcessIs DEF Arm, Goto
<1>1. /\ proc[p].pc = "arm" /\ UNCHANGED <<phase, index, body>>
      /\ mishap' = IF leftOver THEN mishap \cup {n} ELSE mishap \ {n}
  BY <1>a DEF Arm, cache
<1>2. proc[p].due = NoTasks
  BY <1>0, <1>1 DEF Handy
<1>3. r.pc = "load" /\ r.server = n /\ r.due = NoTasks
  BY <1>a, <1>0, <1>2, MovedTo
<1>4. Handy(p, r)
  BY <1>0, <1>3, IdleIs DEF Handy
<1>5. ASSUME NEW s \in Servers, s # n, s \notin mishap
      PROVE  InOrder(s)'
  <2>1. SamePart(p, r, s)
    BY <1>a, <1>1, <1>2, <1>3, <1>5, IdleIs DEF SamePart, Carrying, Starting, Cancelling
  <2>2. Owned(s) => SameTask(s)
    BY <1>1 DEF Owned, TaskHasPhase, SameTask
  <2> QED
    BY <1>0, <1>5, <2>1, <2>2, StaysInOrder DEF PhaseInv
<1>6. ASSUME n \notin mishap'
      PROVE  InOrder(n)'
  <2>1. ~leftOver
    BY <1>1, <1>6
  <2>2. phase'[n] = "idle" /\ index'[n] = "absent"
    BY <1>1, <2>1
  <2>3. \A q \in Procs : q # p => ~Carrying(proc'[q], n) /\ ~Starting(proc'[q], n)
    BY <1>0, <2>1 DEF HeldBy, Moves, Carrying, Starting
  <2>4. ~Carrying(proc'[p], n) /\ proc'[p].pc = "load"
    BY <1>0, <1>3, IdleIs DEF Moves, Carrying
  <2>5. OneEngaged(n)'
    BY <2>3, <2>4 DEF OneEngaged, Engaged
  <2>6. StartsAfresh(n)'
    BY <2>2, <2>3, <2>4 DEF StartsAfresh
  <2>7. CarriesTask(n)' /\ TaskSomewhere(n)' /\ TaskHasPhase(n)'
    BY <2>2, <2>3, <2>4 DEF CarriesTask, TaskSomewhere, TaskHasPhase
  <2> QED
    BY <2>5, <2>6, <2>7 DEF InOrder, Owned
<1>7. \A s \in Servers : s \notin mishap' => InOrder(s)'
  BY <1>1, <1>5, <1>6
<1> QED
  BY <1>0, <1>4, <1>7, StepKept

\* The evaluation that starts the window takes the part of the task it will schedule;
\* one that writes over a result it has not seen is a mishap.
LEMMA EvaluateStep ==
  ASSUME PhaseInv, NEW p \in Procs, Evaluate(p)
  PROVE  Kept
<1>a. PICK n \in Servers : n = proc[p].server
  BY ProcessIs
<1> DEFINE was == proc[p].phase
           next == IF ~proc[p].on THEN "idle" ELSE IF was = "idle" THEN "pending" ELSE was
<1>0. /\ proc[p] \in Process /\ Handy(p, proc[p])
      /\ \A r : proc' = [proc EXCEPT ![p] = r] => Moves(p, r)
      /\ phase \in [Servers -> Phases]
  BY ProcessIs DEF PhaseInv, Types, StateTypes
<1>1. /\ proc[p].pc = "evaluate" /\ UNCHANGED <<index, body>>
      /\ phase' = [phase EXCEPT ![n] = next]
      /\ mishap' = IF phase[n] # was THEN mishap \cup {n} ELSE mishap
  BY <1>a DEF Evaluate, Outdated, cache
<1>2. proc[p].due = NoTasks
  BY <1>0, <1>1 DEF Handy
<1>3. \A s \in Servers : s # n /\ Owned(s) => SameTask(s)
  BY <1>0, <1>1 DEF Owned, TaskHasPhase, SameTask
<1>4. n \notin mishap' => phase[n] = was
  BY <1>1
<1>5. phase'[n] = next
  BY <1>0, <1>1
<1>6. CASE proc[p].on /\ was = "idle"
  <2> DEFINE r == [proc[p] EXCEPT !.pc = "schedule", !.task = {[repeat |-> FALSE, count |-> 0]}]
  <2>1. Moves(p, r)
    BY <1>0, <1>6 DEF Evaluate
  <2>2. r.pc = "schedule" /\ r.server = n /\ r.due = NoTasks /\ r.task # {}
    BY <1>a, <1>0, <1>2 DEF Process
  <2>3. Handy(p, r)
    BY <1>0, <1>1, <2>2, IdleIs DEF Handy
  <2>4. \A s \in Servers : s # n => SamePart(p, r, s)
    BY <1>a, <1>1, <1>2, <2>2, IdleIs DEF SamePart, Carrying, Starting, Cancelling
  <2>5. ~Cancelling(proc[p], n) /\ Engaged(p, n) /\ Carrying(r, n) /\ ~Starting(r, n)
    BY <1>a, <1>1, <1>6, <2>2 DEF Cancelling, Engaged, Starting, Carrying
  <2>6. ASSUME Owned(n)
        PROVE  Owned(n)'
    <3>1. /\ \A q \in Procs : q # p => ~Carrying(proc'[q], n) /\ ~Starting(proc'[q], n)
          /\ ~Starting(proc'[p], n) /\ Carrying(proc'[p], n) /\ index'[n] = "absent"
      BY <1>1, <2>1, <2>5, <2>6, LastEngaged
    <3>2. phase'[n] # "idle"
      BY <1>5, <1>6
    <3>3. proc'[p].pc = "schedule"
      BY <2>1, <2>2 DEF Moves
    <3> QED
      BY <3>1, <3>2, <3>3
      DEF Owned, OneEngaged, Engaged, StartsAfresh, CarriesTask, TaskSomewhere, TaskHasPhase
  <2> QED
    BY <1>1, <1>3, <2>1, <2>3, <2>4, <2>5, <2>6, ChangingStep
<1>7. CASE ~proc[p].on /\ was # "idle"
  <2> DEFINE r == [proc[p] EXCEPT !.pc = "cancel"]
  <2>1. Moves(p, r)
    BY <1>0, <1>7 DEF Evaluate, Goto
  <2>2. r.pc = "cancel" /\ r.server = n /\ r.due = NoTasks
    BY <1>a, <1>0, <1>2, MovedTo
  <2>3. Handy(p, r)
    BY <1>0, <1>1, <2>2, IdleIs DEF Handy
  <2>4. \A s \in Servers : s # n => SamePart(p, r, s)
    BY <1>a, <1>1, <1>2, <2>2, IdleIs DEF SamePart, Carrying, Starting, Cancelling
  <2>5. Cancelling(r, n)
    BY <2>2 DEF Cancelling
  <2> QED
    BY <1>1, <1>3, <2>1, <2>3, <2>4, <2>5, ChangingStep
<1>8. CASE proc[p].on = (was # "idle")
  <2>1. Moves(p, Idle)
    BY <1>0, <1>8 DEF Evaluate, Finish
  <2>2. \A s \in Servers : SamePart(p, Idle, s)
    BY <1>1, <1>2, IdleIs, AsideSamePart DEF Aside
  <2>3. n \notin mishap' /\ Owned(n) => SameTask(n)
    BY <1>1, <1>4, <1>5, <1>8 DEF Owned, TaskHasPhase, SameTask
  <2>4. \A s \in Servers : s \notin mishap' /\ Owned(s) => SameTask(s)
    BY <1>3, <2>3
  <2> QED
    BY <1>1, <2>1, <2>2, <2>4, IdleIs, ChangingStep
<1>9. proc[p].on \in BOOLEAN
  BY <1>0 DEF Process
<1> QED
  BY <1>6, <1>7, <1>8, <1>9

\* What is copied of the index is what is there, or the writer overwrites it.
LEMMA CopiedIs ==
  ASSUME NEW p \in Procs, NEW s \in Servers, s \notin Overwritten(p)
  PROVE  /\ Copied(p)[s] = "absent" <=> index[s] = "absent"
         /\ proc[p].copy[s] = "absent" <=> index[s] = "absent"
BY DEF Overwritten, Copied

\* The task goes from the hands of the process into the cache.
LEMMA PutStep ==
  ASSUME PhaseInv, NEW p \in Procs, Put(p)
  PROVE  Kept
<1>a. PICK n \in Servers : n = proc[p].server
  BY ProcessIs
<1> DEFINE skip == proc[p].copy[n] # "absent" /\ \A t \in proc[p].task : ~t.repeat
<1>0. /\ proc[p] \in Process /\ Handy(p, proc[p])
      /\ \A r : proc' = [proc EXCEPT ![p] = r] => Moves(p, r)
      /\ body \in [Servers -> SUBSET Task] /\ Copied(p) \in [Servers -> {"absent", "later", "due"}]
  BY ProcessIs, CopiedIsIndex DEF PhaseInv, Types, BodyTypes, Index
<1>1. /\ proc[p].pc = "put" /\ UNCHANGED phase
      /\ index' = IF skip THEN index ELSE [Copied(p) EXCEPT ![n] = "later"]
      /\ body' = IF skip THEN body ELSE [body EXCEPT ![n] = proc[p].task]
      /\ mishap' = IF skip THEN mishap ELSE mishap \cup (Overwritten(p) \ {n})
  BY <1>a DEF Put, states
<1>2. PICK r : Moves(p, r) /\ Handy(p, r) /\ r.due = proc[p].due /\ r.pc \in {"idle", "work", "notify"}
  <2>1. CASE p \in Sweeps
    <3>1. Moves(p, [proc[p] EXCEPT !.pc = "notify"])
      BY <1>0, <2>1 DEF Put, Goto
    <3>2. [proc[p] EXCEPT !.pc = "notify"].due = proc[p].due
          /\ [proc[p] EXCEPT !.pc = "notify"].pc = "notify"
          /\ [proc[p] EXCEPT !.pc = "notify"].server = proc[p].server
      BY <1>0, MovedTo
    <3>3. Handy(p, [proc[p] EXCEPT !.pc = "notify"])
      BY <1>0, <1>1, <2>1, <3>2 DEF Handy
    <3> QED
      BY <3>1, <3>2, <3>3
  <2>2. CASE p \notin Sweeps
    <3>1. Moves(p, Rest(p))
      BY <1>0, <2>2 DEF Put, Done
    <3> QED
      BY <3>1, RestIs
  <2> QED
    BY <2>1, <2>2
<1>3. ASSUME NEW s \in Servers, s # n, s \notin mishap'
      PROVE  SamePart(p, r, s) /\ (Owned(s) => SameTask(s))
  <2>1. SamePart(p, r, s)
    BY <1>a, <1>1, <1>2, <1>3 DEF SamePart, Carrying, Starting, Cancelling
  <2>2. skip \/ s \notin Overwritten(p)
    BY <1>1, <1>3
  <2>3. body'[s] = body[s] /\ (index'[s] = "absent" <=> index[s] = "absent")
    BY <1>0, <1>1, <1>3, <2>2, CopiedIs
  <2>4. Owned(s) => SameTask(s)
    BY <1>1, <2>3 DEF Owned, TaskHasPhase, SameTask
  <2> QED
    BY <2>1, <2>4
<1>4. ~Cancelling(proc[p], n) /\ Carrying(proc[p], n) /\ proc[p].task # {}
  BY <1>a, <1>0, <1>1 DEF Cancelling, Carrying, Handy
<1>5. ASSUME Owned(n)
      PROVE  Owned(n)'
  <2>1. ~Carrying(r, n) /\ ~Starting(r, n)
    BY <1>a, <1>0, <1>1, <1>2 DEF Carrying, Starting, Handy
  <2>2. \A q \in Procs : ~Carrying(proc'[q], n) /\ ~Starting(proc'[q], n)
    BY <1>2, <1>4, <1>5, <2>1, LastEngaged DEF Engaged
  <2>3. ~skip /\ phase'[n] # "idle"
    BY <1>a, <1>1, <1>4, <1>5 DEF Owned, CarriesTask
  <2>4. index'[n] # "absent" /\ body'[n] # {}
    BY <1>0, <1>1, <1>4, <2>3
  <2> QED
    BY <2>2, <2>3, <2>4
    DEF Owned, OneEngaged, Engaged, StartsAfresh, CarriesTask, TaskSomewhere, TaskHasPhase
<1> QED
  BY <1>1, <1>2, <1>3, <1>4, <1>5, ChangingStep

\* A cancellation is a mishap of its server, and leaves the others their tasks.
LEMMA CancelledStep ==
  ASSUME PhaseInv, NEW p \in Procs, Cancelled(p)
  PROVE  Kept
<1> DEFINE r == IF proc[p].on /\ p \notin Workers THEN [proc[p] EXCEPT !.pc = "forget"] ELSE Rest(p)
<1>a. PICK n \in Servers : n = proc[p].server
  BY ProcessIs
<1>0. /\ Moves(p, r) /\ proc[p].pc = "cancelled" /\ Handy(p, proc[p]) /\ proc[p] \in Process
      /\ body \in [Servers -> SUBSET Task] /\ UNCHANGED phase
  BY ProcessIs DEF PhaseInv, Types, BodyTypes, Cancelled, Done, Goto, states
<1>1. mishap' = mishap \cup {n} \cup Overwritten(p)
  BY <1>a DEF Cancelled
<1>b. /\ r.due = proc[p].due /\ r.pc \in {"forget", "idle", "work"}
      /\ r.pc = "forget" => r.server = n
  BY <1>a, <1>0, MovedTo, RestIs
<1>c. Handy(p, r)
  <2>1. CASE r = Rest(p)
    BY <2>1, RestIs
  <2>2. CASE r = [proc[p] EXCEPT !.pc = "forget"]
    <3>1. r.pc = "forget" /\ r.server = proc[p].server /\ r.due = proc[p].due
      BY <1>0, <2>2 DEF Process
    <3> QED
      BY <1>0, <3>1 DEF Handy
  <2> QED
    BY <2>1, <2>2
<1>2. ASSUME NEW s \in Servers, s \notin mishap'
      PROVE  SamePart(p, r, s) /\ (Owned(s) => SameTask(s))
  <2>1. s # n /\ s \notin Overwritten(p)
    BY <1>1, <1>2
  <2>2. SamePart(p, r, s)
    BY <1>a, <1>b, <1>0, <2>1 DEF SamePart, Carrying, Starting, Cancelling
  <2>3. phase'[s] = phase[s] /\ body'[s] = body[s]
    BY <1>a, <1>0, <2>1 DEF Cancelled
  <2>4. \/ index'[s] = Copied(p)[s]
        \/ index'[s] = "absent" /\ body[s] = {}
    BY <1>a, <2>1 DEF Cancelled
  <2>5. Owned(s) => SameTask(s)
    BY <2>1, <2>3, <2>4, CopiedIs DEF Owned, TaskHasPhase, SameTask
  <2> QED
    BY <2>2, <2>5
<1> QED
  BY <1>0, <1>1, <1>c, <1>2, ChangingStep

\* The states follow the cancelled tasks; nothing else of the server's is touched.
LEMMA ForgetStep ==
  ASSUME PhaseInv, NEW p \in Procs, Forget(p)
  PROVE  Kept
<1> DEFINE r == IF p \in Sweeps THEN [proc[p] EXCEPT !.pc = "tidy"] ELSE Idle
<1>a. PICK n \in Servers : n = proc[p].server
  BY ProcessIs
<1>0. /\ Moves(p, r) /\ proc[p].pc = "forget" /\ Handy(p, proc[p]) /\ proc[p] \in Process
      /\ phase \in [Servers -> Phases] /\ UNCHANGED <<index, body>>
  BY ProcessIs DEF PhaseInv, Types, StateTypes, Forget, Finish, Goto, cache
<1>1. mishap' = mishap \cup {n}
  BY <1>a DEF Forget
<1>b. r.due = proc[p].due /\ r.pc \in {"idle", "tidy"} /\ Handy(p, r)
  <2>1. CASE p \in Sweeps
    <3>1. r.pc = "tidy" /\ r.server = proc[p].server /\ r.due = proc[p].due
      BY <1>0, <2>1, MovedTo
    <3> QED
      BY <1>0, <2>1, <3>1 DEF Handy
  <2>2. CASE p \notin Sweeps
    BY <1>0, <2>2, IdleIs DEF Handy
  <2> QED
    BY <2>1, <2>2
<1>2. ASSUME NEW s \in Servers, s \notin mishap'
      PROVE  SamePart(p, r, s) /\ (Owned(s) => SameTask(s))
  <2>1. s # n
    BY <1>1, <1>2
  <2>2. SamePart(p, r, s)
    BY <1>a, <1>b, <1>0, <2>1 DEF SamePart, Carrying, Starting, Cancelling
  <2>3. phase'[s] = phase[s]
    BY <1>a, <1>0, <2>1 DEF Forget
  <2> QED
    BY <1>0, <2>2, <2>3 DEF Owned, TaskHasPhase, SameTask
<1> QED
  BY <1>0, <1>1, <1>b, <1>2, ChangingStep

\* A due task goes from the cache into the hands of the sweep that is not too late.
LEMMA RemoveStep ==
  ASSUME PhaseInv, NEW p \in Procs, RemoveDue(p)
  PROVE  Kept
<1> DEFINE due == {s \in Servers : proc[p].copy[s] = "due"}
           taken == [s \in Servers |-> IF s \in due THEN body[s] ELSE {}]
           r == IF taken = NoTasks THEN Idle ELSE [Idle EXCEPT !.pc = "work", !.due = taken]
<1>0. /\ proc[p].pc = "remove" /\ proc[p].due = NoTasks /\ p \in Sweeps /\ Moves(p, r)
      /\ UNCHANGED phase
  BY ProcessIs DEF RemoveDue, Handy, states
<1>1. /\ index' = [s \in Servers |-> IF s \in due THEN "absent" ELSE Copied(p)[s]]
      /\ body' = [s \in Servers |-> IF s \in due THEN {} ELSE body[s]]
      /\ mishap' = mishap \cup Overwritten(p)
  BY DEF RemoveDue
<1>2. r.pc \in {"idle", "work"} /\ r.due = taken
  <2>1. CASE taken = NoTasks
    BY <2>1, IdleIs
  <2>2. CASE taken # NoTasks
    BY <2>2 DEF Idle
  <2> QED
    BY <2>1, <2>2
<1>3. Handy(p, r)
  <2>1. CASE taken = NoTasks
    BY <2>1, IdleIs
  <2>2. CASE taken # NoTasks
    <3>1. r.pc = "work"
      BY <2>2 DEF Idle
    <3> QED
      BY <1>0, <3>1 DEF Handy
  <2> QED
    BY <2>1, <2>2
<1>4. ASSUME NEW s \in Servers, s \notin mishap', s \notin due
      PROVE  SamePart(p, r, s) /\ (Owned(s) => SameTask(s))
  <2>1. r.due[s] = {}
    BY <1>2, <1>4
  <2>2. SamePart(p, r, s)
    BY <1>0, <1>2, <2>1, IdleIs DEF SamePart, Carrying, Starting, Cancelling
  <2>3. index'[s] = Copied(p)[s] /\ body'[s] = body[s] /\ s \notin Overwritten(p)
    BY <1>1, <1>4
  <2>4. Owned(s) => SameTask(s)
    BY <1>0, <2>3, CopiedIs DEF Owned, TaskHasPhase, SameTask
  <2> QED
    BY <2>2, <2>4
<1>5. ASSUME NEW s \in Servers, s \notin mishap', s \in due, Owned(s)
      PROVE  Owned(s)'
  <2>1. index[s] # "absent" /\ phase'[s] # "idle" /\ body[s] # {}
    BY <1>0, <1>1, <1>5, CopiedIs DEF Owned, TaskHasPhase
  <2>2. \A q \in Procs : ~Carrying(proc[q], s) /\ ~Starting(proc[q], s)
    BY <1>5, <2>1 DEF Owned, StartsAfresh, CarriesTask
  <2>3. Carrying(r, s) /\ ~Starting(r, s) /\ r.pc # "put"
    BY <1>2, <1>5, <2>1 DEF Carrying, Starting
  <2>4. /\ \A q \in Procs : Carrying(proc'[q], s) <=> q = p
        /\ \A q \in Procs : ~Starting(proc'[q], s)
        /\ proc'[p].pc # "put"
    BY <1>0, <2>2, <2>3 DEF Moves
  <2>5. index'[s] = "absent"
    BY <1>1, <1>5
  <2> QED
    BY <2>1, <2>4, <2>5
    DEF Owned, OneEngaged, Engaged, StartsAfresh, CarriesTask, TaskSomewhere, TaskHasPhase
<1>6. \A s \in Servers : ~Cancelling(proc[p], s)
  BY <1>0 DEF Cancelling
<1> QED
  BY <1>0, <1>1, <1>3, <1>4, <1>5, <1>6, ChangingStep

\* The window confirms or ends the incident: a task is handed on, or the phase is over.
LEMMA VerifyStep ==
  ASSUME PhaseInv, NEW p \in Procs, Verify(p)
  PROVE  Kept
<1>a. PICK n \in Servers : n = proc[p].server
  BY ProcessIs
<1>0. /\ proc[p] \in Process /\ Handy(p, proc[p])
      /\ \A r : proc' = [proc EXCEPT ![p] = r] => Moves(p, r)
      /\ phase \in [Servers -> Phases]
  BY ProcessIs DEF PhaseInv, Types, StateTypes
<1>1. proc[p].pc = "verify" /\ UNCHANGED <<index, body, mishap>>
  BY DEF Verify, cache, history
<1>2. /\ ~Cancelling(proc[p], n) /\ Engaged(p, n) /\ Carrying(proc[p], n)
      /\ proc[p].due[n] = {}
  BY <1>a, <1>0, <1>1 DEF Cancelling, Engaged, Carrying, Handy
<1>3. PICK t \in proc[p].task :
        \/ /\ phase' = [phase EXCEPT ![n] = IF Again(t) THEN "firing" ELSE "idle"]
           /\ proc' = [proc EXCEPT ![p] = [proc[p] EXCEPT
                  !.pc = IF Again(t) THEN "schedule" ELSE "notify", !.task = {[t EXCEPT !.repeat = TRUE]}]]
        \/ /\ phase' = [phase EXCEPT ![n] = "idle"]
           /\ Goto(p, "cancel")
  BY <1>a DEF Verify
<1>4. \A s \in Servers : s # n /\ Owned(s) => SameTask(s)
  BY <1>0, <1>1, <1>3 DEF Owned, TaskHasPhase, SameTask
<1>5. ASSUME NEW pc \in {"schedule", "notify"}, NEW task, task # {},
             phase' = [phase EXCEPT ![n] = IF pc = "schedule" THEN "firing" ELSE "idle"],
             proc' = [proc EXCEPT ![p] = [proc[p] EXCEPT !.pc = pc, !.task = task]]
      PROVE  Kept
  <2> DEFINE r == [proc[p] EXCEPT !.pc = pc, !.task = task]
  <2>1. Moves(p, r)
    BY <1>0, <1>5
  <2>2. r.pc = pc /\ r.server = n /\ r.due = proc[p].due /\ r.task = task
    BY <1>a, <1>0 DEF Process
  <2>3. Handy(p, r)
    BY <1>0, <1>2, <1>5, <2>2 DEF Handy
  <2>4. \A s \in Servers : s # n => SamePart(p, r, s)
    BY <1>a, <1>1, <1>5, <2>2 DEF SamePart, Carrying, Starting, Cancelling
  <2>5. /\ ~Starting(r, n) /\ (Carrying(r, n) <=> pc = "schedule")
        /\ phase'[n] = IF pc = "schedule" THEN "firing" ELSE "idle"
    BY <1>0, <1>2, <1>5, <2>2 DEF Carrying, Starting
  <2>6. ASSUME Owned(n)
        PROVE  Owned(n)'
    <3>1. /\ \A q \in Procs : q # p => ~Carrying(proc'[q], n)
          /\ \A q \in Procs : ~Starting(proc'[q], n)
          /\ Carrying(proc'[p], n) <=> phase'[n] # "idle"
          /\ index'[n] = "absent"
      BY <1>1, <1>2, <2>1, <2>5, <2>6, LastEngaged
    <3>2. proc'[p].pc # "put"
      BY <1>5, <2>1, <2>2 DEF Moves
    <3> QED
      BY <3>1, <3>2
      DEF Owned, OneEngaged, Engaged, StartsAfresh, CarriesTask, TaskSomewhere, TaskHasPhase
  <2> QED
    BY <1>1, <1>2, <1>4, <2>1, <2>3, <2>4, <2>6, ChangingStep
<1>6. CASE phase' = [phase EXCEPT ![n] = "idle"] /\ Goto(p, "cancel")
  <2> DEFINE r == [proc[p] EXCEPT !.pc = "cancel"]
  <2>1. Moves(p, r)
    BY <1>0, <1>6 DEF Goto
  <2>2. r.pc = "cancel" /\ r.server = n /\ r.due = proc[p].due
    BY <1>a, <1>0, MovedTo
  <2>3. Handy(p, r)
    BY <1>0, <1>2, <2>2 DEF Handy
  <2>4. \A s \in Servers : s # n => SamePart(p, r, s)
    BY <1>a, <1>1, <2>2 DEF SamePart, Carrying, Starting, Cancelling
  <2>5. Cancelling(r, n)
    BY <2>2 DEF Cancelling
  <2> QED
    BY <1>1, <1>4, <2>1, <2>3, <2>4, <2>5, ChangingStep
<1>7. {[t EXCEPT !.repeat = TRUE]} # {}
  OBVIOUS
<1> QED
  BY <1>3, <1>5, <1>6, <1>7

\* Steps of no process: time makes a task due, and a new configuration is a mishap.
LEMMA NobodysStep ==
  ASSUME PhaseInv, UNCHANGED proc, UNCHANGED <<phase, body>> \/ mishap' = Servers,
         UNCHANGED mishap \/ mishap' = Servers,
         UNCHANGED index \/ mishap' = Servers \/ \E s \in Servers : TaskIsDue(s)
  PROVE  Kept
<1>1. \A p \in Procs : Handy(p, proc'[p])
  BY DEF PhaseInv
<1>2. ASSUME NEW s \in Servers, s \notin mishap'
      PROVE  InOrder(s)'
  <2>1. InOrder(s) /\ phase' = phase /\ body' = body
    BY <1>2 DEF PhaseInv
  <2>2. index'[s] = "absent" <=> index[s] = "absent"
    BY <1>2 DEF TaskIsDue, PhaseInv, Types, IndexTypes, Index
  <2> QED
    BY <2>1, <2>2 DEF InOrder, Owned, OneEngaged, Engaged, StartsAfresh, CarriesTask,
       TaskSomewhere, TaskHasPhase
<1> QED
  BY <1>1, <1>2 DEF Kept

LEMMA PhaseStep ==
  ASSUME PhaseInv, [Next]_vars
  PROVE  Kept
<1>1. CASE UNCHANGED vars
  BY <1>1, NobodysStep DEF vars, states, cache, history
<1>2. ASSUME NEW s \in Servers, Flip(s) \/ Heartbeat(s) \/ TaskIsDue(s)
      PROVE  Kept
  <2>1. /\ UNCHANGED <<proc, phase, body, mishap>>
        /\ UNCHANGED index \/ TaskIsDue(s)
    BY <1>2 DEF Flip, Heartbeat, TaskIsDue, states, cache, history
  <2> QED
    BY <2>1, NobodysStep
<1>3. CASE ConfigSaved
  BY <1>3, NobodysStep DEF ConfigSaved
<1>4. ASSUME NEW p \in Procs, Step(p)
      PROVE  Kept
  BY <1>4, HeartbeatSteps, SweepSteps, OtherSteps, ArmStep, EvaluateStep, PutStep, CancelledStep,
     ForgetStep, RemoveStep, VerifyStep DEF Step
<1>5. ASSUME NEW p \in Procs, Crash(p) \/ \E s \in Servers : Reset(p, s)
      PROVE  Kept
  BY <1>5, OtherSteps
<1> QED
  BY <1>1, <1>2, <1>3, <1>4, <1>5 DEF Next

\* A sustained node that waits or repeats has its task in the cache, and a task a node
\* that is not idle, whenever nobody is at work on the server and nothing has gone
\* wrong with it (SustainedNode, NodeTaskScheduler): for any number of workers and
\* overlapping sweeps.
THEOREM PhaseKeepsItsTask == Spec => []PhaseHasTask
<1>1. Init => PhaseInv
  <2> SUFFICES ASSUME Init PROVE PhaseInv
    OBVIOUS
  <2>1. \A p \in Procs : proc[p] = Idle
    BY DEF Init
  <2>2. \A p \in Procs : Handy(p, proc[p])
    BY <2>1, IdleIs
  <2>3. \A p \in Procs, s \in Servers : ~Carrying(proc[p], s) /\ ~Starting(proc[p], s)
    BY <2>1, IdleIs DEF Carrying, Starting
  <2>4. ASSUME NEW s \in Servers PROVE InOrder(s)
    <3>1. phase[s] = "idle" /\ index[s] = "absent"
      BY DEF Init
    <3> QED
      BY <2>3, <3>1 DEF InOrder, Owned, OneEngaged, Engaged, StartsAfresh, CarriesTask,
         TaskSomewhere, TaskHasPhase
  <2> QED
    BY <2>2, <2>4, InitTypes DEF PhaseInv
<1>2. PhaseInv /\ [Next]_vars => PhaseInv'
  <2> SUFFICES ASSUME PhaseInv, [Next]_vars PROVE PhaseInv'
    OBVIOUS
  <2>1. Types'
    BY StateTypesHold, IndexTypesHold, BodyTypesHold, QueueTypesHold, ProcTypesHold,
       HistoryTypesHold DEF PhaseInv, Types
  <2>2. Kept
    BY PhaseStep
  <2> QED
    BY <2>1, <2>2 DEF PhaseInv, Kept, Procs
<1> QED
  BY <1>1, <1>2, PhaseInvImpliesPhaseHasTask, PTL DEF Spec
=============================================================================
