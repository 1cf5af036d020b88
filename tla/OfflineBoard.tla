---------------------------- MODULE OfflineBoard ----------------------------
(***************************************************************************)
(* One monitored server going offline and coming back, and its             *)
(* server_offline row on the dashboard's action board: heartbeats, the     *)
(* monitor job, pages that render the server, readers of the board and     *)
(* users who claim the row all write the same two columns.                 *)
(*                                                                         *)
(* The monitor job, a page and a board read work on what they read first:  *)
(* other handlers may run between their steps.  One job at a time is       *)
(* overtaken this way; the others are served in one piece.                 *)
(***************************************************************************)
EXTENDS Naturals

CONSTANTS
  User,    \* dashboard users
  Nobody   \* a null action_items.assigned_to

ASSUME NobodyAssumption == Nobody \notin User

VARIABLES
  status,    \* servers.status of a server attached to an active agent
  heard,     \* agents.last_seen_at is inside the offline threshold
  graceful,  \* the agent's stopping or stopped event is inside the grace window
  cause,     \* what this outage was recorded as, "none" before it is
  item,      \* the server's row in action_items
  job,       \* the job that was overtaken
  outdated   \* history: a job wrote the board on a read that was no longer true

vars == <<status, heard, graceful, cause, item, job, outdated>>

NoItem == [status |-> "none", assignee |-> Nobody]
Item   == [status : {"open", "in_progress", "completed"}, assignee : User \cup {Nobody}]

Status == {"waiting_for_first_heartbeat", "online", "offline"}

Idle == [kind |-> "idle"]
TransitionJob == [kind : {"monitor", "view"}, offline : BOOLEAN, previous : Status,
                  marked : BOOLEAN]
BoardJob      == [kind : {"board"}, read : Item, live : BOOLEAN]

TypeOK ==
  /\ status \in Status
  /\ heard \in BOOLEAN /\ graceful \in BOOLEAN
  /\ cause \in {"none", "graceful", "unexpected"}
  /\ item \in Item \cup {NoItem}
  /\ job \in {Idle} \cup TransitionJob \cup BoardJob
  /\ outdated \in BOOLEAN

Init ==
  /\ status = "waiting_for_first_heartbeat"
  /\ heard = FALSE /\ graceful = FALSE /\ cause = "none"
  /\ item = NoItem
  /\ job = Idle
  /\ outdated = FALSE

-----------------------------------------------------------------------------
(* The statements the handlers share.                                      *)

\* ActionItem::updateOrCreate on (action_type, server, client).
Opened == [status |-> "open", assignee |-> Nobody]

\* Mutant: an unclaimed row is closed with a status the column does not know.
SettledUnknown(i) == [i EXCEPT !.status = IF i.assignee = Nobody THEN "closed" ELSE "completed"]

\* The row is done with: kept as history for whoever claimed it, else deleted.
Settled(i) == IF i.assignee = Nobody THEN NoItem ELSE [i EXCEPT !.status = "completed"]

\* Mutant: claimed rows are deleted as well.
ClearedAll(i) == IF i.status \in {"open", "in_progress"} THEN NoItem ELSE i

\* The two statements of a recovery touch open rows only.
Cleared(i) == IF i.status = "open" THEN Settled(i) ELSE i

\* A board read that is under way keeps the primary key of its row; a row that
\* is deleted is never the one created later.
KeepBoardJob ==
  job' = IF job.kind = "board" /\ item' = NoItem THEN [job EXCEPT !.live = FALSE] ELSE job

-----------------------------------------------------------------------------
(* The agent.                                                              *)

\* A heartbeat, in its one transaction: bringServerOnline.
Heartbeat ==
  /\ heard' = TRUE
  /\ status' = "online" /\ cause' = "none"
  /\ item' = Cleared(item)
  /\ KeepBoardJob
  /\ UNCHANGED <<graceful, outdated>>

\* No heartbeat for the offline threshold.
Silence ==
  /\ heard /\ heard' = FALSE
  /\ UNCHANGED <<status, graceful, cause, item, job, outdated>>

\* The agent reports that it stops; the grace window passes.
StopReported ==
  /\ heard /\ ~graceful /\ graceful' = TRUE
  /\ UNCHANGED <<status, heard, cause, item, job, outdated>>

GracePasses ==
  /\ graceful /\ graceful' = FALSE
  /\ UNCHANGED <<status, heard, cause, item, job, outdated>>

\* The agent is registered again.
Register ==
  /\ status' = "waiting_for_first_heartbeat" /\ cause' = "none"
  /\ heard' = FALSE
  /\ UNCHANGED <<graceful, item, job, outdated>>

-----------------------------------------------------------------------------
(* Health transitions: MonitorServer, and ServerData::fromModel when a page *)
(* renders the server.                                                      *)

Reads(kind) == [kind |-> kind, offline |-> ~heard, previous |-> status, marked |-> FALSE]

\* What a page needs to see to mark the server offline.
PageMarks == status = "online" /\ ~heard

StartsJob(kind) == kind = "monitor" \/ PageMarks

\* The job turns the server's status.
Turns(j) == j.offline # (j.previous = "offline")

\* Only the monitor job records the disconnect (and evaluates the alerts).
Mark(j) ==
  /\ status' = IF ~Turns(j) THEN status ELSE IF j.offline THEN "offline" ELSE "online"
  /\ cause' = IF ~Turns(j) THEN cause
              ELSE IF ~j.offline THEN "none"
              ELSE IF j.kind = "view" THEN cause
              ELSE IF graceful THEN "graceful" ELSE "unexpected"

\* Mutant: the board is cleaned only if the job itself saw the recovery.
BoardAfterOnTurn(j) ==
  IF ~Turns(j) THEN item ELSE IF j.offline THEN Opened ELSE Cleared(item)

\* Mutant: a page leaves the board to the monitor job.
BoardAfterMonitorOnly(j) ==
  IF ~j.offline THEN Cleared(item) ELSE IF Turns(j) /\ j.kind = "monitor" THEN Opened ELSE item

\* Then it writes the board.  A server that is still online is cleaned as well.
BoardAfter(j) ==
  IF ~j.offline THEN Cleared(item) ELSE IF Turns(j) THEN Opened ELSE item

\* The whole job in one piece.
Transition(kind) ==
  /\ StartsJob(kind)
  /\ Mark(Reads(kind))
  /\ item' = BoardAfter(Reads(kind))
  /\ KeepBoardJob
  /\ UNCHANGED <<heard, graceful, outdated>>

TransitionBegin(kind) ==
  /\ job = Idle
  /\ StartsJob(kind)
  /\ job' = Reads(kind)
  /\ UNCHANGED <<status, heard, graceful, cause, item, outdated>>

TransitionMarks ==
  /\ job.kind \in {"monitor", "view"} /\ ~job.marked
  /\ Mark(job)
  /\ job' = [job EXCEPT !.marked = TRUE]
  /\ UNCHANGED <<heard, graceful, item, outdated>>

TransitionEnd ==
  /\ job.kind \in {"monitor", "view"} /\ job.marked
  /\ item' = BoardAfter(job)
  /\ job' = Idle
  /\ outdated' = (outdated \/ job.offline = heard)
  /\ UNCHANGED <<status, heard, graceful, cause>>

-----------------------------------------------------------------------------
(* The board: DashboardController.                                         *)

\* resolveIfConditionFixed on a row that was not completed.
Unresolved(i) == i.status \in {"open", "in_progress"}
Fixed == status # "offline"

ReadBoard ==
  /\ Unresolved(item) /\ Fixed
  /\ item' = Settled(item)
  /\ KeepBoardJob
  /\ UNCHANGED <<status, heard, graceful, cause, outdated>>

\* The rows and their servers are read together, then resolved by primary key.
ReadBoardBegin ==
  /\ job = Idle
  /\ Unresolved(item) /\ Fixed
  /\ job' = [kind |-> "board", read |-> item, live |-> TRUE]
  /\ UNCHANGED <<status, heard, graceful, cause, item, outdated>>

ReadBoardEnd ==
  /\ job.kind = "board"
  /\ item' = IF ~job.live THEN item
             ELSE IF job.read.assignee = Nobody THEN NoItem
             ELSE [item EXCEPT !.status = "completed"]
  /\ job' = Idle
  /\ outdated' = (outdated \/ (job.live /\ item # job.read) \/ ~Fixed)
  /\ UNCHANGED <<status, heard, graceful, cause>>

\* A user completes the row, claims it, or gives a claim back.  A claimed row is
\* in progress, which the recoveries above do not touch.
Claim(u) ==
  /\ item # NoItem
  /\ item' \in {[status |-> "completed", assignee |-> u],
                IF item.assignee = u THEN Opened
                ELSE [status |-> "in_progress", assignee |-> u]}
  /\ UNCHANGED <<status, heard, graceful, cause, job, outdated>>

\* Any other status than completed fails before the row is saved: its message
\* interpolates an enum case into a string.
UpdateStatus ==
  /\ item # NoItem
  /\ item' = [item EXCEPT !.status = "completed"]
  /\ UNCHANGED <<status, heard, graceful, cause, job, outdated>>

-----------------------------------------------------------------------------

Agent  == Heartbeat \/ Silence \/ StopReported \/ GracePasses \/ Register
Health ==
  \/ \E kind \in {"monitor", "view"} : Transition(kind) \/ TransitionBegin(kind)
  \/ TransitionMarks \/ TransitionEnd
Board ==
  \/ ReadBoard \/ ReadBoardBegin \/ ReadBoardEnd
  \/ \E u \in User : Claim(u)
  \/ UpdateStatus

Next == Agent \/ Health \/ Board

\* The monitor sweep runs every minute and a job that started ends; nobody has
\* to open a page or the board, and the agent may be dead.
Fairness == WF_vars(Transition("monitor")) /\ WF_vars(TransitionMarks \/ TransitionEnd)

Spec == Init /\ [][Next]_vars /\ Fairness

-----------------------------------------------------------------------------

\* As long as no job wrote the board on an outdated read: a server that is
\* offline, with nobody in the middle of marking it, is on the board (open,
\* claimed, or completed by a user), whatever recoveries, board reads and claims
\* came before.
OfflineIsOnBoard == ~outdated /\ status = "offline" /\ job = Idle => item # NoItem

\* The overtaken job has marked the server offline and is about to open its row.
AboutToOpen ==
  job.kind \in {"monitor", "view"} /\ job.marked /\ job.offline /\ Turns(job)

\* Under the same condition a claim is lost to no recovery, board read or
\* registration: the row is there under the user's name, completed or not, until
\* a user changes that, the next outage opens the row again, or a job that was
\* overtaken while it marked this one does.  Opened again, it is unclaimed, and
\* the recovery after that deletes it: the history of a claim ends there.
ClaimIsKept ==
  [][~outdated' /\ item.assignee # Nobody /\ ~(\E u \in User : Claim(u))
       => \/ item'.assignee = item.assignee
          \/ item' = Opened /\ (AboutToOpen \/ (status # "offline" /\ status' = "offline"))]_vars

\* An open row of a server that is back online does not stay on the board, even
\* if nobody looks at it, however late or on whatever read it was opened.
StaleRowIsCleared ==
  (status = "online" /\ heard /\ item.status = "open")
    ~> (status # "online" \/ ~heard \/ item.status # "open")
=============================================================================
