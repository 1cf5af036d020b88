------------------------- MODULE OfflineBoardProofs -------------------------
(***************************************************************************)
(* Theorems about OfflineBoard, for every set of users.                    *)
(***************************************************************************)
EXTENDS OfflineBoard, TLAPS

USE DEF Item, NoItem, Idle, TransitionJob, BoardJob, Status

\* The row stays typed, or absent, through the statements the handlers share.
LEMMA SettledType ==
  ASSUME NEW i \in Item \cup {NoItem}
  PROVE  /\ Opened \in Item
         /\ Settled(i) \in Item \cup {NoItem}
         /\ Cleared(i) \in Item \cup {NoItem}
BY DEF Opened, Settled, Cleared

\* Both statements leave the claim of a claimed row in place.
LEMMA SettledKeepsClaims ==
  ASSUME NEW i \in Item, i.assignee # Nobody
  PROVE  Settled(i).assignee = i.assignee /\ Cleared(i).assignee = i.assignee
BY DEF Settled, Cleared

\* What a health job reads is a job.
LEMMA ReadsType ==
  ASSUME TypeOK, NEW kind \in {"monitor", "view"}
  PROVE  Reads(kind) \in TransitionJob
BY DEF TypeOK, Reads

LEMMA MarkType ==
  ASSUME TypeOK, NEW j \in TransitionJob, Mark(j)
  PROVE  status' \in Status /\ cause' \in {"none", "graceful", "unexpected"}
<1>1. status' \in Status
  BY DEF TypeOK, Mark
<1>2. cause' \in {"none", "graceful", "unexpected"}
  BY DEF TypeOK, Mark
<1> QED BY <1>1, <1>2

LEMMA BoardAfterType ==
  ASSUME TypeOK, NEW j \in TransitionJob
  PROVE  BoardAfter(j) \in Item \cup {NoItem}
BY SettledType DEF TypeOK, BoardAfter

LEMMA KeepBoardJobType ==
  ASSUME TypeOK, KeepBoardJob
  PROVE  job' \in {Idle} \cup TransitionJob \cup BoardJob
BY DEF TypeOK, KeepBoardJob

LEMMA AgentType == TypeOK /\ Agent => TypeOK'
<1> SUFFICES ASSUME TypeOK, Agent PROVE TypeOK'
  OBVIOUS
<1>1. ASSUME Heartbeat PROVE TypeOK'
  BY <1>1, SettledType, KeepBoardJobType DEF TypeOK, Heartbeat
<1>2. ASSUME Silence \/ StopReported \/ GracePasses PROVE TypeOK'
  BY <1>2 DEF TypeOK, Silence, StopReported, GracePasses
<1>3. ASSUME Register PROVE TypeOK'
  BY <1>3 DEF TypeOK, Register
<1> QED
  BY <1>1, <1>2, <1>3 DEF Agent

LEMMA HealthType == TypeOK /\ Health => TypeOK'
<1> SUFFICES ASSUME TypeOK, Health PROVE TypeOK'
  OBVIOUS
<1>1. ASSUME NEW kind \in {"monitor", "view"}, Transition(kind)
      PROVE  TypeOK'
  <2>1. /\ status' \in Status /\ cause' \in {"none", "graceful", "unexpected"}
        /\ item' \in Item \cup {NoItem}
    BY <1>1, ReadsType, MarkType, BoardAfterType DEF Transition
  <2> QED
    BY <1>1, <2>1, KeepBoardJobType DEF TypeOK, Transition
<1>2. ASSUME NEW kind \in {"monitor", "view"}, TransitionBegin(kind)
      PROVE  TypeOK'
  BY <1>2, ReadsType DEF TypeOK, TransitionBegin
<1>3. ASSUME job \in TransitionJob, TransitionMarks
      PROVE  TypeOK'
  BY <1>3, MarkType DEF TypeOK, TransitionMarks
<1>4. ASSUME job \in TransitionJob, TransitionEnd
      PROVE  TypeOK'
  BY <1>4, BoardAfterType DEF TypeOK, TransitionEnd
<1>5. TransitionMarks \/ TransitionEnd => job \in TransitionJob
  BY DEF TypeOK, TransitionMarks, TransitionEnd
<1> QED
  BY <1>1, <1>2, <1>3, <1>4, <1>5 DEF Health

LEMMA BoardType == TypeOK /\ Board => TypeOK'
<1> SUFFICES ASSUME TypeOK, Board PROVE TypeOK'
  OBVIOUS
<1>1. ASSUME ReadBoard PROVE TypeOK'
  BY <1>1, SettledType, KeepBoardJobType DEF TypeOK, ReadBoard
<1>2. ASSUME ReadBoardBegin PROVE TypeOK'
  BY <1>2 DEF TypeOK, ReadBoardBegin, Unresolved
<1>3. ASSUME ReadBoardEnd PROVE TypeOK'
  BY <1>3 DEF TypeOK, ReadBoardEnd
<1>4. ASSUME NEW u \in User, Claim(u) PROVE TypeOK'
  BY <1>4 DEF TypeOK, Claim, Opened
<1>5. ASSUME UpdateStatus PROVE TypeOK'
  BY <1>5 DEF TypeOK, UpdateStatus
<1> QED
  BY <1>1, <1>2, <1>3, <1>4, <1>5 DEF Board

\* Every column, the row and the overtaken job keep their types.
THEOREM TypeCorrect == Spec => []TypeOK
<1>1. Init => TypeOK
  BY DEF Init, TypeOK
<1>2. TypeOK /\ [Next]_vars => TypeOK'
  <2>1. TypeOK /\ UNCHANGED vars => TypeOK'
    BY DEF TypeOK, vars
  <2> QED
    BY <2>1, AgentType, HealthType, BoardType DEF Next
<1> QED
  BY <1>1, <1>2, PTL DEF Spec

-----------------------------------------------------------------------------
(* As long as no job wrote the board on an outdated read.                  *)

\* An offline server that is heard, or is not on the board, was just marked by
\* the overtaken job: nothing else marks a server offline that is heard, and
\* nothing else does without opening the row.
BoardInv ==
  /\ TypeOK
  /\ ~outdated /\ status = "offline" /\ (heard \/ item = NoItem) => AboutToOpen

LEMMA BoardInvAgent ==
  ASSUME BoardInv, Agent
  PROVE  BoardInv'
<1>0. TypeOK'
  BY AgentType DEF BoardInv
<1>1. CASE Heartbeat
  BY <1>0, <1>1 DEF BoardInv, Heartbeat
<1>2. CASE Silence \/ StopReported \/ GracePasses
  BY <1>0, <1>2 DEF BoardInv, AboutToOpen, Turns, Silence, StopReported, GracePasses
<1>3. CASE Register
  BY <1>0, <1>3 DEF BoardInv, Register
<1> QED
  BY <1>1, <1>2, <1>3 DEF Agent

\* A job that is served in one piece marks a server offline only if it is not
\* heard, and opens the row with it.
LEMMA BoardInvTransition ==
  ASSUME BoardInv, TypeOK', NEW kind \in {"monitor", "view"}, Transition(kind)
  PROVE  BoardInv'
<1>1. CASE heard
  <2>1. status' # "offline"
    BY <1>1 DEF TypeOK, BoardInv, Transition, Mark, Reads, Turns
  <2> QED
    BY <2>1 DEF BoardInv
<1>2. CASE ~heard /\ status # "offline"
  <2>1. item' # NoItem /\ ~heard'
    BY <1>2 DEF TypeOK, BoardInv, Transition, BoardAfter, Opened, Reads, Turns
  <2> QED
    BY <2>1 DEF BoardInv
<1>3. CASE ~heard /\ status = "offline"
  <2>1. item' = item /\ UNCHANGED <<heard, outdated>>
    BY <1>3 DEF TypeOK, BoardInv, Transition, BoardAfter, Reads, Turns
  <2>2. AboutToOpen => AboutToOpen'
    BY DEF AboutToOpen, Turns, Transition, KeepBoardJob
  <2> QED
    BY <1>3, <2>1, <2>2 DEF BoardInv
<1> QED
  BY <1>1, <1>2, <1>3 DEF BoardInv, TypeOK

LEMMA BoardInvHealth ==
  ASSUME BoardInv, Health
  PROVE  BoardInv'
<1>0. TypeOK'
  BY HealthType DEF BoardInv
<1>1. CASE \E kind \in {"monitor", "view"} : Transition(kind)
  BY <1>0, <1>1, BoardInvTransition
<1>2. ASSUME NEW kind \in {"monitor", "view"}, TransitionBegin(kind)
      PROVE  BoardInv'
  BY <1>0, <1>2 DEF BoardInv, TypeOK, AboutToOpen, TransitionBegin, Reads
<1>3. CASE TransitionMarks
  BY <1>0, <1>3 DEF BoardInv, TypeOK, AboutToOpen, TransitionMarks, Mark, Turns
<1>4. CASE TransitionEnd
  BY <1>0, <1>4 DEF BoardInv, TypeOK, AboutToOpen, TransitionEnd, BoardAfter, Opened, Turns
<1> QED
  BY <1>1, <1>2, <1>3, <1>4 DEF Health

LEMMA BoardInvBoard ==
  ASSUME BoardInv, Board
  PROVE  BoardInv'
<1>0. TypeOK'
  BY BoardType DEF BoardInv
<1>1. CASE ReadBoard
  BY <1>0, <1>1 DEF BoardInv, ReadBoard, Fixed
<1>2. CASE ReadBoardBegin
  BY <1>0, <1>2 DEF BoardInv, ReadBoardBegin, Fixed
<1>3. CASE ReadBoardEnd
  BY <1>0, <1>3 DEF BoardInv, ReadBoardEnd, Fixed
<1>4. ASSUME NEW u \in User, Claim(u) PROVE BoardInv'
  BY <1>0, <1>4 DEF BoardInv, TypeOK, AboutToOpen, Turns, Claim, Opened
<1>5. CASE UpdateStatus
  BY <1>0, <1>5 DEF BoardInv, TypeOK, AboutToOpen, Turns, UpdateStatus
<1> QED
  BY <1>1, <1>2, <1>3, <1>4, <1>5 DEF Board

LEMMA BoardInvAlways == Spec => []BoardInv
<1>1. Init => BoardInv
  BY DEF Init, BoardInv, TypeOK
<1>2. BoardInv /\ [Next]_vars => BoardInv'
  <2>1. BoardInv /\ UNCHANGED vars => BoardInv'
    BY DEF BoardInv, TypeOK, AboutToOpen, Turns, vars
  <2> QED
    BY <2>1, BoardInvAgent, BoardInvHealth, BoardInvBoard DEF Next
<1> QED
  BY <1>1, <1>2, PTL DEF Spec

\* As long as no job wrote the board on an outdated read, an offline server that
\* nobody is in the middle of marking is on the board.
THEOREM OfflineServersAreOnBoard == Spec => []OfflineIsOnBoard
<1>1. BoardInv => OfflineIsOnBoard
  BY DEF BoardInv, OfflineIsOnBoard, AboutToOpen
<1> QED
  BY <1>1, BoardInvAlways, PTL

\* Under the same condition the claim of a row is lost to a user or to a new
\* outage, never to a recovery, a board read or a registration.
THEOREM ClaimsAreKept == Spec => ClaimIsKept
<1> DEFINE Lost == item' = Opened /\ (AboutToOpen \/ (status # "offline" /\ status' = "offline"))
           Kept == ~outdated' /\ item.assignee # Nobody /\ ~(\E u \in User : Claim(u))
                     => item'.assignee = item.assignee \/ Lost
<1>1. TypeOK /\ [Next]_vars => [Kept]_vars
  <2> SUFFICES ASSUME TypeOK, Next, ~outdated', item.assignee # Nobody,
                      ~(\E u \in User : Claim(u))
               PROVE  item'.assignee = item.assignee \/ Lost
    OBVIOUS
  <2>1. item \in Item
    BY DEF TypeOK
  <2>2. CASE Agent
    BY <2>1, <2>2, SettledKeepsClaims
    DEF Agent, Heartbeat, Silence, StopReported, GracePasses, Register
  <2>3. CASE Health
    <3>1. ASSUME NEW kind \in {"monitor", "view"}, Transition(kind)
          PROVE  item'.assignee = item.assignee \/ Lost
      BY <2>1, <3>1, SettledKeepsClaims
      DEF TypeOK, Transition, BoardAfter, Mark, Reads, Turns
    <3>2. CASE TransitionEnd
      BY <2>1, <3>2, SettledKeepsClaims DEF TypeOK, TransitionEnd, BoardAfter, AboutToOpen
    <3>3. ASSUME NEW kind \in {"monitor", "view"}, TransitionBegin(kind)
          PROVE  item' = item
      BY <3>3 DEF TransitionBegin
    <3>4. CASE TransitionMarks
      BY <3>4 DEF TransitionMarks
    <3> QED
      BY <2>3, <3>1, <3>2, <3>3, <3>4 DEF Health
  <2>4. CASE Board
    <3>1. CASE ReadBoardEnd
      BY <2>1, <3>1 DEF TypeOK, ReadBoardEnd
    <3>2. CASE ReadBoard \/ ReadBoardBegin
      BY <2>1, <3>2, SettledKeepsClaims DEF ReadBoard, ReadBoardBegin
    <3>3. CASE UpdateStatus
      BY <2>1, <3>3 DEF UpdateStatus
    <3> QED
      BY <2>4, <3>1, <3>2, <3>3 DEF Board
  <2> QED
    BY <2>2, <2>3, <2>4 DEF Next
<1> QED
  BY <1>1, TypeCorrect, PTL DEF Spec, ClaimIsKept
=============================================================================
