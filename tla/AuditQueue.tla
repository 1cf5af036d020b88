----------------------------- MODULE AuditQueue -----------------------------
(***************************************************************************)
(* The agent's durable queue of audit events (eventqueue.go), the client   *)
(* that sends a batch (sendAuditEvents) and the backend that stores it     *)
(* (AuditController), with the agent dying between any two steps that      *)
(* CrashAt names, and a disk that refuses to write or to sync what failed. *)
(*                                                                         *)
(* The queue file is a sequence of events, one per line, and the offset    *)
(* counts lines.  A drain goes through the program points of pc; from      *)
(* "save" to "renamed" it holds the mutex, so nothing is enqueued then.    *)
(***************************************************************************)
EXTENDS Integers, Sequences, FiniteSets, Functions

CONSTANTS
  FileEvent,       \* file-activity events, each with a uuid of its own
  LifecycleEvent,  \* lifecycle events
  MaxBatch,        \* maxDrainEvents
  CompactAt,       \* compactThreshold, in lines
  CrashAt,         \* the program points at which the agent may die
  MaxCrashes,      \* bound: how often it dies
  MaxFaults,       \* bound: how often the disk fails a requeue
  MaxLength        \* bound: lines in the file beyond which no send fails

Event == FileEvent \cup LifecycleEvent

PC == {"idle", "file", "lifecycle", "requeue", "save", "compact", "renamed"}
Locked == {"save", "compact", "renamed"}

ASSUME BatchAssumption == MaxBatch \in Nat \ {0} /\ CompactAt \in Nat \ {0}
ASSUME CrashAssumption == CrashAt \subseteq PC /\ MaxCrashes \in Nat
ASSUME FaultAssumption == MaxFaults \in Nat
ASSUME LengthAssumption == MaxLength \in Nat

VARIABLES
  file,     \* the queue file
  saved,    \* the offset file
  offset,   \* EventQueue.offset
  pc,       \* where the drain is; "idle" when inflight is false
  batch,    \* what readBatch returned
  failed,   \* what sendAuditEvents returns
  accepted, \* events Enqueue returned nil for
  stored,   \* uuids in the backend's tables
  refused,  \* events the disk refused to take a second time
  crashes,  \* how often the agent died
  faults    \* how often the disk failed a requeue

disk   == <<file, saved>>
memory == <<offset, pc, batch, failed>>
mishaps == <<refused, crashes, faults>>
vars   == <<disk, memory, accepted, stored, mishaps>>

TypeOK ==
  /\ file \in Seq(Event) /\ batch \in Seq(Event) /\ failed \in Seq(Event)
  /\ saved \in Nat /\ offset \in Nat
  /\ pc \in PC
  /\ accepted \subseteq Event /\ stored \subseteq Event
  /\ refused \subseteq Event /\ crashes \in Nat /\ faults \in Nat

Init ==
  /\ file = <<>> /\ saved = 0
  /\ offset = 0 /\ pc = "idle" /\ batch = <<>> /\ failed = <<>>
  /\ accepted = {} /\ stored = {} /\ refused = {} /\ crashes = 0 /\ faults = 0

Elements(s) == {s[i] : i \in DOMAIN s}

-----------------------------------------------------------------------------

\* Append one line and fsync, under the mutex.
Enqueue(e) ==
  /\ pc \notin Locked
  /\ e \notin accepted
  /\ file' = Append(file, e)
  /\ accepted' = accepted \cup {e}
  /\ UNCHANGED <<saved, memory, stored, mishaps>>

\* An offset past the end of the file rewinds to its start.
Rewound(off) == IF off > Len(file) THEN 0 ELSE off

\* Mutant: the last line is taken for a partial one.
ReadFromWithoutLast(off) ==
  SubSeq(file, off + 1, IF Len(file) - 1 < off + MaxBatch THEN Len(file) - 1
                        ELSE off + MaxBatch)

\* readBatch: at most MaxBatch lines from the offset.
ReadFrom(off) ==
  SubSeq(file, off + 1, IF Len(file) < off + MaxBatch THEN Len(file) ELSE off + MaxBatch)

\* The first half of Drain, when there is something to read or to rewind.
DrainRead ==
  /\ pc = "idle"
  /\ ReadFrom(Rewound(offset)) # <<>> \/ offset > Len(file)
  /\ offset' = Rewound(offset)
  /\ saved' = IF offset > Len(file) THEN 0 ELSE saved
  /\ batch' = ReadFrom(Rewound(offset))
  /\ pc' = IF batch' = <<>> THEN "idle" ELSE "file"
  /\ UNCHANGED <<file, failed, accepted, stored, mishaps>>

-----------------------------------------------------------------------------
(* sendAuditEvents posts the file events, then the lifecycle events.       *)

\* The lines of the batch that the drain is posting, and their events.
Part   == {i \in DOMAIN batch : batch[i] \in IF pc = "file" THEN FileEvent ELSE LifecycleEvent}
Posted == {batch[i] : i \in Part}

AfterPart == IF pc = "file" THEN "lifecycle" ELSE "requeue"

\* The ingest action looks the uuids up, then inserts the unknown ones in one
\* transaction under a unique index: a uuid that comes twice and is unknown
\* aborts it.
Acceptable ==
  \A i, j \in Part : i # j /\ batch[i] = batch[j] => batch[i] \in stored

\* The part is empty and not sent, or stored and answered.
PartDelivered ==
  /\ pc \in {"file", "lifecycle"}
  /\ Acceptable
  /\ stored' = stored \cup Posted
  /\ pc' = AfterPart
  /\ UNCHANGED <<disk, offset, batch, failed, accepted, mishaps>>

\* Stored, but the answer is lost: the client posts it again.
PartUnanswered ==
  /\ pc \in {"file", "lifecycle"}
  /\ Acceptable
  /\ ~ Posted \subseteq stored
  /\ stored' = stored \cup Posted
  /\ UNCHANGED <<disk, memory, accepted, mishaps>>

\* The numbers of a set from the smallest to the largest.
Ascending(S) ==
  {s \in Bijection(1..Cardinality(S), S) : \A i, j \in DOMAIN s : i < j => s[i] < s[j]}

\* The lines of s that have their number in S, in order.
Lines(s, S) == {[i \in DOMAIN n |-> s[n[i]]] : n \in Ascending(S)}

\* No session, or a second 401: the part is returned to be queued again, in order.
PartFails ==
  /\ pc \in {"file", "lifecycle"}
  /\ Part # {}
  /\ Len(file) + Len(failed) + Cardinality(Part) <= MaxLength
  /\ \E lines \in Lines(batch, Part) : failed' = failed \o lines
  /\ pc' = AfterPart
  /\ UNCHANGED <<disk, offset, batch, accepted, stored, mishaps>>

-----------------------------------------------------------------------------
(* The rest of Drain holds the mutex.                                      *)

\* Mutant: failed events are left for the next drain to find.
RequeueNothing ==
  /\ pc = "requeue"
  /\ pc' = "save"
  /\ UNCHANGED <<disk, offset, batch, failed, accepted, stored, mishaps>>

\* Failed events are appended before the offset moves. One that the disk does not
\* take is logged and skipped, and the offset moves all the same.
Requeue ==
  /\ pc = "requeue"
  /\ \E out \in SUBSET DOMAIN failed :
       /\ out # {} => faults < MaxFaults
       /\ faults' = IF out = {} THEN faults ELSE faults + 1
       /\ refused' = refused \cup {failed[i] : i \in out}
       /\ failed' \in Lines(failed, DOMAIN failed \ out)
  /\ file' = file \o failed'
  /\ pc' = "save"
  /\ UNCHANGED <<saved, offset, batch, accepted, stored, crashes>>

\* The appended lines cannot be synced: Drain returns, and the next one reads the
\* same batch again, with its copies behind it.
SyncFails ==
  /\ pc = "save" /\ faults < MaxFaults
  /\ faults' = faults + 1
  /\ pc' = "idle" /\ batch' = <<>> /\ failed' = <<>>
  /\ UNCHANGED <<disk, offset, accepted, stored, refused, crashes>>

\* Mutant: an empty line is counted after the batch.
AdvanceTooFar ==
  /\ pc = "save"
  /\ offset' = offset + Len(batch) + 1
  /\ saved' = offset'
  /\ pc' = IF offset' < CompactAt THEN "idle" ELSE "compact"
  /\ batch' = <<>> /\ failed' = <<>>
  /\ UNCHANGED <<file, accepted, stored, mishaps>>

Advance ==
  /\ pc = "save"
  /\ offset' = offset + Len(batch)
  /\ saved' = offset'
  /\ pc' = IF offset' < CompactAt THEN "idle" ELSE "compact"
  /\ batch' = <<>> /\ failed' = <<>>
  /\ UNCHANGED <<file, accepted, stored, mishaps>>

\* maybeCompact: the unread lines replace the file ...
CompactRename ==
  /\ pc = "compact"
  /\ file' = SubSeq(file, offset + 1, Len(file))
  /\ pc' = "renamed"
  /\ UNCHANGED <<saved, offset, batch, failed, accepted, stored, mishaps>>

\* ... and only then is the offset reset.
CompactReset ==
  /\ pc = "renamed"
  /\ offset' = 0 /\ saved' = 0
  /\ pc' = "idle"
  /\ UNCHANGED <<file, batch, failed, accepted, stored, mishaps>>

-----------------------------------------------------------------------------

\* Mutant: an unreadable offset file is not taken for 0.
SavedAfterCrashUnchecked == IF pc \in {"save", "renamed"} THEN {saved, -1} ELSE {saved}

\* What NewEventQueue loads: saveOffset truncates the offset file before it
\* writes it, and an unreadable offset counts as 0.
SavedAfterCrash == IF pc \in {"save", "renamed"} THEN {saved, 0} ELSE {saved}

\* Failed events may not all have been appended.
FileAfterCrash ==
  IF pc = "save" THEN {SubSeq(file, 1, Len(file) - k) : k \in 0..Len(failed)} ELSE {file}

\* The agent dies, or stops with a drain still running, and starts again.
Crash ==
  /\ pc \in CrashAt /\ crashes < MaxCrashes
  /\ crashes' = crashes + 1
  /\ saved' \in SavedAfterCrash /\ offset' = saved'
  /\ file' \in FileAfterCrash
  /\ pc' = "idle" /\ batch' = <<>> /\ failed' = <<>>
  /\ UNCHANGED <<accepted, stored, refused, faults>>

Drain == DrainRead \/ Requeue \/ Advance \/ CompactRename \/ CompactReset
Send  == PartDelivered \/ PartUnanswered \/ PartFails

Next == (\E e \in Event : Enqueue(e)) \/ Drain \/ Send \/ SyncFails \/ Crash

\* The ticker drains every five seconds; the network and the session come back
\* infinitely often, for the posts of either kind.
Fairness ==
  /\ WF_vars(Drain) /\ WF_vars(PartDelivered)
  /\ \A part \in {"file", "lifecycle"} : SF_vars(pc = part /\ Part # {} /\ PartDelivered)

Spec == Init /\ [][Next]_vars /\ Fairness

-----------------------------------------------------------------------------

\* What the running agent, or one started after a crash now, would still send.
Unsent ==
  LET from == IF pc = "renamed" THEN 0 ELSE Rewound(saved)
  IN  Elements(SubSeq(file, from + 1, Len(file))) \ stored

\* The queue keeps the promise: an accepted event stays pending until the
\* backend has stored it, "a crash can only cause duplicate delivery (deduped
\* server-side by event uuid), never loss", or until the disk refused it.
Delivery == INSTANCE AuditDelivery WITH pending <- Unsent \ refused
ImplementsDelivery == Delivery!Spec

\* Every accepted event is stored or still found by the next start, unless the
\* disk refused to write it again after a failed send.
NoLoss == accepted \subseteq stored \cup Unsent \cup refused

\* The last line that needs not be read again.
Passed == IF pc = "renamed" THEN 0 ELSE IF pc = "save" THEN offset + Len(batch) ELSE offset

\* After a crash or a failed sync the part of the file that is still to be read
\* holds an unsent event twice.
Doubled ==
  /\ crashes + faults > 0
  /\ \E i, j \in {k \in DOMAIN file : k > Passed} :
       i # j /\ file[i] = file[j] /\ file[i] \notin stored

\* Every accepted event is stored in the end, unless the disk refused it or a
\* crash or a failed sync left an unsent event twice in what is still to be read,
\* whose batch the ingest action refuses.
EventuallyStored ==
  \A e \in Event : (e \in accepted) ~> (e \in stored \cup refused \/ Doubled)
=============================================================================
