-------------------------- MODULE AuditQueueProofs --------------------------
(***************************************************************************)
(* The audit queue keeps its promise for every set of events, every size   *)
(* of batch, file and threshold and every number of crashes, as long as no *)
(* crash falls between the rename of a compaction and the reset of the     *)
(* offset; where one does, only the types below are left.                  *)
(***************************************************************************)
EXTENDS AuditQueue, FiniteSetTheorems, TLAPS

-----------------------------------------------------------------------------
(* Types, and where the batch and its failed events lie in the file.       *)

Types == TypeOK /\ saved = offset

Draining == {"file", "lifecycle", "requeue", "save"}

Places ==
  /\ pc \in Draining => offset + Len(batch) <= Len(file)
  /\ pc = "save" => offset + Len(batch) + Len(failed) <= Len(file)
  /\ pc \notin Draining => batch = <<>> /\ failed = <<>>
  /\ pc = "file" => failed = <<>>
  /\ pc = "compact" => offset <= Len(file)

\* A part of a sequence, by its elements.
LEMMA Slice ==
  ASSUME NEW S, NEW s \in Seq(S), NEW m \in Nat, NEW n \in Nat, m <= n, n <= Len(s)
  PROVE  /\ SubSeq(s, m + 1, n) \in Seq(S) /\ Len(SubSeq(s, m + 1, n)) = n - m
         /\ \A i \in 1..(n - m) : SubSeq(s, m + 1, n)[i] = s[m + i]
OBVIOUS

\* The lines taken out of a sequence, by their elements.
LEMMA LinesInOrder ==
  ASSUME NEW s \in Seq(Event), NEW S \in SUBSET DOMAIN s, NEW t \in Lines(s, S)
  PROVE  t \in Seq(Event) /\ Elements(t) = {s[i] : i \in S}
<1>. DEFINE n == Cardinality(S)
<1>1. n \in Nat
  <2>1. S \subseteq 1..Len(s) OBVIOUS
  <2>2. IsFiniteSet(1..Len(s)) BY FS_Interval
  <2>. QED BY <2>1, <2>2, FS_Subset, FS_CardinalityType
<1>2. PICK q \in Ascending(S) : t = [i \in DOMAIN q |-> s[q[i]]] BY DEF Lines
<1>3. q \in [1..n -> S] /\ \A p \in S : \E i \in 1..n : q[i] = p
  BY DEF Ascending, Bijection, Injection, Surjection
<1>4. \A i \in 1..n : q[i] \in DOMAIN s BY <1>3
<1>5. t \in [1..n -> Event] BY <1>2, <1>3, <1>4
<1>6. t \in Seq(Event) /\ DOMAIN t = 1..n BY <1>1, <1>5
<1>7. \A i \in 1..n : t[i] = s[q[i]] BY <1>2, <1>3
<1>8. Elements(t) \subseteq {s[i] : i \in S} BY <1>3, <1>6, <1>7 DEF Elements
<1>9. {s[i] : i \in S} \subseteq Elements(t) BY <1>3, <1>6, <1>7 DEF Elements
<1>. QED BY <1>6, <1>8, <1>9

\* What a part that is not delivered adds to the failed events.
LEMMA FailedPart ==
  ASSUME batch \in Seq(Event), NEW t \in Lines(batch, Part)
  PROVE  t \in Seq(Event) /\ Elements(t) = Posted
<1>1. Part \in SUBSET DOMAIN batch BY DEF Part
<1>. QED BY <1>1, LinesInOrder DEF Posted

\* What a requeue appends, and what the disk refuses of it.
LEMMA Requeued ==
  ASSUME Types, Requeue
  PROVE  /\ failed' \in Seq(Event) /\ refused' \subseteq Event /\ faults' \in Nat
         /\ Elements(failed') \subseteq Elements(failed)
         /\ refused \subseteq refused' /\ refused' \subseteq refused \cup Elements(failed)
         /\ Elements(failed) \subseteq Elements(failed') \cup refused'
<1>1. failed \in Seq(Event) /\ refused \subseteq Event /\ faults \in Nat BY DEF Types, TypeOK
<1>2. PICK out \in SUBSET DOMAIN failed :
        /\ faults' = (IF out = {} THEN faults ELSE faults + 1)
        /\ refused' = refused \cup {failed[i] : i \in out}
        /\ failed' \in Lines(failed, DOMAIN failed \ out)
  BY DEF Requeue
<1>3. DOMAIN failed \ out \in SUBSET DOMAIN failed OBVIOUS
<1>4. failed' \in Seq(Event) /\ Elements(failed') = {failed[i] : i \in DOMAIN failed \ out}
  BY <1>1, <1>2, <1>3, LinesInOrder
<1>5. {failed[i] : i \in out} \subseteq Event BY <1>1
<1>6. Elements(failed) = {failed[i] : i \in out} \cup {failed[i] : i \in DOMAIN failed \ out}
  BY DEF Elements
<1>7. faults' \in Nat BY <1>1, <1>2
<1>. QED BY <1>1, <1>2, <1>4, <1>5, <1>6, <1>7

\* What the drain reads lies behind the offset.
LEMMA Read ==
  ASSUME file \in Seq(Event), NEW off \in Nat, off <= Len(file)
  PROVE  /\ ReadFrom(off) \in Seq(Event) /\ off + Len(ReadFrom(off)) <= Len(file)
         /\ \A i \in 1..Len(ReadFrom(off)) : ReadFrom(off)[i] = file[off + i]
<1>. DEFINE n == IF Len(file) < off + MaxBatch THEN Len(file) ELSE off + MaxBatch
<1>1. n \in Nat /\ off <= n /\ n <= Len(file) BY BatchAssumption
<1>2. ReadFrom(off) = SubSeq(file, off + 1, n) BY DEF ReadFrom
<1>. QED BY <1>1, <1>2, Slice

LEMMA RewoundFits ==
  ASSUME Types
  PROVE  Rewound(offset) \in Nat /\ Rewound(offset) <= Len(file)
BY DEF Types, TypeOK, Rewound

LEMMA InitTypes == Init => Types /\ Places
BY DEF Init, Types, Places, TypeOK, PC, Draining

LEMMA TypesInductive == Types /\ Places /\ [Next]_vars => Types' /\ Places'
<1>. SUFFICES ASSUME Types, Places, [Next]_vars PROVE Types' /\ Places'
  OBVIOUS
<1>. USE DEF disk, memory, mishaps
<1>0. TypeOK /\ saved = offset BY DEF Types
<1>1. CASE UNCHANGED vars BY <1>1 DEF vars, Types, TypeOK, Places
<1>2. ASSUME NEW e \in Event, Enqueue(e) PROVE Types' /\ Places'
  <2>1. /\ file' = Append(file, e) /\ accepted' = accepted \cup {e} /\ pc \notin Locked
        /\ UNCHANGED <<saved, offset, pc, batch, failed, stored, refused, crashes, faults>>
    BY <1>2 DEF Enqueue
  <2>2. file' \in Seq(Event) /\ Len(file') = Len(file) + 1 BY <1>0, <2>1 DEF TypeOK
  <2>3. Types' BY <1>0, <2>1, <2>2 DEF Types, TypeOK
  <2>4. Places' BY <1>0, <2>1, <2>2 DEF Places, TypeOK, Locked, Draining
  <2>. QED BY <2>3, <2>4
<1>3. CASE DrainRead
  <2>. DEFINE off == Rewound(offset)
  <2>1. /\ pc = "idle" /\ offset' = off /\ saved' = (IF offset > Len(file) THEN 0 ELSE saved)
        /\ batch' = ReadFrom(off) /\ pc' = (IF batch' = <<>> THEN "idle" ELSE "file")
        /\ UNCHANGED <<file, failed, accepted, stored, refused, crashes, faults>>
    BY <1>3 DEF DrainRead
  <2>2. off \in Nat /\ off <= Len(file) BY RewoundFits
  <2>3. batch' \in Seq(Event) /\ off + Len(batch') <= Len(file) BY <1>0, <2>1, <2>2, Read DEF TypeOK
  <2>4. saved' = off BY <1>0, <2>1 DEF Rewound
  <2>5. pc' \in {"idle", "file"} BY <2>1
  <2>6. Types' BY <1>0, <2>1, <2>2, <2>3, <2>4, <2>5 DEF Types, TypeOK, PC
  <2>7. failed = <<>> BY <2>1 DEF Places, Draining
  <2>8. Places' BY <2>1, <2>2, <2>3, <2>5, <2>7 DEF Places, Draining
  <2>. QED BY <2>6, <2>8
<1>4. CASE PartDelivered \/ PartUnanswered
  <2>1. /\ pc \in {"file", "lifecycle"} /\ stored' = stored \cup Posted
        /\ pc' \in {pc, AfterPart} /\ (pc' = "file" => pc = "file")
        /\ UNCHANGED <<file, saved, offset, batch, failed, accepted, refused, crashes, faults>>
    BY <1>4 DEF PartDelivered, PartUnanswered, AfterPart
  <2>2. Posted \subseteq Event BY <1>0 DEF TypeOK, Posted, Part
  <2>3. pc' \in {"file", "lifecycle", "requeue"} BY <2>1 DEF AfterPart
  <2>4. Types' BY <1>0, <2>1, <2>2, <2>3 DEF Types, TypeOK, PC
  <2>5. Places' BY <2>1, <2>3 DEF Places, Draining
  <2>. QED BY <2>4, <2>5
<1>5. CASE PartFails
  <2>1. PICK t \in Lines(batch, Part) : failed' = failed \o t
    BY <1>5 DEF PartFails
  <2>2. failed' \in Seq(Event) BY <1>0, <2>1, FailedPart DEF TypeOK
  <2>3. /\ pc \in {"file", "lifecycle"} /\ pc' = AfterPart
        /\ UNCHANGED <<file, saved, offset, batch, accepted, stored, refused, crashes, faults>>
    BY <1>5 DEF PartFails
  <2>4. pc' \in {"lifecycle", "requeue"} BY <2>3 DEF AfterPart
  <2>5. Types' BY <1>0, <2>2, <2>3, <2>4 DEF Types, TypeOK, PC
  <2>6. Places' BY <2>3, <2>4 DEF Places, Draining
  <2>. QED BY <2>5, <2>6
<1>6. CASE Requeue
  <2>1. /\ pc = "requeue" /\ pc' = "save" /\ file' = file \o failed'
        /\ UNCHANGED <<saved, offset, batch, accepted, stored, crashes>>
    BY <1>6 DEF Requeue
  <2>2. failed' \in Seq(Event) /\ refused' \subseteq Event /\ faults' \in Nat BY <1>6, Requeued
  <2>3. file' \in Seq(Event) /\ Len(file') = Len(file) + Len(failed') BY <1>0, <2>1, <2>2 DEF TypeOK
  <2>4. Types' BY <1>0, <2>1, <2>2, <2>3 DEF Types, TypeOK, PC
  <2>5. offset + Len(batch) <= Len(file) BY <2>1 DEF Places, Draining
  <2>6. Places' BY <1>0, <2>1, <2>2, <2>3, <2>5 DEF Places, Draining, TypeOK
  <2>. QED BY <2>4, <2>6
<1>7. CASE Advance
  <2>1. /\ pc = "save" /\ offset' = offset + Len(batch) /\ saved' = offset'
        /\ pc' \in {"idle", "compact"} /\ batch' = <<>> /\ failed' = <<>>
        /\ UNCHANGED <<file, accepted, stored, refused, crashes, faults>>
    BY <1>7 DEF Advance
  <2>2. offset' \in Nat /\ offset' <= Len(file) BY <1>0, <2>1 DEF Places, Draining, TypeOK
  <2>3. Types' BY <1>0, <2>1, <2>2 DEF Types, TypeOK, PC
  <2>4. Places' BY <2>1, <2>2 DEF Places, Draining
  <2>. QED BY <2>3, <2>4
<1>8. CASE CompactRename
  <2>1. /\ pc = "compact" /\ pc' = "renamed" /\ file' = SubSeq(file, offset + 1, Len(file))
        /\ UNCHANGED <<saved, offset, batch, failed, accepted, stored, refused, crashes, faults>>
    BY <1>8 DEF CompactRename
  <2>2. file' \in Seq(Event) BY <1>0, <2>1, Slice DEF TypeOK, Places
  <2>3. Types' BY <1>0, <2>1, <2>2 DEF Types, TypeOK, PC
  <2>4. Places' BY <2>1 DEF Places, Draining
  <2>. QED BY <2>3, <2>4
<1>9. CASE CompactReset
  BY <1>0, <1>9 DEF CompactReset, Types, TypeOK, PC, Places, Draining
<1>10. CASE Crash
  <2>1. /\ crashes' = crashes + 1 /\ saved' \in {saved, 0} /\ offset' = saved'
        /\ pc' = "idle" /\ batch' = <<>> /\ failed' = <<>>
        /\ UNCHANGED <<accepted, stored, refused, faults>>
    BY <1>10 DEF Crash, SavedAfterCrash
  <2>2. file' \in Seq(Event)
    <3>1. CASE file' = file BY <1>0, <3>1 DEF TypeOK
    <3>2. CASE pc = "save"
      <4>1. PICK k \in 0..Len(failed) : file' = SubSeq(file, 1, Len(file) - k)
        BY <1>10, <3>2 DEF Crash, FileAfterCrash
      <4>2. Len(file) - k \in Nat /\ Len(file) - k <= Len(file)
        BY <1>0, <3>2 DEF TypeOK, Places
      <4>. QED BY <1>0, <4>1, <4>2 DEF TypeOK
    <3>3. file' = file \/ pc = "save" BY <1>10 DEF Crash, FileAfterCrash
    <3>. QED BY <3>1, <3>2, <3>3
  <2>3. Types' BY <1>0, <2>1, <2>2 DEF Types, TypeOK, PC
  <2>4. Places' BY <2>1 DEF Places, Draining
  <2>. QED BY <2>3, <2>4
<1>11. CASE SyncFails
  BY <1>0, <1>11 DEF SyncFails, Types, TypeOK, PC, Places, Draining
<1>. QED BY <1>1, <1>2, <1>3, <1>4, <1>5, <1>6, <1>7, <1>8, <1>9, <1>10, <1>11 DEF Next, Drain, Send

\* The offset stays a position and every file a sequence of events, wherever the
\* agent dies (saveOffset, readBatch, maybeCompact).
THEOREM TypeCorrect == Spec => []TypeOK
<1>1. Types => TypeOK BY DEF Types
<1>. QED BY <1>1, InitTypes, TypesInductive, PTL DEF Spec

-----------------------------------------------------------------------------
(* Content.  What is accepted and not stored, nor refused by the disk, is  *)
(* in the file behind the place from which the next start would read; the  *)
(* batch is the piece of the file after the offset, and what was sent of   *)
(* it without success is in failed, or refused.                            *)

From == IF pc = "renamed" THEN 0 ELSE offset

Recorded ==
  Elements(file) \subseteq accepted /\ stored \subseteq accepted /\ refused \subseteq accepted

Owed == accepted \ (stored \cup refused)

StillQueued == \A e \in Owed : \E k \in DOMAIN file : k > From /\ file[k] = e

BatchIsRead ==
  /\ \A i \in DOMAIN batch : batch[i] = file[offset + i]
  /\ Elements(failed) \subseteq Elements(batch)

Settled(events) == \A e \in Elements(batch) \cap events : e \in stored \cup refused \cup Elements(failed)

Appended == \A i \in DOMAIN failed : failed[i] = file[Len(file) - Len(failed) + i]

Content ==
  /\ pc # "renamed" => offset <= Len(file)
  /\ Recorded /\ StillQueued
  /\ pc \in Draining => BatchIsRead
  /\ pc = "lifecycle" => Settled(FileEvent)
  /\ pc \in {"requeue", "save"} => Settled(Event)
  /\ pc = "save" => Appended

IInv == Types /\ Places /\ Content

LEMMA Members ==
  ASSUME NEW S, NEW s \in Seq(S), NEW t \in Seq(S)
  PROVE  /\ Elements(s \o t) = Elements(s) \cup Elements(t)
         /\ \A e \in S : Elements(Append(s, e)) = Elements(s) \cup {e}
<1>1. /\ DOMAIN (s \o t) = 1..(Len(s) + Len(t)) /\ DOMAIN s = 1..Len(s) /\ DOMAIN t = 1..Len(t)
      /\ \A i \in 1..Len(s) : (s \o t)[i] = s[i]
      /\ \A i \in 1..Len(t) : (s \o t)[Len(s) + i] = t[i]
  OBVIOUS
<1>2. Elements(s \o t) \subseteq Elements(s) \cup Elements(t)
  <2>1. ASSUME NEW i \in 1..(Len(s) + Len(t)) PROVE (s \o t)[i] \in Elements(s) \cup Elements(t)
    <3>1. CASE i <= Len(s) BY <1>1, <3>1 DEF Elements
    <3>2. CASE i > Len(s)
      <4>1. i - Len(s) \in 1..Len(t) /\ i = Len(s) + (i - Len(s)) BY <3>2
      <4>. QED BY <1>1, <4>1 DEF Elements
    <3>. QED BY <3>1, <3>2
  <2>. QED BY <1>1, <2>1 DEF Elements
<1>3. Elements(s) \cup Elements(t) \subseteq Elements(s \o t)
  <2>1. \A i \in 1..Len(s) : i \in 1..(Len(s) + Len(t)) OBVIOUS
  <2>2. \A i \in 1..Len(t) : Len(s) + i \in 1..(Len(s) + Len(t)) OBVIOUS
  <2>. QED BY <1>1, <2>1, <2>2 DEF Elements
<1>4. ASSUME NEW e \in S PROVE Elements(Append(s, e)) = Elements(s) \cup {e}
  <2>1. /\ DOMAIN Append(s, e) = 1..(Len(s) + 1) /\ Append(s, e)[Len(s) + 1] = e
        /\ \A i \in 1..Len(s) : Append(s, e)[i] = s[i]
    OBVIOUS
  <2>2. \A i \in 1..(Len(s) + 1) : i = Len(s) + 1 \/ i \in 1..Len(s) OBVIOUS
  <2>3. Len(s) + 1 \in 1..(Len(s) + 1) /\ \A i \in 1..Len(s) : i \in 1..(Len(s) + 1) OBVIOUS
  <2>. QED BY <1>1, <2>1, <2>2, <2>3 DEF Elements
<1>. QED BY <1>2, <1>3, <1>4

LEMMA InitContent == Init => Content
BY DEF Init, Content, Recorded, StillQueued, Owed, Elements, Draining

\* What lies in the batch was accepted.
LEMMA BatchIsAccepted ==
  ASSUME IInv, pc \in Draining
  PROVE  Elements(batch) \subseteq accepted
<1>1. /\ offset \in Nat /\ batch \in Seq(Event) /\ file \in Seq(Event)
      /\ offset + Len(batch) <= Len(file)
      /\ \A j \in DOMAIN batch : batch[j] = file[offset + j]
  BY DEF IInv, Types, TypeOK, Places, Content, BatchIsRead
<1>2. \A j \in DOMAIN batch : offset + j \in DOMAIN file BY <1>1
<1>. QED BY <1>1, <1>2 DEF IInv, Content, Recorded, Elements

LEMMA EnqueueKeepsContent ==
  ASSUME IInv, Types', NEW e \in Event, Enqueue(e)
  PROVE  Content'
<1>1. /\ file' = Append(file, e) /\ accepted' = accepted \cup {e} /\ pc \notin Locked
      /\ UNCHANGED <<saved, offset, pc, batch, failed, stored, refused>>
  BY DEF Enqueue, memory, mishaps
<1>2. /\ file \in Seq(Event) /\ batch \in Seq(Event) /\ offset \in Nat /\ Content /\ Places
      /\ offset <= Len(file)
  BY <1>1 DEF IInv, Types, TypeOK, Content, Locked
<1>3. /\ DOMAIN file = 1..Len(file) /\ DOMAIN file' = 1..(Len(file) + 1) /\ Len(file') = Len(file) + 1
      /\ file'[Len(file) + 1] = e /\ \A k \in 1..Len(file) : file'[k] = file[k]
  BY <1>1, <1>2
<1>4. Recorded' BY <1>1, <1>2, Members DEF Content, Recorded
<1>5. StillQueued'
  <2>1. From' = offset /\ From = offset BY <1>1 DEF From, Locked
  <2>2. Len(file) + 1 \in DOMAIN file' /\ Len(file) + 1 > offset BY <1>2, <1>3
  <2>3. \A k \in DOMAIN file : k \in DOMAIN file' BY <1>2, <1>3
  <2>. QED BY <1>1, <1>2, <1>3, <2>1, <2>2, <2>3 DEF Content, StillQueued, Owed
<1>6. pc' \in Draining => BatchIsRead'
  <2>1. SUFFICES ASSUME pc \in Draining PROVE BatchIsRead'
    BY <1>1
  <2>2. \A i \in DOMAIN batch : offset + i \in 1..Len(file) BY <1>2, <2>1 DEF Places
  <2>. QED BY <1>1, <1>2, <1>3, <2>1, <2>2 DEF Content, BatchIsRead
<1>. QED BY <1>1, <1>2, <1>3, <1>4, <1>5, <1>6 DEF Content, Settled, Locked

LEMMA DrainReadKeepsContent ==
  ASSUME IInv, DrainRead
  PROVE  Content'
<1>. DEFINE off == Rewound(offset)
<1>1. /\ pc = "idle" /\ offset' = off /\ batch' = ReadFrom(off)
      /\ pc' = (IF batch' = <<>> THEN "idle" ELSE "file")
      /\ UNCHANGED <<file, failed, accepted, stored, refused>>
  BY DEF DrainRead, mishaps
<1>2. off = offset /\ off \in Nat /\ off <= Len(file) /\ file \in Seq(Event) /\ failed = <<>>
  BY <1>1 DEF IInv, Content, Types, TypeOK, Rewound, Places, Draining
<1>3. /\ batch' \in Seq(Event)
      /\ \A i \in 1..Len(batch') : batch'[i] = file[offset + i]
  BY <1>1, <1>2, Read
<1>4. pc' \in {"idle", "file"} BY <1>1
<1>5. BatchIsRead' BY <1>1, <1>2, <1>3 DEF BatchIsRead, Elements
<1>6. Recorded' /\ StillQueued'
  BY <1>1, <1>2, <1>4 DEF IInv, Content, Recorded, StillQueued, Owed, From
<1>. QED BY <1>1, <1>2, <1>4, <1>5, <1>6 DEF Content

\* The events of the part in hand are in the batch; with what was settled before
\* they complete it.
LEMMA PartOfBatch ==
  ASSUME IInv, pc \in {"file", "lifecycle"}
  PROVE  /\ Posted \subseteq Elements(batch) /\ batch \in Seq(Event)
         /\ pc = "file" => Elements(batch) \cap FileEvent \subseteq Posted
         /\ pc = "lifecycle" => Elements(batch) \subseteq Posted \cup FileEvent
<1>1. batch \in Seq(Event) BY DEF IInv, Types, TypeOK
<1>2. Elements(batch) \subseteq Event BY <1>1 DEF Elements
<1>3. Posted \subseteq Elements(batch) BY DEF Posted, Part, Elements
<1>4. CASE pc = "file" BY <1>1, <1>3, <1>4 DEF Posted, Part, Elements
<1>5. CASE pc = "lifecycle"
  <2>1. \A i \in DOMAIN batch : batch[i] \in LifecycleEvent => batch[i] \in Posted
    BY <1>5 DEF Posted, Part
  <2>2. Elements(batch) \subseteq Posted \cup FileEvent BY <1>2, <2>1 DEF Elements, Event
  <2>. QED BY <1>1, <1>3, <1>5, <2>2
<1>. QED BY <1>4, <1>5

LEMMA SendKeepsContent ==
  ASSUME IInv, Send
  PROVE  Content'
<1>1. /\ pc \in {"file", "lifecycle"} /\ pc' \in {pc, AfterPart}
      /\ UNCHANGED <<file, offset, batch, accepted, refused>>
      /\ \/ stored' = stored \cup Posted /\ failed' = failed
         \/ pc' = AfterPart /\ stored' = stored /\ Elements(failed') = Elements(failed) \cup Posted
  <2>1. CASE PartDelivered \/ PartUnanswered
    BY <2>1 DEF PartDelivered, PartUnanswered, disk, memory, mishaps
  <2>2. CASE PartFails
    <3>1. PICK t \in Lines(batch, Part) : failed' = failed \o t
      BY <2>2 DEF PartFails
    <3>2. batch \in Seq(Event) /\ failed \in Seq(Event) BY DEF IInv, Types, TypeOK
    <3>3. Elements(failed') = Elements(failed) \cup Posted BY <3>1, <3>2, FailedPart, Members
    <3>. QED BY <2>2, <3>3 DEF PartFails, disk, mishaps
  <2>. QED BY <2>1, <2>2 DEF Send
<1>2. /\ pc \in Draining /\ BatchIsRead /\ Recorded /\ StillQueued /\ offset <= Len(file)
      /\ (pc = "lifecycle" => Settled(FileEvent))
  BY <1>1 DEF IInv, Content, Draining
<1>3. Elements(batch) \subseteq accepted BY <1>2, BatchIsAccepted
<1>4. pc' \in {"file", "lifecycle", "requeue"} BY <1>1 DEF AfterPart
<1>5. Recorded' /\ StillQueued'
  <2>1. From' = From BY <1>1, <1>4 DEF From
  <2>2. stored \subseteq stored' /\ stored' \subseteq accepted BY <1>1, <1>2, <1>3, PartOfBatch DEF Recorded
  <2>. QED BY <1>1, <1>2, <2>1, <2>2 DEF Recorded, StillQueued, Owed
<1>6. BatchIsRead' BY <1>1, <1>2, PartOfBatch DEF BatchIsRead
<1>7. \A e : e \in stored \cup refused \cup Elements(failed)
             => e \in stored' \cup refused' \cup Elements(failed')
  BY <1>1
<1>8. pc' = AfterPart => \A e \in Posted : e \in stored' \cup Elements(failed') BY <1>1
<1>9. pc' = "lifecycle" => Settled(FileEvent)'
  <2>1. CASE pc = "file" /\ pc' = AfterPart
    BY <1>1, <1>8, <2>1, PartOfBatch DEF Settled
  <2>2. CASE pc = "lifecycle"
    BY <1>1, <1>2, <1>7, <2>2 DEF Settled
  <2>. QED BY <1>1, <2>1, <2>2 DEF AfterPart
<1>10. pc' \in {"requeue", "save"} => Settled(Event)'
  <2>1. SUFFICES ASSUME pc' = "requeue" PROVE Settled(Event)'
    BY <1>4
  <2>2. pc = "lifecycle" /\ pc' = AfterPart BY <1>1, <2>1 DEF AfterPart
  <2>. QED BY <1>1, <1>2, <1>7, <1>8, <2>2, PartOfBatch DEF Settled
<1>. QED BY <1>1, <1>2, <1>4, <1>5, <1>6, <1>9, <1>10 DEF Content

LEMMA RequeueKeepsContent ==
  ASSUME IInv, Requeue
  PROVE  Content'
<1>1. /\ pc = "requeue" /\ pc' = "save" /\ file' = file \o failed'
      /\ UNCHANGED <<offset, batch, accepted, stored>>
  BY DEF Requeue
<1>2. /\ file \in Seq(Event) /\ batch \in Seq(Event) /\ offset \in Nat
      /\ offset + Len(batch) <= Len(file) /\ offset <= Len(file)
      /\ BatchIsRead /\ Recorded /\ StillQueued /\ Settled(Event)
  BY <1>1 DEF IInv, Types, TypeOK, Places, Content, Draining
<1>3. /\ failed' \in Seq(Event) /\ Elements(failed') \subseteq Elements(failed)
      /\ refused \subseteq refused' /\ refused' \subseteq refused \cup Elements(failed)
      /\ Elements(failed) \subseteq Elements(failed') \cup refused'
  BY Requeued DEF IInv
<1>4. /\ Len(file') = Len(file) + Len(failed') /\ DOMAIN file = 1..Len(file)
      /\ DOMAIN file' = 1..(Len(file) + Len(failed'))
      /\ \A k \in 1..Len(file) : file'[k] = file[k]
      /\ \A k \in 1..Len(failed') : file'[Len(file) + k] = failed'[k]
  BY <1>1, <1>2, <1>3
<1>5. Elements(batch) \subseteq accepted BY <1>1, BatchIsAccepted DEF Draining
<1>6. Recorded'
  <2>1. Elements(file') = Elements(file) \cup Elements(failed') BY <1>1, <1>2, <1>3, Members
  <2>. QED BY <1>1, <1>2, <1>3, <1>5, <2>1 DEF Recorded, BatchIsRead
<1>7. \A k \in DOMAIN file : k \in DOMAIN file' BY <1>2, <1>3, <1>4
<1>8. StillQueued'
  <2>1. Owed' \subseteq Owed BY <1>1, <1>3 DEF Owed
  <2>. QED BY <1>1, <1>2, <1>4, <1>7, <2>1 DEF StillQueued, From
<1>9. BatchIsRead'
  <2>1. \A i \in DOMAIN batch : offset + i \in 1..Len(file) BY <1>2
  <2>. QED BY <1>1, <1>2, <1>3, <1>4, <2>1 DEF BatchIsRead
<1>10. Appended'
  <2>1. Len(file') - Len(failed') = Len(file) BY <1>2, <1>3, <1>4
  <2>. QED BY <1>1, <1>2, <1>3, <1>4, <2>1 DEF Appended
<1>11. offset <= Len(file') BY <1>2, <1>3, <1>4
<1>12. Settled(Event)' BY <1>1, <1>2, <1>3 DEF Settled
<1>. QED BY <1>1, <1>6, <1>8, <1>9, <1>10, <1>11, <1>12 DEF Content

\* A failed sync forgets the batch; the offset stands before it.
LEMMA SyncFailsKeepsContent ==
  ASSUME IInv, SyncFails
  PROVE  Content'
<1>1. /\ pc = "save" /\ pc' = "idle"
      /\ UNCHANGED <<file, offset, accepted, stored, refused>>
  BY DEF SyncFails, disk
<1>. QED BY <1>1 DEF IInv, Content, Recorded, StillQueued, Owed, From, Draining

\* What the offset passes over was stored, or stands behind it again.
LEMMA AdvanceKeepsContent ==
  ASSUME IInv, Advance
  PROVE  Content'
<1>1. /\ pc = "save" /\ offset' = offset + Len(batch) /\ pc' \in {"idle", "compact"}
      /\ UNCHANGED <<file, accepted, stored, refused>>
  BY DEF Advance, mishaps
<1>2. /\ file \in Seq(Event) /\ failed \in Seq(Event) /\ batch \in Seq(Event) /\ offset \in Nat
      /\ offset + Len(batch) + Len(failed) <= Len(file)
      /\ BatchIsRead /\ Recorded /\ StillQueued /\ Settled(Event) /\ Appended
  BY <1>1 DEF IInv, Types, TypeOK, Places, Content, Draining
<1>3. ASSUME NEW e \in Owed
      PROVE  \E k \in DOMAIN file : k > offset + Len(batch) /\ file[k] = e
  <2>1. PICK k \in DOMAIN file : k > offset /\ file[k] = e
    BY <1>1, <1>2 DEF StillQueued, From
  <2>2. CASE k > offset + Len(batch) BY <2>1, <2>2
  <2>3. CASE ~(k > offset + Len(batch))
    <3>1. k - offset \in DOMAIN batch /\ k = offset + (k - offset) BY <1>2, <2>1, <2>3
    <3>2. e = batch[k - offset] BY <1>2, <2>1, <3>1 DEF BatchIsRead
    <3>3. e \in Elements(batch) /\ e \in Event BY <1>2, <3>1, <3>2 DEF Elements
    <3>4. PICK j \in DOMAIN failed : failed[j] = e BY <1>2, <3>3 DEF Settled, Owed, Elements
    <3>. DEFINE l == Len(file) - Len(failed) + j
    <3>5. l \in DOMAIN file /\ l > offset + Len(batch) BY <1>2, <3>4
    <3>6. file[l] = e BY <1>2, <3>4 DEF Appended
    <3>. QED BY <3>5, <3>6
  <2>. QED BY <2>2, <2>3
<1>4. StillQueued' BY <1>1, <1>3 DEF StillQueued, Owed, From
<1>5. offset' <= Len(file) BY <1>1, <1>2
<1>6. Recorded' BY <1>1, <1>2 DEF Recorded
<1>. QED BY <1>1, <1>4, <1>5, <1>6 DEF Content, Draining

LEMMA CompactKeepsContent ==
  ASSUME IInv, CompactRename \/ CompactReset
  PROVE  Content'
<1>1. CASE CompactRename
  <2>1. /\ pc = "compact" /\ pc' = "renamed" /\ file' = SubSeq(file, offset + 1, Len(file))
        /\ UNCHANGED <<offset, batch, failed, accepted, stored, refused>>
    BY <1>1 DEF CompactRename, mishaps
  <2>2. file \in Seq(Event) /\ offset \in Nat /\ offset <= Len(file) /\ Recorded /\ StillQueued
    BY <2>1 DEF IInv, Types, TypeOK, Places, Content
  <2>3. /\ file' \in Seq(Event) /\ Len(file') = Len(file) - offset
        /\ \A i \in 1..(Len(file) - offset) : file'[i] = file[offset + i]
    BY <2>1, <2>2, Slice
  <2>4. \A i \in DOMAIN file' : offset + i \in DOMAIN file /\ file'[i] = file[offset + i]
    BY <2>2, <2>3
  <2>5. Recorded' BY <2>1, <2>2, <2>4 DEF Recorded, Elements
  <2>6. ASSUME NEW e \in Owed PROVE \E i \in DOMAIN file' : i > 0 /\ file'[i] = e
    <3>1. PICK k \in DOMAIN file : k > offset /\ file[k] = e
      BY <2>1, <2>2 DEF StillQueued, From
    <3>2. k - offset \in DOMAIN file' /\ k - offset > 0 /\ offset + (k - offset) = k
      BY <2>2, <2>3, <3>1
    <3>. QED BY <2>4, <3>1, <3>2
  <2>7. StillQueued' BY <2>1, <2>6 DEF StillQueued, Owed, From
  <2>. QED BY <2>1, <2>5, <2>7 DEF Content, Draining
<1>2. CASE CompactReset
  <2>1. /\ pc = "renamed" /\ pc' = "idle" /\ offset' = 0
        /\ UNCHANGED <<file, batch, failed, accepted, stored, refused>>
    BY <1>2 DEF CompactReset, mishaps
  <2>2. file \in Seq(Event) /\ Recorded /\ StillQueued BY DEF IInv, Types, TypeOK, Content
  <2>3. Recorded' /\ StillQueued' BY <2>1, <2>2 DEF Recorded, StillQueued, Owed, From
  <2>4. offset' <= Len(file') BY <2>1, <2>2
  <2>. QED BY <2>1, <2>3, <2>4 DEF Content, Draining
<1>. QED BY <1>1, <1>2

\* A crash forgets the batch and perhaps the last copies and the offset; the
\* originals are still behind it.
LEMMA CrashKeepsContent ==
  ASSUME IInv, "renamed" \notin CrashAt, Crash
  PROVE  Content'
<1>1. /\ pc # "renamed" /\ pc' = "idle" /\ saved' \in {saved, 0} /\ offset' = saved'
      /\ file' \in FileAfterCrash /\ UNCHANGED <<accepted, stored, refused>>
  BY DEF Crash, SavedAfterCrash
<1>2. /\ file \in Seq(Event) /\ failed \in Seq(Event) /\ batch \in Seq(Event) /\ offset \in Nat
      /\ saved = offset /\ offset <= Len(file) /\ Recorded /\ StillQueued
  BY <1>1 DEF IInv, Types, TypeOK, Content
<1>3. offset' \in Nat /\ offset' <= offset BY <1>1, <1>2
<1>4. CASE file' = file
  <2>1. StillQueued'
    <3>1. From' <= From /\ From' \in Nat /\ From \in Nat BY <1>1, <1>2, <1>3 DEF From
    <3>2. \A k \in DOMAIN file : k > From => k > From' BY <1>2, <3>1
    <3>. QED BY <1>1, <1>2, <1>4, <3>2 DEF StillQueued, Owed
  <2>2. Recorded' BY <1>1, <1>2, <1>4 DEF Recorded
  <2>3. offset' <= Len(file') BY <1>2, <1>3, <1>4
  <2>. QED BY <1>1, <2>1, <2>2, <2>3 DEF Content, Draining
<1>5. CASE pc = "save"
  <2>1. PICK n \in 0..Len(failed) : file' = SubSeq(file, 1, Len(file) - n)
    BY <1>1, <1>5 DEF FileAfterCrash
  <2>2. /\ offset + Len(batch) + Len(failed) <= Len(file) /\ BatchIsRead /\ Appended
    BY <1>5 DEF IInv, Places, Content, Draining
  <2>3. /\ Len(file') = Len(file) - n /\ DOMAIN file' = 1..(Len(file) - n)
        /\ \A k \in 1..(Len(file) - n) : file'[k] = file[k]
    BY <1>2, <2>1, <2>2
  <2>4. \A k \in DOMAIN file' : k \in DOMAIN file BY <1>2, <2>3
  <2>5. Recorded' BY <1>1, <1>2, <2>3, <2>4 DEF Recorded, Elements
  <2>6. ASSUME NEW e \in Owed PROVE \E k \in DOMAIN file' : k > offset' /\ file'[k] = e
    <3>1. PICK k \in DOMAIN file : k > offset /\ file[k] = e
      BY <1>1, <1>2 DEF StillQueued, From
    <3>2. CASE k <= Len(file) - n
      BY <1>2, <1>3, <2>3, <3>1, <3>2
    <3>3. CASE ~(k <= Len(file) - n)
      <4>. DEFINE j == k - (Len(file) - Len(failed))
      <4>1. j \in DOMAIN failed /\ Len(file) - Len(failed) + j = k BY <1>2, <3>1, <3>3
      <4>2. failed[j] = e BY <2>2, <3>1, <4>1 DEF Appended
      <4>3. e \in Elements(batch) BY <2>2, <4>1, <4>2 DEF BatchIsRead, Elements
      <4>4. PICK i \in DOMAIN batch : batch[i] = e BY <4>3 DEF Elements
      <4>5. offset + i \in DOMAIN file' /\ offset + i > offset' BY <1>2, <1>3, <2>2, <2>3, <4>4
      <4>6. file'[offset + i] = e BY <2>2, <2>3, <4>4, <4>5 DEF BatchIsRead
      <4>. QED BY <4>5, <4>6
    <3>. QED BY <3>2, <3>3
  <2>7. StillQueued' BY <1>1, <2>6 DEF StillQueued, Owed, From
  <2>8. offset' <= Len(file') BY <1>2, <1>3, <2>2, <2>3
  <2>. QED BY <1>1, <2>5, <2>7, <2>8 DEF Content, Draining
<1>6. pc = "save" \/ file' = file BY <1>1 DEF FileAfterCrash
<1>. QED BY <1>4, <1>5, <1>6

LEMMA Inductive ==
  ASSUME "renamed" \notin CrashAt
  PROVE  IInv /\ [Next]_vars => IInv'
<1>. SUFFICES ASSUME IInv, [Next]_vars PROVE IInv'
  OBVIOUS
<1>1. Types' /\ Places' BY TypesInductive DEF IInv
<1>2. CASE UNCHANGED vars
  BY <1>1, <1>2 DEF vars, disk, memory, mishaps, IInv, Content, Recorded, StillQueued, Owed,
                    BatchIsRead, Settled, Appended, From
<1>3. CASE Next
  BY <1>1, <1>3, EnqueueKeepsContent, DrainReadKeepsContent, SendKeepsContent, RequeueKeepsContent,
     SyncFailsKeepsContent, AdvanceKeepsContent, CompactKeepsContent, CrashKeepsContent
     DEF Next, Drain, IInv
<1>. QED BY <1>2, <1>3

LEMMA Invariance ==
  ASSUME "renamed" \notin CrashAt
  PROVE  Spec => []IInv
<1>1. Init => IInv BY InitTypes, InitContent DEF IInv
<1>2. IInv /\ [Next]_vars => IInv' BY Inductive
<1>. QED BY <1>1, <1>2, PTL DEF Spec

\* What is pending is exactly what was accepted and is neither stored nor refused.
LEMMA UnsentIsOwed == IInv => Unsent \ refused = Owed
<1>. SUFFICES ASSUME IInv PROVE Unsent \ refused = Owed
  OBVIOUS
<1>1. /\ file \in Seq(Event) /\ From \in Nat /\ From <= Len(file) /\ Recorded /\ StillQueued
  BY DEF IInv, Types, TypeOK, Content, From
<1>2. From = IF pc = "renamed" THEN 0 ELSE Rewound(saved)
  BY DEF IInv, Types, TypeOK, Content, From, Rewound
<1>. DEFINE rest == SubSeq(file, From + 1, Len(file))
<1>3. Unsent = Elements(rest) \ stored BY <1>2 DEF Unsent
<1>4. /\ rest \in Seq(Event) /\ Len(rest) = Len(file) - From
      /\ \A i \in 1..(Len(file) - From) : rest[i] = file[From + i]
  BY <1>1, Slice
<1>5. \A i \in DOMAIN rest : From + i \in DOMAIN file /\ rest[i] = file[From + i]
  BY <1>1, <1>4
<1>6. Elements(rest) \subseteq accepted BY <1>1, <1>5 DEF Recorded, Elements
<1>7. ASSUME NEW e \in Owed PROVE e \in Elements(rest)
  <2>1. PICK k \in DOMAIN file : k > From /\ file[k] = e BY <1>1 DEF StillQueued
  <2>2. k - From \in DOMAIN rest /\ From + (k - From) = k BY <1>1, <1>4, <2>1
  <2>3. rest[k - From] = e BY <1>5, <2>1, <2>2
  <2>. QED BY <2>2, <2>3 DEF Elements
<1>. QED BY <1>3, <1>6, <1>7 DEF Owed

\* An accepted event is stored or found by the next start, whenever the agent dies
\* except inside a compaction, unless the disk refused to take it again (requeue
\* before advance, Drain).
THEOREM NothingIsLost ==
  ASSUME "renamed" \notin CrashAt
  PROVE  Spec => []NoLoss
<1>1. IInv => NoLoss BY UnsentIsOwed DEF NoLoss, Owed
<1>. QED BY <1>1, Invariance, PTL

\* One step of the queue is one step of the promise, or none.
LEMMA StepImplements ==
  ASSUME IInv, IInv', [Next]_vars
  PROVE  [Delivery!Next]_<<Unsent \ refused, stored, refused>>
<1>1. Unsent \ refused = Owed /\ Unsent' \ refused' = Owed'
  <2>1. IInv' => (Unsent \ refused = Owed)' BY UnsentIsOwed, PTL
  <2>. QED BY <2>1, UnsentIsOwed
<1>2. stored \subseteq accepted /\ refused \subseteq accepted /\ accepted \subseteq Event
  BY DEF IInv, Content, Recorded, Types, TypeOK
<1>3. ASSUME NEW e \in Event, Enqueue(e) PROVE Delivery!Next
  <2>1. e \notin accepted /\ accepted' = accepted \cup {e} /\ stored' = stored /\ refused' = refused
    BY <1>3 DEF Enqueue, mishaps
  <2>2. Delivery!Accept(e) BY <1>1, <1>2, <2>1 DEF Delivery!Accept, Owed
  <2>. QED BY <2>2 DEF Delivery!Next
<1>4. CASE PartDelivered \/ PartUnanswered
  <2>1. /\ pc \in {"file", "lifecycle"} /\ stored' = stored \cup Posted /\ accepted' = accepted
        /\ refused' = refused
    BY <1>4 DEF PartDelivered, PartUnanswered, mishaps
  <2>2. Posted \subseteq accepted
    <3>1. pc \in Draining BY <2>1 DEF Draining
    <3>. QED BY <2>1, <3>1, PartOfBatch, BatchIsAccepted
  <2>3. Delivery!Store(Posted \ stored) BY <1>1, <2>1, <2>2 DEF Delivery!Store, Owed
  <2>. QED BY <1>2, <2>2, <2>3 DEF Delivery!Next
<1>5. CASE Requeue
  <2>1. stored' = stored /\ accepted' = accepted /\ refused \subseteq refused' BY <1>5, Requeued DEF Requeue, IInv
  <2>2. refused' \subseteq accepted
    <3>1. IInv' => (refused \subseteq accepted)' BY DEF IInv, Content, Recorded
    <3>. QED BY <2>1, <3>1
  <2>3. Delivery!Refuse(refused') BY <1>1, <1>2, <2>1, <2>2 DEF Delivery!Refuse, Owed
  <2>. QED BY <1>2, <2>2, <2>3 DEF Delivery!Next
<1>6. CASE UNCHANGED <<accepted, stored, refused>>
  BY <1>1, <1>6 DEF Owed
<1>7. \/ \E e \in Event : Enqueue(e)
      \/ PartDelivered \/ PartUnanswered
      \/ Requeue
      \/ UNCHANGED <<accepted, stored, refused>>
  BY DEF Next, Drain, Send, vars, mishaps, DrainRead, SyncFails, Advance, CompactRename, CompactReset,
         PartFails, Crash
<1>. QED BY <1>3, <1>4, <1>5, <1>6, <1>7

\* The queue implements AuditDelivery: an accepted event stays pending until the
\* backend has stored it or the disk refused it, through failures, lost answers
\* and crashes.
THEOREM QueueDelivers ==
  ASSUME "renamed" \notin CrashAt
  PROVE  Spec => ImplementsDelivery
<1>1. Init => Delivery!Init
  <2>. SUFFICES ASSUME Init PROVE Delivery!Init
    OBVIOUS
  <2>1. Unsent \ refused = Owed BY InitTypes, InitContent, UnsentIsOwed DEF IInv
  <2>. QED BY <2>1 DEF Init, Owed, Delivery!Init
<1>2. IInv /\ IInv' /\ [Next]_vars => [Delivery!Next]_<<Unsent \ refused, stored, refused>>
  BY StepImplements
<1>. QED BY <1>1, <1>2, Invariance, PTL DEF Spec, ImplementsDelivery, Delivery!Spec

=============================================================================
