--------------------------- MODULE AuditDelivery ---------------------------
(***************************************************************************)
(* What the audit queue promises: an event the agent has accepted stays    *)
(* pending until the backend has stored it, through any crash.  Nothing is *)
(* promised of an event that the disk refused to take a second time.       *)
(***************************************************************************)
CONSTANT Event

VARIABLES pending, stored, refused

Init == pending = {} /\ stored = {} /\ refused = {}

Accept(e) ==
  /\ e \notin pending \cup stored \cup refused
  /\ pending' = pending \cup {e}
  /\ UNCHANGED <<stored, refused>>

Store(events) ==
  /\ events \subseteq pending \cup refused
  /\ pending' = pending \ events
  /\ stored' = stored \cup events
  /\ UNCHANGED refused

Refuse(events) ==
  /\ events \subseteq pending \cup stored \cup refused
  /\ pending' = pending \ events
  /\ refused' = refused \cup events
  /\ UNCHANGED stored

Next ==
  \/ \E e \in Event : Accept(e)
  \/ \E events \in SUBSET Event : Store(events) \/ Refuse(events)

Spec == Init /\ [][Next]_<<pending, stored, refused>>
=============================================================================
