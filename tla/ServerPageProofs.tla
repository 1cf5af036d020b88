--------------------------- MODULE ServerPageProofs ---------------------------
(***************************************************************************)
(* Types of ServerPage, what it keeps of a change it was told of, and why  *)
(* its cache never goes back, for every set of spans and every bound.      *)
(***************************************************************************)
EXTENDS ServerPage, TLAPS

\* Numbers order everything the page holds: an entry is not newer than the answer
\* on its way to it, an answer not newer than the server, and nobody is told of
\* a committed change before it is stored.
Ordered ==
    /\ tx = NoRow \/ tx.version = server.version + 1
    /\ \A k \in Spans : rows[k].version <= server.version
    /\ \A k \in Spans : fetch[k] = "answered" =>
          /\ rows[k].version <= answer[k].version
          /\ answer[k].version <= server.version
    /\ \A k \in Spans : due[k] <= server.version
    /\ \A i \in 1..Len(wire) : ~wire[i].early => wire[i].version <= server.version
    /\ post <= server.version \/ (tx # NoRow /\ post = tx.version)

IInv == TypeOK /\ Ordered /\ HeardIsFetched

\* The initial state has its types.
LEMMA InitTypes == ASSUME Init PROVE TypeOK
<1>. USE ConstantsAssumption
<1>1. server \in Row /\ tx \in Row /\ last \in Row /\ changes \in Nat
  <2>1. PICK s \in {"waiting", "offline"} :
          /\ server = [version |-> 1, status |-> s, token |-> s = "waiting"]
          /\ changes = IF s = "offline" THEN 1 ELSE 0
    BY DEF Init
  <2>. QED BY <2>1 DEF Init, Row, NoRow, Statuses
<1>2. wire \in Seq(Message) BY DEF Init
<1>3. rows \in [Spans -> Row] /\ answer \in [Spans -> Row] BY DEF Init, Row, NoRow, Statuses
<1>4. fetch \in [Spans -> {"idle", "sent", "answered"}] BY DEF Init
<1>. QED BY <1>1, <1>2, <1>3, <1>4 DEF Init, TypeOK

\* Nothing is held yet, so nothing is out of order.
LEMMA InitOrdered == ASSUME Init PROVE Ordered /\ HeardIsFetched
<1>1. Ordered BY DEF Init, Ordered, NoRow
<1>2. HeardIsFetched BY DEF Init, HeardIsFetched, NoRow
<1>. QED BY <1>1, <1>2

\* A changed server is a row with the next number.
LEMMA ChangedRow ==
    ASSUME server \in Row, NEW s \in Statuses, NEW t \in BOOLEAN
    PROVE  /\ Changed(s, t) \in Row
           /\ Changed(s, t).version = server.version + 1
           /\ Changed(s, t) # NoRow
BY DEF Changed, Row, NoRow

\* A broadcast appends at most one message, numbered as the change to come.
LEMMA AnnounceWire ==
    ASSUME server \in Row, wire \in Seq(Message), NEW kind \in {"status", "gone"},
           NEW early \in BOOLEAN, Announce(kind, early)
    PROVE  /\ wire' \in Seq(Message)
           /\ \A i \in 1..Len(wire') :
                 \/ i \in 1..Len(wire) /\ wire'[i] = wire[i]
                 \/ wire'[i].early = early /\ wire'[i].version = server.version + 1
<1>. DEFINE m == [kind |-> kind, version |-> server.version + 1, early |-> early]
<1>1. m \in Message BY DEF Message, Row
<1>2. CASE channel # "joined" BY <1>2 DEF Announce
<1>3. CASE channel = "joined"
  <2>1. wire' = Append(wire, m) BY <1>3 DEF Announce
  <2>2. m.early = early /\ m.version = server.version + 1 OBVIOUS
  <2>. QED BY <1>1, <2>1, <2>2
<1>. QED BY <1>2, <1>3

\* A change that is stored at once, announced or not, by this page or not.
LEMMA StoreStep ==
    ASSUME IInv, NEW s \in Statuses, NEW t \in BOOLEAN, tx = NoRow, Store(Changed(s, t)),
           wire' \in Seq(Message),
           \A i \in 1..Len(wire') : wire'[i].early \/ wire'[i].version <= server.version + 1,
           UNCHANGED <<channel, live, page, cache, due, mishaps>>,
           post' = post \/ post' = server.version + 1
    PROVE  IInv'
<1>. DEFINE r == Changed(s, t)
<1>1. r \in Row /\ r.version = server.version + 1 BY ChangedRow DEF IInv, TypeOK
<1>2. server.version \in Nat BY DEF IInv, TypeOK, Row
<1>3. TypeOK' BY <1>1, <1>2 DEF IInv, TypeOK, Store, page, cache
<1>4. Ordered'
  <2>1. server'.version = server.version + 1 /\ tx' = NoRow BY <1>1 DEF Store
  <2>2. \A k \in Spans : rows[k].version \in Nat /\ answer[k].version \in Nat /\ due[k] \in Nat
    BY DEF IInv, TypeOK, Row
  <2>3. \A i \in 1..Len(wire') : ~wire'[i].early => wire'[i].version <= server'.version BY <2>1
  <2>4. post' <= server'.version BY <1>2, <2>1 DEF IInv, Ordered, TypeOK
  <2>5. \A k \in Spans : rows'[k].version <= server'.version /\ due'[k] <= server'.version
    BY <1>2, <2>1, <2>2 DEF IInv, Ordered, cache
  <2>6. \A k \in Spans : fetch'[k] = "answered" =>
            rows'[k].version <= answer'[k].version /\ answer'[k].version <= server'.version
    BY <1>2, <2>1, <2>2 DEF IInv, Ordered, cache
  <2>. QED BY <2>1, <2>3, <2>4, <2>5, <2>6 DEF Ordered
<1>5. HeardIsFetched' BY DEF IInv, HeardIsFetched, cache
<1>. QED BY <1>3, <1>4, <1>5 DEF IInv

\* The numbers are natural numbers.
LEMMA Numbers ==
    ASSUME TypeOK
    PROVE  /\ server.version \in Nat
           /\ \A i \in 1..Len(wire) : wire[i].version \in Nat
           /\ \A k \in Spans : rows[k].version \in Nat /\ answer[k].version \in Nat /\ due[k] \in Nat
           /\ post \in Nat
<1>1. server.version \in Nat BY DEF TypeOK, Row
<1>2. \A i \in 1..Len(wire) : wire[i].version \in Nat
  <2>1. wire \in Seq(Message) BY DEF TypeOK
  <2>2. \A i \in 1..Len(wire) : wire[i] \in Message BY <2>1
  <2>. QED BY <2>2 DEF Message
<1>3. \A k \in Spans : rows[k] \in Row /\ answer[k] \in Row /\ due[k] \in Nat BY DEF TypeOK
<1>4. \A k \in Spans : rows[k].version \in Nat /\ answer[k].version \in Nat BY <1>3 DEF Row
<1>5. post \in Nat BY DEF TypeOK
<1>. QED BY <1>1, <1>2, <1>3, <1>4, <1>5

\* A step of the server's other life that touches neither cache nor numbers.
LEMMA QuietStep ==
    ASSUME IInv, TypeOK', UNCHANGED <<server, tx, cache, due, post>>,
           \A i \in 1..Len(wire') : \E j \in 1..Len(wire) : wire'[i] = wire[j]
    PROVE  IInv'
<1>1. Ordered' BY DEF IInv, Ordered, cache
<1>2. HeardIsFetched' BY DEF IInv, HeardIsFetched, cache
<1>. QED BY <1>1, <1>2 DEF IInv

\* A transaction begins: what it announced is numbered as what it will store.
LEMMA BeginStep ==
    ASSUME IInv, NEW s \in Statuses, NEW kind \in {"status", "gone"}, NEW mine \in BOOLEAN,
           Begin(Changed(s, FALSE), kind, mine)
    PROVE  IInv'
<1>1. server \in Row /\ wire \in Seq(Message) BY DEF IInv, TypeOK
<1>2. /\ Changed(s, FALSE) \in Row /\ Changed(s, FALSE).version = server.version + 1
  BY <1>1, ChangedRow
<1>3. /\ wire' \in Seq(Message)
      /\ \A i \in 1..Len(wire') : \/ i \in 1..Len(wire) /\ wire'[i] = wire[i]
                                 \/ wire'[i].early
  BY <1>1, AnnounceWire DEF Begin
<1>7. post' = post \/ post' = server.version + 1 BY DEF Begin, Mine
<1>4. TypeOK'
  <2>1. tx' = Changed(s, FALSE) BY DEF Begin
  <2>3. tx' \in Row BY <1>2, <2>1, Zenon
  <2>4. changes' \in Nat BY DEF IInv, TypeOK, Begin
  <2>2. UNCHANGED <<server, channel, live, page, cache, due, mishaps>> BY DEF Begin
  <2>5. post' \in Nat BY <1>7, Numbers DEF IInv
  <2>. QED BY <1>3, <2>2, <2>3, <2>4, <2>5 DEF IInv, TypeOK, page, cache
<1>5. Ordered'
  <2>1. tx' = Changed(s, FALSE) /\ tx = NoRow /\ server' = server BY DEF Begin, Free
  <2>2. tx'.version = server'.version + 1 /\ tx' # NoRow
    BY <1>2, <2>1, Numbers DEF IInv, Changed, NoRow
  <2>3. post' <= server'.version \/ (tx' # NoRow /\ post' = tx'.version)
    BY <1>7, <2>1, <2>2 DEF IInv, Ordered
  <2>. QED BY <1>3, <2>1, <2>2, <2>3 DEF IInv, Ordered, Begin, cache
<1>6. HeardIsFetched' BY DEF IInv, HeardIsFetched, Begin, cache
<1>. QED BY <1>4, <1>5, <1>6 DEF IInv

\* It commits: the server takes the next number.
LEMMA CommitStep == ASSUME IInv, Commit PROVE IInv'
<1>1. TypeOK' BY DEF IInv, TypeOK, Commit, NoRow, Row, Statuses, socket, page, cache
<1>2. Ordered'
  <2>1. server'.version = server.version + 1 /\ tx' = NoRow /\ server' = tx
    BY DEF IInv, Ordered, Commit
  <2>2. post' <= server'.version BY <2>1, Numbers DEF IInv, Ordered, Commit
  <2>. QED BY <2>1, <2>2, Numbers DEF IInv, Ordered, Commit, socket, cache
<1>3. HeardIsFetched' BY DEF IInv, HeardIsFetched, Commit, cache
<1>. QED BY <1>1, <1>2, <1>3 DEF IInv

\* Every step of the server.
LEMMA ServerSteps == ASSUME IInv, ServerStep PROVE IInv'
<1>. USE DEF Statuses, Installed
<1>1. server \in Row /\ wire \in Seq(Message) BY DEF IInv, TypeOK
<1>2. ASSUME NEW kind \in {"status", "gone"}, Announce(kind, FALSE)
      PROVE  /\ wire' \in Seq(Message)
             /\ \A i \in 1..Len(wire') : wire'[i].early \/ wire'[i].version <= server.version + 1
  <2>1. /\ wire' \in Seq(Message)
        /\ \A i \in 1..Len(wire') : \/ i \in 1..Len(wire) /\ wire'[i] = wire[i]
                                   \/ wire'[i].version = server.version + 1
    BY <1>1, <1>2, AnnounceWire
  <2>. QED BY <2>1, Numbers DEF IInv, Ordered
<1>3. ASSUME UNCHANGED socket
      PROVE  /\ wire' \in Seq(Message)
             /\ \A i \in 1..Len(wire') : wire'[i].early \/ wire'[i].version <= server.version + 1
  <2>. QED BY <1>1, <1>3, Numbers DEF IInv, Ordered, socket
<1>4. CASE Register BY <1>4, BeginStep DEF Register
<1>5. CASE BringOnline BY <1>5, BeginStep DEF BringOnline
<1>6. ASSUME NEW mine \in BOOLEAN, Detach(mine) PROVE IInv' BY <1>6, BeginStep DEF Detach
<1>7. CASE Commit BY <1>7, CommitStep
<1>8. CASE GoOffline BY <1>8, <1>2, StoreStep DEF GoOffline, Free
<1>13. CASE Recover BY <1>13, <1>2, StoreStep DEF Recover, Free
<1>9. CASE TokenLapses BY <1>9, <1>3, StoreStep DEF TokenLapses, Free, socket
<1>10. ASSUME NEW mine \in BOOLEAN, Uninstall(mine) PROVE IInv'
  <2>1. post' = post \/ post' = server.version + 1 BY <1>10 DEF Uninstall, Mine
  <2>. QED BY <1>10, <1>2, <2>1, StoreStep DEF Uninstall, Free
<1>11. ASSUME NEW mine \in BOOLEAN, Edit(mine) PROVE IInv'
  <2>1. post' = post \/ post' = server.version + 1 BY <1>11 DEF Edit, Mine
  <2>2. server.status \in Statuses /\ server.token \in BOOLEAN BY <1>1 DEF Row
  <2>. QED BY <1>11, <1>2, <2>1, <2>2, StoreStep DEF Edit, Free
<1>12. ASSUME NEW mine \in BOOLEAN, Provision(mine) PROVE IInv'
  <2>1. post' = post \/ post' = server.version + 1 BY <1>12 DEF Provision, Mine
  <2>. QED BY <1>12, <1>3, <2>1, StoreStep DEF Provision, Free, socket
<1>. QED BY <1>4, <1>5, <1>6, <1>7, <1>8, <1>9, <1>10, <1>11, <1>12, <1>13 DEF ServerStep

\* Being told of a change that is stored: the answer under way is dropped for a
\* new one, or the span had no data and nothing is promised.
LEMMA InvalidateKeeps ==
    ASSUME IInv, NEW v \in Nat, NEW promised \in BOOLEAN, promised => v <= server.version,
           Invalidate(v, promised), UNCHANGED <<server, tx>>, post' \in Nat,
           post' = 0 \/ post' = post,
           \A i \in 1..Len(wire') : ~wire'[i].early => wire'[i].version <= server.version
    PROVE  Ordered' /\ HeardIsFetched' /\ due' \in [Spans -> Nat]
           /\ fetch' \in [Spans -> {"idle", "sent", "answered"}]
<1>1. /\ due \in [Spans -> Nat] /\ span \in Spans
      /\ fetch \in [Spans -> {"idle", "sent", "answered"}]
  BY DEF IInv, TypeOK
<1>2. due' \in [Spans -> Nat] /\ fetch' \in [Spans -> {"idle", "sent", "answered"}]
  BY <1>1 DEF Invalidate
<1>3. \A k \in Spans : fetch'[k] = fetch[k] \/ fetch'[k] = "sent" BY <1>1 DEF Invalidate
<1>4. \A k \in Spans : due'[k] = due[k] \/ (due'[k] = v /\ fetch'[k] = "sent" /\ v <= server.version)
  BY <1>1 DEF Invalidate, Refetches
<1>5. Ordered'
  <2>1. \A k \in Spans : rows'[k].version <= server'.version /\ due'[k] <= server'.version
    BY <1>4 DEF IInv, Ordered, Invalidate
  <2>2. \A k \in Spans : fetch'[k] = "answered" =>
            rows'[k].version <= answer'[k].version /\ answer'[k].version <= server'.version
    BY <1>3 DEF IInv, Ordered, Invalidate
  <2>3. post' <= server'.version \/ (tx' # NoRow /\ post' = tx'.version)
    BY Numbers DEF IInv, Ordered
  <2>. QED BY <2>1, <2>2, <2>3 DEF IInv, Ordered
<1>6. HeardIsFetched' BY <1>3, <1>4 DEF IInv, HeardIsFetched, Invalidate
<1>. QED BY <1>2, <1>5, <1>6

\* An announcement is taken off the wire.
LEMMA HearStep == ASSUME IInv, Hear PROVE IInv'
<1>. DEFINE m == Head(wire)
<1>1. /\ wire \in Seq(Message) /\ wire # <<>> /\ wire' = Tail(wire)
  BY DEF IInv, TypeOK, Hear
<1>2. /\ wire' \in Seq(Message) /\ m \in Message /\ m = wire[1] /\ 1 \in 1..Len(wire)
      /\ \A i \in 1..Len(wire') : i + 1 \in 1..Len(wire) /\ wire'[i] = wire[i + 1]
  BY <1>1
<1>3. m.version \in Nat /\ m.early \in BOOLEAN /\ (~m.early => m.version <= server.version)
  BY <1>2 DEF Message, IInv, Ordered
<1>4. \A i \in 1..Len(wire') : ~wire'[i].early => wire'[i].version <= server.version
  BY <1>2 DEF IInv, Ordered
<1>5. CASE Handles(m)
  <2>1. /\ Invalidate(m.version, ~m.early)
        /\ UNCHANGED <<backend, channel, live, page, post, mishaps>>
    BY <1>5 DEF Hear
  <2>2. post' \in Nat /\ post' = post BY <2>1 DEF IInv, TypeOK
  <2>3. /\ Ordered' /\ HeardIsFetched' /\ due' \in [Spans -> Nat]
        /\ fetch' \in [Spans -> {"idle", "sent", "answered"}]
    BY <1>3, <1>4, <2>1, <2>2, InvalidateKeeps DEF backend
  <2>5. TypeOK' BY <1>2, <2>1, <2>3 DEF IInv, TypeOK, Invalidate, backend, page
  <2>. QED BY <2>3, <2>5 DEF IInv
<1>6. CASE ~Handles(m)
  <2>1. UNCHANGED <<cache, due, backend, channel, live, page, post, mishaps>> BY <1>6 DEF Hear
  <2>2. TypeOK' BY <1>2, <2>1 DEF IInv, TypeOK, cache, backend, page
  <2>. QED BY <1>2, <2>1, <2>2, QuietStep DEF backend
<1>. QED BY <1>5, <1>6

\* The answer to a request of the page.
LEMMA PostAnsweredStep == ASSUME IInv, PostAnswered PROVE IInv'
<1>1. post \in Nat /\ post <= server.version /\ server.version \in Nat
  BY Numbers DEF IInv, PostAnswered
<1>2. /\ Invalidate(post, TRUE) /\ UNCHANGED <<server, tx, wire>> /\ post' = 0
  BY DEF PostAnswered, backend, socket
<1>3. \A i \in 1..Len(wire') : ~wire'[i].early => wire'[i].version <= server.version
  BY <1>2 DEF IInv, Ordered
<1>4. /\ Ordered' /\ HeardIsFetched' /\ due' \in [Spans -> Nat]
      /\ fetch' \in [Spans -> {"idle", "sent", "answered"}]
  <2>1. TRUE \in BOOLEAN /\ post' \in Nat /\ post' = 0 BY <1>2
  <2>. QED BY <1>1, <1>2, <1>3, <2>1, InvalidateKeeps
<1>5. TypeOK' BY <1>4 DEF IInv, TypeOK, PostAnswered, Invalidate, backend, socket, page
<1>. QED BY <1>4, <1>5 DEF IInv

\* The steps of the channel and of navigation that start no fetch.
LEMMA PlainPageSteps ==
    ASSUME IInv, Rebind \/ Join \/ Refuse \/ Reconnect \/ Leave
    PROVE  IInv'
<1>. USE DEF backend, page, cache
<1>1. CASE Rebind
  <2>1. TypeOK' BY <1>1 DEF IInv, TypeOK, Rebind, ProvisionLive
  <2>. QED BY <1>1, <2>1, QuietStep DEF Rebind
<1>2. CASE Join
  <2>1. TypeOK' BY <1>2 DEF IInv, TypeOK, Join
  <2>. QED BY <1>2, <2>1, QuietStep DEF Join
<1>3. CASE Refuse
  <2>1. TypeOK' BY <1>3 DEF IInv, TypeOK, Refuse, Mishap
  <2>. QED BY <1>3, <2>1, QuietStep DEF Refuse
<1>4. CASE Reconnect
  <2>1. TypeOK' BY <1>4 DEF IInv, TypeOK, Reconnect, Mishap
  <2>. QED BY <1>4, <2>1, QuietStep DEF Reconnect
<1>5. CASE Leave
  <2>2. NoRow \in Row BY DEF NoRow, Row, Statuses
  <2>1. TypeOK' BY <1>5, <2>2, ConstantsAssumption DEF IInv, TypeOK, Leave
  <2>. QED BY <1>5, <2>1, QuietStep DEF Leave
<1>. QED BY <1>1, <1>2, <1>3, <1>4, <1>5

\* An observer comes: at most a fetch starts where none was.
LEMMA ObserveKeeps ==
    ASSUME IInv, NEW k \in Spans, NEW aged \in BOOLEAN, Observe(k, aged), TypeOK',
           UNCHANGED <<server, tx, wire, rows, answer, due, post>>
    PROVE  IInv'
<1>1. fetch \in [Spans -> {"idle", "sent", "answered"}] BY DEF IInv, TypeOK
<1>2. \A j \in Spans : fetch'[j] = fetch[j] \/ (fetch[j] = "idle" /\ fetch'[j] = "sent")
  BY <1>1 DEF Observe
<1>3. Ordered' BY <1>2 DEF IInv, Ordered
<1>4. HeardIsFetched' BY <1>2 DEF IInv, HeardIsFetched
<1>. QED BY <1>3, <1>4 DEF IInv

\* Another span is selected, or the page is opened again.
LEMMA ObserverSteps ==
    ASSUME IInv, NEW aged \in BOOLEAN, Return(aged) \/ \E k \in Spans : Select(k, aged)
    PROVE  IInv'
<1>1. NoRow \in Row BY DEF NoRow, Row, Statuses
<1>2. \A k \in Spans : rows[k] \in Row BY DEF IInv, TypeOK
<1>3. CASE Return(aged)
  <2>1. TypeOK'
    <3>1. fetch' \in [Spans -> {"idle", "sent", "answered"}]
      BY <1>3, ConstantsAssumption DEF IInv, TypeOK, Return, Observe
    <3>2. open' \in BOOLEAN /\ visits' \in Nat /\ span' \in Spans /\ last' \in Row /\ channel' = "joining"
      BY <1>1, <1>3, ConstantsAssumption DEF IInv, TypeOK, Return, Visit
    <3>3. live' \in BOOLEAN BY <1>3 DEF Return, ProvisionLive
    <3>. QED BY <1>3, <3>1, <3>2, <3>3 DEF IInv, TypeOK, Return, backend
  <2>. QED BY <1>3, <2>1, ObserveKeeps, ConstantsAssumption DEF Return, backend
<1>4. ASSUME NEW k \in Spans, Select(k, aged) PROVE IInv'
  <2>1. TypeOK'
    <3>1. fetch' \in [Spans -> {"idle", "sent", "answered"}] BY <1>4 DEF IInv, TypeOK, Select, Observe
    <3>2. last' \in Row BY <1>1, <1>2, <1>4 DEF IInv, TypeOK, Select, Recent
    <3>3. span' \in Spans /\ visits' \in Nat BY <1>4 DEF IInv, TypeOK, Select, Visit
    <3>. QED BY <1>4, <3>1, <3>2, <3>3 DEF IInv, TypeOK, Select, backend, socket
  <2>. QED BY <1>4, <2>1, ObserveKeeps DEF Select, backend, socket
<1>. QED BY <1>3, <1>4

\* A request is answered with the server as it is now.
LEMMA ReadStep == ASSUME IInv, NEW k \in Spans, NEW late \in BOOLEAN, Read(k, late) PROVE IInv'
<1>. USE DEF Statuses
<1>1. server \in Row BY DEF IInv, TypeOK
<1>2. /\ server' \in Row /\ server'.version \in Nat /\ server'.version >= server.version
      /\ tx' = tx /\ (tx = NoRow \/ server' = server) /\ changes' \in Nat
  <2>1. CASE late
    <3>1. Free /\ server' = Changed("offline", FALSE) /\ tx' = tx /\ changes' = changes + 1
      BY <2>1 DEF Read, Store
    <3>2. server' \in Row /\ server'.version = server.version + 1 BY <1>1, <3>1, ChangedRow
    <3>3. server.version \in Nat /\ changes \in Nat BY <1>1 DEF Row, IInv, TypeOK
    <3>4. tx' = tx /\ tx = NoRow /\ changes' \in Nat BY <3>1, <3>3 DEF Free
    <3>5. server'.version \in Nat /\ server'.version >= server.version BY <3>2, <3>3
    <3>. QED BY <3>2, <3>4, <3>5
  <2>2. CASE ~late
    <3>1. server' = server /\ tx' = tx /\ changes' = changes BY <2>2 DEF Read, backend
    <3>2. server.version \in Nat /\ changes \in Nat BY <1>1 DEF Row, IInv, TypeOK
    <3>. QED BY <1>1, <3>1, <3>2
  <2>. QED BY <2>1, <2>2
<1>3. /\ fetch[k] = "sent" /\ fetch' = [fetch EXCEPT ![k] = "answered"]
      /\ answer' = [answer EXCEPT ![k] = server']
      /\ UNCHANGED <<socket, page, rows, invalid, post, due, mishaps>>
  BY DEF Read
<1>4. TypeOK' BY <1>2, <1>3 DEF IInv, TypeOK, socket, page
<1>5. \A j \in Spans : \/ j # k /\ fetch'[j] = fetch[j] /\ answer'[j] = answer[j]
                       \/ j = k /\ answer'[j] = server'
  <2>1. fetch \in [Spans -> {"idle", "sent", "answered"}] /\ answer \in [Spans -> Row]
    BY DEF IInv, TypeOK
  <2>2. answer'[k] = server' BY <1>3, <2>1
  <2>3. \A j \in Spans : j # k => fetch'[j] = fetch[j] /\ answer'[j] = answer[j] BY <1>3, <2>1
  <2>. QED BY <2>2, <2>3
<1>6. Ordered'
  <2>1. tx' = NoRow \/ tx'.version = server'.version + 1 BY <1>2 DEF IInv, Ordered
  <2>2. \A j \in Spans : rows'[j].version <= server'.version /\ due'[j] <= server'.version
    BY <1>2, <1>3, Numbers DEF IInv, Ordered
  <2>3. \A j \in Spans : fetch'[j] = "answered" =>
            rows'[j].version <= answer'[j].version /\ answer'[j].version <= server'.version
    BY <1>2, <1>3, <1>5, <2>2, Numbers DEF IInv, Ordered
  <2>4. \A i \in 1..Len(wire') : ~wire'[i].early => wire'[i].version <= server'.version
    BY <1>2, <1>3, Numbers DEF IInv, Ordered, socket
  <2>5. post' <= server'.version \/ (tx' # NoRow /\ post' = tx'.version)
    BY <1>2, <1>3, Numbers DEF IInv, Ordered
  <2>. QED BY <2>1, <2>2, <2>3, <2>4, <2>5 DEF Ordered
<1>7. HeardIsFetched'
  <2>1. fetch' \in [Spans -> {"idle", "sent", "answered"}] /\ fetch'[k] = "answered"
    BY <1>3 DEF IInv, TypeOK
  <2>2. due[k] <= server'.version BY <1>2, Numbers DEF IInv, Ordered
  <2>. QED BY <1>3, <1>5, <2>1, <2>2 DEF IInv, HeardIsFetched
<1>. QED BY <1>4, <1>6, <1>7 DEF IInv

\* The answer arrives: it is not older than what it replaces.
LEMMA LoadStep ==
    ASSUME IInv, NEW k \in Spans, Load(k)
    PROVE  IInv' /\ \A j \in Spans : rows'[j].version >= rows[j].version
<1>1. NoRow \in Row BY DEF NoRow, Row, Statuses
<1>2. /\ rows \in [Spans -> Row] /\ answer \in [Spans -> Row] /\ due \in [Spans -> Nat]
      /\ fetch \in [Spans -> {"idle", "sent", "answered"}] /\ invalid \in [Spans -> BOOLEAN]
      /\ answer[k] \in Row
  BY DEF IInv, TypeOK
<1>3. \A j \in Spans :
        \/ j # k /\ UNCHANGED <<rows[j], fetch[j], answer[j], due[j]>>
        \/ j = k /\ rows'[j] = answer[j] /\ fetch'[j] = "idle" /\ (due'[j] = 0 \/ due'[j] = due[j])
               /\ (due[j] <= answer[j].version => due'[j] = 0)
  BY <1>2 DEF Load
<1>4. rows[k].version <= answer[k].version /\ answer[k].version <= server.version
  BY DEF IInv, Ordered, Load
<1>5. TypeOK'
  <2>1. /\ rows' \in [Spans -> Row] /\ answer' \in [Spans -> Row] /\ due' \in [Spans -> Nat]
        /\ fetch' \in [Spans -> {"idle", "sent", "answered"}] /\ invalid' \in [Spans -> BOOLEAN]
    BY <1>1, <1>2 DEF Load
  <2>2. last' \in Row BY <1>1 DEF IInv, TypeOK, Load
  <2>. QED BY <2>1, <2>2 DEF IInv, TypeOK, Load, backend, socket
<1>6. Ordered' BY <1>3, <1>4, Numbers DEF IInv, Ordered, Load, backend, socket
<1>7. HeardIsFetched'
  <2>1. due[k] <= answer[k].version
    BY <1>2, <1>4, Numbers DEF IInv, HeardIsFetched, Load
  <2>2. due'[k] = 0 /\ rows'[k].version \in Nat BY <1>3, <2>1, <1>2, Numbers DEF IInv
  <2>3. ASSUME NEW j \in Spans, due'[j] > rows'[j].version
        PROVE  fetch'[j] # "idle" /\ (fetch'[j] = "answered" => answer'[j].version >= due'[j])
    <3>1. j # k BY <2>2, <2>3
    <3>2. UNCHANGED <<rows[j], fetch[j], answer[j], due[j]>> BY <1>3, <3>1
    <3>. QED BY <2>3, <3>2 DEF IInv, HeardIsFetched
  <2>. QED BY <2>3 DEF HeardIsFetched
<1>8. \A j \in Spans : rows'[j].version >= rows[j].version
  BY <1>3, <1>4, Numbers DEF IInv
<1>. QED BY <1>5, <1>6, <1>7, <1>8 DEF IInv

\* A failed fetch leaves the data and takes the promise back.
LEMMA FetchFailsStep == ASSUME IInv, NEW k \in Spans, FetchFails(k) PROVE IInv'
<1>1. NoRow \in Row BY DEF NoRow, Row, Statuses
<1>2. \A j \in Spans : \/ j # k /\ UNCHANGED <<fetch[j], answer[j], due[j]>>
                       \/ j = k /\ fetch'[j] = "idle" /\ due'[j] = 0
  <2>1. /\ fetch \in [Spans -> {"idle", "sent", "answered"}] /\ answer \in [Spans -> Row]
        /\ due \in [Spans -> Nat]
    BY DEF IInv, TypeOK
  <2>2. /\ fetch' = [fetch EXCEPT ![k] = "idle"] /\ answer' = [answer EXCEPT ![k] = NoRow]
        /\ due' = [due EXCEPT ![k] = 0]
    BY DEF FetchFails
  <2>3. fetch'[k] = "idle" /\ due'[k] = 0 BY <2>1, <2>2
  <2>4. \A j \in Spans : j # k => fetch'[j] = fetch[j] /\ answer'[j] = answer[j] /\ due'[j] = due[j]
    BY <2>1, <2>2
  <2>. QED BY <2>3, <2>4
<1>3. TypeOK' BY <1>1 DEF IInv, TypeOK, FetchFails, Mishap, backend, socket, page
<1>4. Ordered' BY <1>2, Numbers DEF IInv, Ordered, FetchFails, backend, socket
<1>5. HeardIsFetched' BY <1>2, Numbers DEF IInv, HeardIsFetched, FetchFails
<1>. QED BY <1>3, <1>4, <1>5 DEF IInv

\* Nothing moves.
LEMMA StutterStep == ASSUME IInv, UNCHANGED vars PROVE IInv'
<1>1. TypeOK' BY DEF IInv, TypeOK, vars, backend, socket, page, cache
<1>. QED BY <1>1, QuietStep DEF vars, backend, socket

\* IInv is inductive, and only an arriving answer touches the rows.
LEMMA Inductive ==
    ASSUME IInv, [Next]_vars
    PROVE  IInv' /\ \A k \in Spans : rows'[k].version >= rows[k].version
<1>1. CASE ServerStep
  <2>1. UNCHANGED rows
    BY <1>1 DEF ServerStep, Register, BringOnline, Detach, Begin, Commit, GoOffline, Recover, TokenLapses,
                Uninstall, Edit, Provision, cache
  <2>. QED BY <1>1, <2>1, ServerSteps, Numbers DEF IInv
<1>2. CASE PageStep
  <2>1. UNCHANGED rows
    BY <1>2 DEF PageStep, Rebind, Join, Refuse, Reconnect, Hear, PostAnswered, Leave, Return, Select,
                Invalidate, cache
  <2>2. IInv'
    BY <1>2, PlainPageSteps, HearStep, PostAnsweredStep, ObserverSteps DEF PageStep
  <2>. QED BY <2>1, <2>2, Numbers DEF IInv
<1>3. ASSUME NEW k \in Spans, FetchStep(k)
      PROVE  IInv' /\ \A j \in Spans : rows'[j].version >= rows[j].version
  <2>1. CASE Load(k) BY <2>1, LoadStep
  <2>2. CASE \E late \in BOOLEAN : Read(k, late)
    <3>1. UNCHANGED rows BY <2>2 DEF Read
    <3>. QED BY <2>2, <3>1, ReadStep, Numbers DEF IInv
  <2>3. CASE FetchFails(k)
    <3>1. UNCHANGED rows BY <2>3 DEF FetchFails
    <3>. QED BY <2>3, <3>1, FetchFailsStep, Numbers DEF IInv
  <2>. QED BY <1>3, <2>1, <2>2, <2>3 DEF FetchStep
<1>4. CASE UNCHANGED vars
  <2>1. UNCHANGED rows BY <1>4 DEF vars, cache
  <2>. QED BY <1>4, <2>1, StutterStep, Numbers DEF IInv
<1>. QED BY <1>1, <1>2, <1>3, <1>4 DEF Next

\* What the theorems below draw on.
LEMMA Invariance == Spec => []IInv
<1>1. Init => IInv BY InitTypes, InitOrdered DEF IInv
<1>2. IInv /\ [Next]_vars => IInv' BY Inductive
<1>. QED BY <1>1, <1>2, PTL DEF Spec

\* Server, announcements, channel and cache keep their types.
THEOREM TypeCorrect == Spec => []TypeOK
<1>1. IInv => TypeOK BY DEF IInv
<1>. QED BY <1>1, Invariance, PTL

\* What the page was told of after its commit stays under a fetch that will read
\* it, whatever else arrives, is selected, left or opened (useServerSocket.ts).
THEOREM HeardStaysFetched == Spec => []HeardIsFetched
<1>1. IInv => HeardIsFetched BY DEF IInv
<1>. QED BY <1>1, Invariance, PTL

\* No entry of the cache is replaced by an older state of the server (useServer.ts).
THEOREM CacheMovesForward == Spec => NeverGoesBack
<1>1. IInv /\ [Next]_vars => [\A k \in Spans : rows'[k].version >= rows[k].version]_vars
  BY Inductive
<1>. QED BY <1>1, Invariance, PTL DEF Spec, NeverGoesBack
=============================================================================
