------------------------------ MODULE ServerPage ------------------------------
(***************************************************************************)
(* The detail page of one server (detail.tsx) between the stored server,   *)
(* the websocket channel it listens to (useServerSocket.ts) and its query  *)
(* cache (useServer.ts), one entry per time span of the charts.            *)
(*                                                                         *)
(* A change of the server gets a number. Some are announced when they are  *)
(* stored, some inside a transaction that is still open, some never. An    *)
(* announcement carries no data: the page answers it with a fetch.         *)
(***************************************************************************)
EXTENDS Naturals, Sequences

CONSTANTS
    Spans,       \* time spans the page can show
    Default,     \* the span of a page that was just opened
    MaxChanges,  \* bound: changes of the server
    MaxMishaps,  \* bound: failed fetches, refused joins, dropped connections
    MaxVisits    \* bound: times the page is opened again, and spans selected

ASSUME ConstantsAssumption ==
    /\ Default \in Spans
    /\ MaxChanges \in Nat /\ MaxMishaps \in Nat /\ MaxVisits \in Nat

Statuses == {"pending", "waiting", "first", "online", "offline", "uninstalled"}
Installed == {"first", "online", "offline"}
Row == [version: Nat, status: Statuses, token: BOOLEAN]
NoRow == [version |-> 0, status |-> "pending", token |-> FALSE]
Message == [kind: {"status", "gone"}, version: Nat, early: BOOLEAN]

VARIABLES
    server,   \* the stored server; token: it has an active provision token
    tx,       \* what the open transaction will store; NoRow without one
    wire,     \* announcements on their way to this browser
    channel,  \* the subscription to server.{uuid}
    open,     \* whether the page is shown
    live,     \* "enabled" of the running effect: status events are bound
    span,     \* the time span selected
    last,     \* placeholder while a span has no data (keepPreviousData)
    rows,     \* the query cache
    invalid,  \* isInvalidated, per span
    fetch,    \* the fetch under way per span
    answer,   \* what that fetch read
    post,     \* the change a request of this page made, its answer on the way
    due,      \* history: the change a span was told of and will show; 0 once shown
    changes, mishaps, visits  \* bounds

backend == <<server, tx, changes>>
socket == <<wire, channel, live>>
page == <<open, span, last, visits>>
cache == <<rows, invalid, fetch, answer>>
vars == <<backend, socket, page, cache, post, due, mishaps>>

TypeOK ==
    /\ server \in Row /\ tx \in Row
    /\ wire \in Seq(Message)
    /\ channel \in {"left", "joining", "joined", "refused"}
    /\ open \in BOOLEAN /\ live \in BOOLEAN /\ span \in Spans /\ last \in Row
    /\ rows \in [Spans -> Row] /\ invalid \in [Spans -> BOOLEAN]
    /\ fetch \in [Spans -> {"idle", "sent", "answered"}]
    /\ answer \in [Spans -> Row]
    /\ post \in Nat /\ due \in [Spans -> Nat]
    /\ changes \in Nat /\ mishaps \in Nat /\ visits \in Nat

\* The data of the span, or of the span before it.
Recent == IF rows[span] # NoRow THEN rows[span] ELSE last
\* "initial" of the page: a span whose first fetch failed has no placeholder.
Shown == IF rows[span] = NoRow /\ fetch[span] = "idle" THEN NoRow ELSE Recent
ProvisionLive(r) == r = NoRow \/ r.token \/ r.status = "first"

\* The page of a server that is about to be installed, or of one that is silent,
\* to which the bound allows one change less.
Init ==
    /\ \E s \in {"waiting", "offline"} :
         /\ server = [version |-> 1, status |-> s, token |-> s = "waiting"]
         /\ changes = IF s = "offline" THEN 1 ELSE 0
    /\ tx = NoRow /\ wire = <<>> /\ channel = "joining"
    /\ open = TRUE /\ live = TRUE /\ span = Default /\ last = NoRow
    /\ rows = [k \in Spans |-> NoRow] /\ invalid = [k \in Spans |-> FALSE]
    /\ fetch = [k \in Spans |-> IF k = Default THEN "sent" ELSE "idle"]
    /\ answer = [k \in Spans |-> NoRow]
    /\ post = 0 /\ due = [k \in Spans |-> 0]
    /\ mishaps = 0 /\ visits = 0

-----------------------------------------------------------------------------
(* The server *)

Changed(s, t) == [version |-> server.version + 1, status |-> s, token |-> t]

\* A broadcast reaches whoever is subscribed at that moment.
Announce(kind, early) ==
    wire' = IF channel # "joined" THEN wire
            ELSE Append(wire, [kind |-> kind, version |-> server.version + 1, early |-> early])

Free == tx = NoRow /\ changes < MaxChanges
Store(r) == server' = r /\ changes' = changes + 1 /\ UNCHANGED tx

\* The request came from this page, or from anybody else; one whose answer is
\* lost is like anybody else's.
Mine(mine) ==
    IF mine THEN open /\ post = 0 /\ post' = server.version + 1 ELSE UNCHANGED post

\* Broadcast inside the transaction, before anybody can read the change.
Begin(r, kind, mine) ==
    /\ Free
    /\ tx' = r /\ changes' = changes + 1
    /\ Announce(kind, TRUE)
    /\ Mine(mine)
    /\ UNCHANGED <<server, channel, live, page, cache, due, mishaps>>

Register ==
    /\ server.status = "waiting" /\ server.token
    /\ Begin(Changed("first", FALSE), "status", FALSE)
BringOnline ==
    /\ server.status \in {"first", "offline"}
    /\ Begin(Changed("online", FALSE), "status", FALSE)
\* By the agent, or by the dashboard while the agent has other servers; the
\* status event the dashboard's sends as well tells a page no more.
Detach(mine) ==
    server.status \in Installed /\ Begin(Changed("uninstalled", FALSE), "gone", mine)

Commit ==
    /\ tx # NoRow
    /\ server' = tx /\ tx' = NoRow
    /\ UNCHANGED <<changes, socket, page, cache, post, due, mishaps>>

\* revokeAgentRecord: announced after the transaction.
Uninstall(mine) ==
    /\ Free /\ server.status \in Installed
    /\ Store(Changed("uninstalled", FALSE))
    /\ Announce("gone", FALSE)
    /\ Mine(mine)
    /\ UNCHANGED <<channel, live, page, cache, due, mishaps>>

\* Name, description, fee: the status event is sent for any update.
Edit(mine) ==
    /\ Free
    /\ Store(Changed(server.status, server.token))
    /\ Announce("status", FALSE)
    /\ Mine(mine)
    /\ UNCHANGED <<channel, live, page, cache, due, mishaps>>

GoOffline ==
    /\ Free /\ server.status \in Installed \ {"offline"}
    /\ Store(Changed("offline", FALSE))
    /\ Announce("status", FALSE)
    /\ UNCHANGED <<channel, live, page, cache, post, due, mishaps>>

\* The monitor brings it back: announced after its store.
Recover ==
    /\ Free /\ server.status = "offline"
    /\ Store(Changed("online", FALSE))
    /\ Announce("status", FALSE)
    /\ UNCHANGED <<channel, live, page, cache, post, due, mishaps>>

\* A token for the installation command. No page listens to its event.
Provision(mine) ==
    /\ Free /\ server.status \in Statuses \ Installed
    /\ Store(Changed("waiting", TRUE))
    /\ Mine(mine)
    /\ UNCHANGED <<socket, page, cache, due, mishaps>>

TokenLapses ==
    /\ Free /\ server.status = "waiting"
    /\ Store(Changed("pending", FALSE))
    /\ UNCHANGED <<socket, page, cache, post, due, mishaps>>

-----------------------------------------------------------------------------
(* The query cache *)

\* Mutant: the fetch starts in a stage that nothing serves.
ObserveLoading(k, aged) ==
    fetch' = IF rows[k] = NoRow \/ invalid[k] \/ aged THEN [fetch EXCEPT ![k] = "loading"] ELSE fetch

\* An observer that finds no data, or stale data, fetches; a fetch that is
\* already under way is not repeated.
Observe(k, aged) ==
    fetch' = IF fetch[k] = "idle" /\ (rows[k] = NoRow \/ invalid[k] \/ aged)
             THEN [fetch EXCEPT ![k] = "sent"] ELSE fetch

\* Mutant: a fetch under way is kept.
RefetchesIdle == open /\ fetch[span] = "idle"

\* Mutant: data are only marked stale.
RefetchesEmpty == open /\ rows[span] = NoRow

\* While the first data of the span are loading, the running fetch is kept.
Refetches == open /\ (rows[span] # NoRow \/ fetch[span] = "idle")

\* invalidateQueries(["server", uuid]): every span is stale, the one on the
\* page is fetched anew and the fetch under way for it is dropped.
Invalidate(v, promised) ==
    /\ invalid' = [k \in Spans |-> TRUE]
    /\ fetch' = IF Refetches THEN [fetch EXCEPT ![span] = "sent"] ELSE fetch
    /\ due' = IF promised /\ open /\ rows[span] # NoRow /\ due[span] < v
              THEN [due EXCEPT ![span] = v] ELSE due
    /\ UNCHANGED <<rows, answer>>

\* The request is answered from what is committed. Finding the heartbeat too
\* old, it turns the server offline first, silently.
Read(k, late) ==
    /\ fetch[k] = "sent"
    /\ \/ late /\ Free /\ server.status = "online" /\ Store(Changed("offline", FALSE))
       \/ ~late /\ UNCHANGED backend
    /\ fetch' = [fetch EXCEPT ![k] = "answered"]
    /\ answer' = [answer EXCEPT ![k] = server']
    /\ UNCHANGED <<socket, page, rows, invalid, post, due, mishaps>>

\* Mutant: the answer goes to the span that is selected now.
LoadIntoSelected(k) ==
    /\ fetch[k] = "answered"
    /\ rows' = [rows EXCEPT ![span] = answer[k]]
    /\ invalid' = [invalid EXCEPT ![k] = FALSE]
    /\ fetch' = [fetch EXCEPT ![k] = "idle"]
    /\ answer' = [answer EXCEPT ![k] = NoRow]
    /\ UNCHANGED <<backend, socket, page, post, due, mishaps>>

Load(k) ==
    /\ fetch[k] = "answered"
    /\ rows' = [rows EXCEPT ![k] = answer[k]]
    /\ invalid' = [invalid EXCEPT ![k] = FALSE]
    /\ fetch' = [fetch EXCEPT ![k] = "idle"]
    /\ answer' = [answer EXCEPT ![k] = NoRow]
    /\ last' = IF k = span THEN NoRow ELSE last
    /\ due' = IF due[k] <= answer[k].version THEN [due EXCEPT ![k] = 0] ELSE due
    /\ UNCHANGED <<backend, socket, open, span, visits, post, mishaps>>

Mishap == mishaps < MaxMishaps /\ mishaps' = mishaps + 1

\* retry: false
FetchFails(k) ==
    /\ fetch[k] # "idle" /\ Mishap
    /\ fetch' = [fetch EXCEPT ![k] = "idle"]
    /\ answer' = [answer EXCEPT ![k] = NoRow]
    /\ invalid' = [invalid EXCEPT ![k] = TRUE]
    /\ due' = [due EXCEPT ![k] = 0]
    /\ UNCHANGED <<backend, socket, page, rows, post>>

-----------------------------------------------------------------------------
(* The page *)

\* The effect runs again when "enabled" changed: the channel is left and joined.
Rebind ==
    /\ open /\ live # ProvisionLive(Shown)
    /\ live' = ProvisionLive(Shown) /\ channel' = "joining"
    /\ UNCHANGED <<backend, wire, page, cache, post, due, mishaps>>

Join ==
    /\ channel = "joining" /\ channel' = "joined"
    /\ UNCHANGED <<backend, wire, live, page, cache, post, due, mishaps>>

Refuse ==
    /\ channel = "joining" /\ channel' = "refused" /\ Mishap
    /\ UNCHANGED <<backend, wire, live, page, cache, post, due>>

\* The connection drops and comes back: what was on its way is lost and the
\* channel is joined again; nothing is fetched.
Reconnect ==
    /\ open /\ Mishap
    /\ wire' = <<>> /\ channel' = "joining"
    /\ UNCHANGED <<backend, live, page, cache, post, due>>

Handles(m) == open /\ (m.kind = "gone" \/ live)

Hear ==
    /\ wire # <<>>
    /\ wire' = Tail(wire)
    /\ IF Handles(Head(wire))
       THEN Invalidate(Head(wire).version, ~Head(wire).early)
       ELSE UNCHANGED <<cache, due>>
    /\ UNCHANGED <<backend, channel, live, page, post, mishaps>>

\* The answer to a request of this page, sent after its commit; it is handled
\* after the page was left, too.
PostAnswered ==
    /\ post # 0 /\ post <= server.version /\ post' = 0
    /\ Invalidate(post, TRUE)
    /\ UNCHANGED <<backend, socket, page, mishaps>>

Visit == visits < MaxVisits /\ visits' = visits + 1

Select(k, aged) ==
    /\ open /\ k # span /\ Visit
    /\ span' = k /\ last' = IF rows[k] = NoRow THEN Recent ELSE NoRow
    /\ Observe(k, aged)
    /\ UNCHANGED <<backend, socket, open, rows, invalid, answer, post, due, mishaps>>

\* The page goes with what it selected and bound; the cache stays.
Leave ==
    /\ open /\ open' = FALSE
    /\ span' = Default /\ last' = NoRow
    /\ live' = FALSE /\ channel' = "left"
    /\ UNCHANGED <<backend, wire, visits, cache, post, due, mishaps>>

Return(aged) ==
    /\ ~open /\ open' = TRUE /\ Visit
    /\ live' = ProvisionLive(rows[Default]) /\ channel' = "joining"
    /\ Observe(Default, aged)
    /\ UNCHANGED <<backend, wire, span, last, rows, invalid, answer, post, due, mishaps>>

-----------------------------------------------------------------------------
ServerStep ==
    \/ Register \/ BringOnline \/ Commit \/ GoOffline \/ Recover \/ TokenLapses
    \/ \E mine \in BOOLEAN : Detach(mine) \/ Uninstall(mine) \/ Edit(mine) \/ Provision(mine)

FetchStep(k) == (\E late \in BOOLEAN : Read(k, late)) \/ Load(k) \/ FetchFails(k)

PageStep ==
    \/ Rebind \/ Join \/ Refuse \/ Reconnect \/ Hear \/ PostAnswered \/ Leave
    \/ \E aged \in BOOLEAN : Return(aged) \/ \E k \in Spans : Select(k, aged)

Next == ServerStep \/ PageStep \/ \E k \in Spans : FetchStep(k)

\* Transactions end, requests are answered, announcements arrive.
Fairness ==
    /\ WF_vars(Commit) /\ WF_vars(Hear)
    /\ \A k \in Spans : WF_vars(Read(k, FALSE)) /\ WF_vars(Load(k))

Spec == Init /\ [][Next]_vars /\ Fairness

-----------------------------------------------------------------------------
(* Properties *)

\* A change the page was told of after it was committed, on a span that had
\* data, stays under fetch until it is shown: no answer read before the change
\* can end the wait (useServerSocket.ts 160-175, detail.tsx 283-288).
HeardIsFetched ==
    \A k \in Spans : due[k] > rows[k].version =>
        /\ fetch[k] # "idle"
        /\ fetch[k] = "answered" => answer[k].version >= due[k]

\* Such a change is shown in the end, unless the fetch for it fails.
HeardIsShown ==
    \A k \in Spans : []<>(due[k] <= rows[k].version)

\* The entry of a span never goes back to an older state of the server, however
\* fetches, events, spans and visits overlap (useServer.ts).
NeverGoesBack == [][\A k \in Spans : rows'[k].version >= rows[k].version]_vars
=============================================================================
