----------------------------- MODULE GraphEditor -----------------------------
(***************************************************************************)
(* The editor of alert graphs (NodeConfigEditor.tsx) between its user, the *)
(* query cache it loads from (useNodeConfigs.ts) and the stored configs of *)
(* the scopes (NodeConfigController).                                      *)
(*                                                                         *)
(* A change of the graph enters the undo history 300 ms later, unless it   *)
(* falls into the frame after an undo or a deletion; the settings panel    *)
(* works on a copy of its node; a config is loaded once per scope, and a   *)
(* save, its answer and the fetch that follows it arrive on their own.     *)
(***************************************************************************)
EXTENDS Naturals, Sequences, FiniteSets

CONSTANTS
    Nodes,       \* identities of graph nodes; a new node takes one nobody has
    Settings,    \* keys of a node's data
    Repeat,      \* the setting that "apply capability" turns on
    Compatible,  \* pairs of nodes whose sockets fit
    Scopes,      \* slugs of configs
    Global,      \* the slug "alerts"
    First,       \* the node the global config starts with
    MaxEdits,    \* bound: changes of the graph since the page was loaded
    MaxSaves     \* bound: saves, by this user and by others

ASSUME ConstantsAssumption ==
    /\ Repeat \in Settings
    /\ Compatible \subseteq Nodes \X Nodes
    /\ Global \in Scopes
    /\ First \in Nodes
    /\ "none" \notin Nodes   \* the node of a panel that is closed
    /\ MaxEdits \in Nat /\ MaxSaves \in Nat

\* A node may lack a key: a stored one has the keys it was stored with, a new one has
\* all the defaults of its type.
Data == [Settings -> {"absent", "off", "on"}]
NoData == [k \in Settings |-> "absent"]
Defaults == [k \in Settings |-> "off"]
Seeded == [Defaults EXCEPT ![Repeat] = "absent"]

\* { ...data, ...over }: a key that `over` lacks stays what it was.
Merged(data, over) == [k \in Settings |-> IF over[k] = "absent" THEN data[k] ELSE over[k]]

Graph == [nodes: SUBSET Nodes, edges: SUBSET (Nodes \X Nodes), data: [Nodes -> Data]]
Empty == [nodes |-> {}, edges |-> {}, data |-> [n \in Nodes |-> NoData]]
Start == [Empty EXCEPT !.nodes = {First}, !.data = [@ EXCEPT ![First] = Seeded]]

VARIABLES
    stored,   \* node_configs.config per scope
    cache,    \* the query cache: whether a graph was fetched, which, and whether it is fresh
    fetch,    \* the fetch under way per scope
    mounted,  \* whether the editor is on the page
    key,      \* configKey
    hydrated, \* whether the graph of the key was loaded into the editor
    shown,    \* nodes and edges
    past,     \* historyRef
    at,       \* historyIndexRef, from 1; 0 before anything was loaded
    timer,    \* pushTimerRef: a snapshot is due
    frame,    \* callbacks of the next animation frame; not empty = suppressHistoryRef
    panel,    \* selectedNode: the node, and its data when it was clicked
    saved,    \* savedSnapshot
    saves,    \* save requests under way
    missed,   \* history: a change was shown that no push will pick up
    drifted,  \* history: the panel's node changed behind its back
    apart,    \* history: what made the snapshot and the stored config differ
    edits, writes  \* bounds

editor == <<mounted, key, hydrated>>
canvas == <<shown, past, at, timer, frame, panel, missed, drifted>>
queries == <<cache, fetch>>
saving == <<saved, saves, apart, writes>>
vars == <<editor, canvas, stored, queries, saving, edits>>

NoPanel == [node |-> "none", data |-> NoData]
Request == [scope: Scopes, graph: Graph, stage: {"sent", "stored"}, live: BOOLEAN]

TypeOK ==
    /\ stored \in [Scopes -> Graph]
    /\ cache \in [Scopes -> [known: BOOLEAN, graph: Graph, fresh: BOOLEAN]]
    /\ fetch \in [Scopes -> [stage: {"idle", "sent", "answered"}, graph: Graph]]
    /\ mounted \in BOOLEAN /\ key \in Scopes /\ hydrated \in BOOLEAN
    /\ shown \in Graph
    /\ past \in Seq(Graph) /\ at \in 0..Len(past)
    /\ timer \in BOOLEAN /\ frame \subseteq {"jump", "delete"}
    /\ panel \in [node: Nodes \cup {NoPanel.node}, data: Data]
    /\ saved \in Graph /\ saves \subseteq Request
    /\ missed \in BOOLEAN /\ drifted \in BOOLEAN /\ apart \in BOOLEAN
    /\ edits \in 0..MaxEdits /\ writes \in 0..MaxSaves

NoFetch == [stage |-> "idle", graph |-> Empty]
Sent == [stage |-> "sent", graph |-> Empty]

Loading == ~cache[key].known /\ fetch[key].stage # "idle"
Visible == mounted /\ ~Loading
Dirty == hydrated /\ saved # shown
Saving == \E r \in saves : r.live

Init ==
    /\ stored = [k \in Scopes |-> IF k = Global THEN Start ELSE Empty]
    /\ cache = [k \in Scopes |-> [known |-> FALSE, graph |-> Empty, fresh |-> FALSE]]
    /\ fetch = [k \in Scopes |-> NoFetch]
    /\ mounted = FALSE /\ key = Global /\ hydrated = FALSE
    /\ shown = Empty /\ past = <<>> /\ at = 0
    /\ timer = FALSE /\ frame = {} /\ panel = NoPanel
    /\ saved = Empty /\ saves = {}
    /\ missed = FALSE /\ drifted = FALSE /\ apart = FALSE
    /\ edits = 0 /\ writes = 0

-----------------------------------------------------------------------------
(* Loading *)

\* The effect that loads the graph into the editor, once per key. It starts the
\* history afresh; a snapshot that is due stays due.
Hydrate(k, g) ==
    /\ hydrated' = TRUE
    /\ shown' = g /\ saved' = g
    /\ past' = <<g>> /\ at' = 1
    /\ missed' = FALSE
    /\ drifted' = (panel'.node # NoPanel.node)
    /\ apart' = (g # stored[k] \/ Saving)

\* The query of k gets an observer: it fetches unless the cached graph is fresh.
Observe(k) ==
    fetch' = IF cache[k].fresh \/ fetch[k].stage # "idle" THEN fetch
             ELSE [fetch EXCEPT ![k] = Sent]

\* A fresh component: refs and state start empty.
Mount(k) ==
    /\ ~mounted
    /\ mounted' = TRUE /\ key' = k
    /\ timer' = FALSE /\ frame' = {} /\ panel' = NoPanel
    /\ Observe(k)
    /\ IF ~cache[k].known
       THEN /\ hydrated' = FALSE
            /\ shown' = Empty /\ saved' = Empty /\ past' = <<>> /\ at' = 0
            /\ missed' = FALSE /\ drifted' = FALSE /\ apart' = FALSE
       ELSE Hydrate(k, cache[k].graph)
    /\ UNCHANGED <<stored, cache, saves, edits, writes>>

\* The user picks another scope: the same component gets another configKey.
SwitchScope(k) ==
    /\ mounted /\ k # key
    /\ key' = k
    /\ panel' = panel
    /\ Observe(k)
    /\ IF ~cache[k].known
       THEN hydrated' = FALSE /\ UNCHANGED <<shown, saved, past, at, missed, drifted, apart>>
       ELSE Hydrate(k, cache[k].graph)
    /\ UNCHANGED <<stored, cache, mounted, timer, frame, saves, edits, writes>>

Unmount ==
    /\ mounted
    /\ mounted' = FALSE /\ hydrated' = FALSE
    /\ shown' = Empty /\ past' = <<>> /\ at' = 0 /\ timer' = FALSE /\ frame' = {}
    /\ panel' = NoPanel /\ missed' = FALSE /\ drifted' = FALSE
    /\ saved' = Empty /\ apart' = FALSE
    /\ saves' = {[r EXCEPT !.live = FALSE] : r \in saves}
    /\ UNCHANGED <<stored, queries, key, edits, writes>>

\* findBySlug copies the global graph into a scope whose graph is empty.
Refills(k) == k # Global /\ stored[k].nodes = {} /\ stored[Global].nodes # {}

FetchRead(k) ==
    /\ fetch[k].stage = "sent"
    /\ stored' = IF Refills(k) THEN [stored EXCEPT ![k] = stored[Global]] ELSE stored
    /\ fetch' = [fetch EXCEPT ![k] = [stage |-> "answered", graph |-> stored'[k]]]
    /\ apart' = (apart \/ (k = key /\ Refills(k)))
    /\ UNCHANGED <<cache, editor, canvas, saved, saves, edits, writes>>

\* A graph that arrives is loaded only into an editor that has none for the key.
FetchArrives(k) ==
    /\ fetch[k].stage = "answered"
    /\ panel' = panel
    /\ cache' = [cache EXCEPT ![k] = [known |-> TRUE, graph |-> fetch[k].graph, fresh |-> TRUE]]
    /\ fetch' = [fetch EXCEPT ![k] = NoFetch]
    /\ IF mounted /\ key = k /\ ~hydrated
       THEN Hydrate(k, fetch[k].graph)
       ELSE UNCHANGED <<hydrated, shown, saved, past, at, missed, drifted, apart>>
    /\ UNCHANGED <<stored, mounted, key, timer, frame, saves, edits, writes>>

FetchFails(k) ==
    /\ fetch[k].stage # "idle"
    /\ fetch' = [fetch EXCEPT ![k] = NoFetch]
    /\ UNCHANGED <<stored, cache, editor, canvas, saving, edits>>

\* staleTime passes
CacheAges(k) ==
    /\ cache[k].fresh
    /\ cache' = [cache EXCEPT ![k].fresh = FALSE]
    /\ UNCHANGED <<stored, fetch, editor, canvas, saving, edits>>

-----------------------------------------------------------------------------
(* Editing *)

\* pushSnapshot: restarts the 300 ms, except in a suppressed frame.
Push ==
    /\ timer' = (timer \/ frame = {})
    /\ missed' = (missed \/ frame # {})

\* Every handler that changes the graph and asks for a snapshot.
Edit(g) ==
    /\ Visible
    /\ edits < MaxEdits /\ edits' = edits + 1
    /\ shown' = g
    /\ Push
    /\ UNCHANGED <<stored, queries, editor, past, at, frame, saving>>

WithoutNodes(g, ns, es) == [g EXCEPT !.nodes = @ \ ns, !.edges = @ \ es]
Without(g, ns, es) ==
    [nodes |-> g.nodes \ ns,
     edges |-> {e \in g.edges \ es : e[1] \notin ns /\ e[2] \notin ns},
     data |-> [n \in Nodes |-> IF n \in ns THEN NoData ELSE g.data[n]]]

WithData(g, n, data) == [g EXCEPT !.data = [@ EXCEPT ![n] = data]]

\* Where the panel's copy would leave its node with a key the copy lacks
Lacks(data, node) == \E k \in Settings : data[k] = "absent" /\ node[k] # "absent"

\* Every graph that is around; a new node has an identity that none of them has.
Around ==
    {shown, saved} \cup {past[i] : i \in DOMAIN past} \cup {stored[k] : k \in Scopes}
        \cup {cache[k].graph : k \in Scopes} \cup {fetch[k].graph : k \in Scopes}
        \cup {r.graph : r \in saves}

AddNode(n) ==
    /\ \A g \in Around : n \notin g.nodes
    /\ n # panel.node
    /\ Edit([WithData(shown, n, Defaults) EXCEPT !.nodes = @ \cup {n}])
    /\ UNCHANGED <<panel, drifted>>

\* onConnect, for a pair isValidConnection lets through
Connect(a, b) ==
    /\ a # b /\ {a, b} \subseteq shown.nodes
    /\ <<a, b>> \in Compatible \ shown.edges
    /\ Edit([shown EXCEPT !.edges = @ \cup {<<a, b>>}])
    /\ UNCHANGED <<panel, drifted>>

\* deleteNode, from the panel
DeleteNode ==
    /\ panel.node # NoPanel.node
    /\ Edit(Without(shown, {panel.node}, {}))
    /\ panel' = NoPanel /\ drifted' = FALSE

ApplyCapability(n) ==
    /\ n \in shown.nodes /\ shown.data[n][Repeat] # "on"
    /\ Edit(WithData(shown, n, [shown.data[n] EXCEPT ![Repeat] = "on"]))
    /\ panel' = IF panel.node = n THEN [panel EXCEPT !.data = [@ EXCEPT ![Repeat] = "on"]] ELSE panel
    /\ UNCHANGED drifted

\* onNodeClick
SelectNode(n) ==
    /\ Visible /\ n \in shown.nodes
    /\ panel' = [node |-> n, data |-> shown.data[n]]
    /\ drifted' = FALSE
    /\ UNCHANGED <<stored, queries, editor, shown, past, at, timer, frame, missed, saving, edits>>

ClosePanel ==
    /\ panel # NoPanel
    /\ panel' = NoPanel /\ drifted' = FALSE
    /\ UNCHANGED <<stored, queries, editor, shown, past, at, timer, frame, missed, saving, edits>>

EditPanelNodeOnly(k, v) ==
    /\ panel.node # NoPanel.node /\ panel.data[k] # v
    /\ LET data == [panel.data EXCEPT ![k] = v]
           n == panel.node
       IN  Edit(IF n \in shown.nodes THEN WithData(shown, n, Merged(shown.data[n], data)) ELSE shown)
    /\ UNCHANGED <<panel, drifted>>

\* updateNodeSettings: the panel sends its whole copy with one setting changed, and
\* it is merged into the node.
EditPanel(k, v) ==
    /\ panel.node # NoPanel.node /\ panel.data[k] # v
    /\ LET data == [panel.data EXCEPT ![k] = v]
           n == panel.node
       IN  /\ Edit(IF n \in shown.nodes THEN WithData(shown, n, Merged(shown.data[n], data)) ELSE shown)
           /\ panel' = [panel EXCEPT !.data = data]
           /\ drifted' = (drifted /\ (n \notin shown.nodes \/ Lacks(data, shown.data[n])))

\* The fields in the body of a node call updateNodeData, which asks for no snapshot.
EditInline(n, k, v) ==
    /\ Visible /\ n \in shown.nodes /\ shown.data[n][k] # v
    /\ edits < MaxEdits /\ edits' = edits + 1
    /\ shown' = WithData(shown, n, [shown.data[n] EXCEPT ![k] = v])
    /\ missed' = TRUE
    /\ drifted' = (drifted \/ panel.node = n)
    /\ UNCHANGED <<stored, queries, editor, past, at, timer, frame, panel, saving>>

\* The Delete key, for what is selected. The snapshot is asked for in the next frame.
DeleteSelection(ns, es) ==
    /\ mounted
    /\ ns \subseteq shown.nodes /\ es \subseteq shown.edges /\ ns \cup es # {}
    /\ edits < MaxEdits /\ edits' = edits + 1
    /\ shown' = Without(shown, ns, es)
    /\ frame' = frame \cup {"delete"}
    /\ panel' = NoPanel /\ drifted' = FALSE
    /\ UNCHANGED <<stored, queries, editor, past, at, timer, missed, saving>>

\* jumpToHistory, by which undo and redo go one step back and forth
JumpToHistory(i) ==
    /\ mounted /\ i \in DOMAIN past /\ i # at
    /\ shown' = past[i] /\ at' = i
    /\ frame' = frame \cup {"jump"}
    /\ drifted' = (panel # NoPanel)
    /\ missed' = FALSE
    /\ UNCHANGED <<stored, queries, editor, past, timer, panel, saving, edits>>

AnimationFrame ==
    /\ frame # {}
    /\ frame' = {}
    /\ timer' = (timer \/ "delete" \in frame)
    /\ UNCHANGED <<stored, queries, editor, shown, past, at, panel, missed, drifted, saving, edits>>

SnapshotCountsDropped ==
    /\ timer
    /\ timer' = FALSE /\ missed' = FALSE
    /\ IF at > 0 /\ past[at] = shown
       THEN UNCHANGED <<past, at>>
       ELSE past' = Append(SubSeq(past, 1, at), shown) /\ at' = Len(past) + 1
    /\ UNCHANGED <<stored, queries, editor, shown, frame, panel, drifted, saving, edits>>

SnapshotKeepsIndex ==
    /\ timer
    /\ timer' = FALSE /\ missed' = FALSE
    /\ IF at > 0 /\ past[at] = shown
       THEN UNCHANGED <<past, at>>
       ELSE past' = Append(SubSeq(past, 1, at), shown) /\ at' = at
    /\ UNCHANGED <<stored, queries, editor, shown, frame, panel, drifted, saving, edits>>

\* The snapshot goes behind the current entry, and what could be redone is gone.
Snapshot ==
    /\ timer
    /\ timer' = FALSE /\ missed' = FALSE
    /\ IF at > 0 /\ past[at] = shown
       THEN UNCHANGED <<past, at>>
       ELSE past' = Append(SubSeq(past, 1, at), shown) /\ at' = at + 1
    /\ UNCHANGED <<stored, queries, editor, shown, frame, panel, drifted, saving, edits>>

-----------------------------------------------------------------------------
(* Saving *)

Save ==
    /\ Visible /\ Dirty /\ ~Saving
    /\ writes < MaxSaves /\ writes' = writes + 1
    /\ saves' = saves \cup {[scope |-> key, graph |-> shown, stage |-> "sent", live |-> TRUE]}
    /\ UNCHANGED <<stored, queries, editor, canvas, saved, apart, edits>>

\* upsertBySlug takes whatever comes last.
SaveStored(r) ==
    /\ r.stage = "sent"
    /\ stored' = [stored EXCEPT ![r.scope] = r.graph]
    /\ saves' = (saves \ {r}) \cup {[r EXCEPT !.stage = "stored"]}
    /\ apart' = IF r.scope = key THEN ~r.live ELSE apart
    /\ UNCHANGED <<queries, editor, canvas, saved, edits, writes>>

SaveAnsweredShown(r) ==
    /\ r.stage = "stored"
    /\ saves' = saves \ {r}
    /\ saved' = IF r.live THEN shown ELSE saved
    /\ apart' = (apart \/ (r.live /\ r.scope # key))
    /\ cache' = [cache EXCEPT ![r.scope].fresh = FALSE]
    /\ fetch' = IF mounted /\ key = r.scope THEN [fetch EXCEPT ![r.scope] = Sent] ELSE fetch
    /\ UNCHANGED <<stored, editor, canvas, edits, writes>>

\* handleSave remembers what it sent. The query is fetched again if the page shows
\* it, whatever fetch is under way; otherwise its cached graph is out of date.
SaveAnswered(r) ==
    /\ r.stage = "stored"
    /\ saves' = saves \ {r}
    /\ saved' = IF r.live THEN r.graph ELSE saved
    /\ apart' = (apart \/ (r.live /\ r.scope # key))
    /\ cache' = [cache EXCEPT ![r.scope].fresh = FALSE]
    /\ fetch' = IF mounted /\ key = r.scope THEN [fetch EXCEPT ![r.scope] = Sent] ELSE fetch
    /\ UNCHANGED <<stored, editor, canvas, edits, writes>>

\* Refused, or the network fails on the way there or back.
SaveFails(r) ==
    /\ saves' = saves \ {r}
    /\ apart' = (apart \/ (r.stage = "stored" /\ r.scope = key))
    /\ UNCHANGED <<stored, queries, editor, canvas, saved, edits, writes>>

\* Another user saves the scope.
OtherSaves(k) ==
    /\ writes < MaxSaves /\ writes' = writes + 1
    /\ stored' = [stored EXCEPT ![k] = Empty]
    /\ apart' = (apart \/ k = key)
    /\ UNCHANGED <<queries, editor, canvas, saved, saves, edits>>

-----------------------------------------------------------------------------

Loads == \E k \in Scopes :
    \/ Mount(k) \/ SwitchScope(k) \/ FetchRead(k) \/ FetchArrives(k) \/ FetchFails(k)
    \/ CacheAges(k)

Edits ==
    \/ \E n \in Nodes : AddNode(n) \/ ApplyCapability(n) \/ SelectNode(n)
    \/ \E a, b \in Nodes : Connect(a, b)
    \/ DeleteNode \/ ClosePanel
    \/ \E k \in Settings, v \in {"off", "on"} :
            EditPanel(k, v) \/ \E n \in Nodes : EditInline(n, k, v)
    \/ \E ns \in SUBSET Nodes, es \in SUBSET Compatible : DeleteSelection(ns, es)

History == (\E i \in DOMAIN past : JumpToHistory(i)) \/ AnimationFrame \/ Snapshot

Writes ==
    \/ Save
    \/ \E r \in saves : SaveStored(r) \/ SaveAnswered(r) \/ SaveFails(r)
    \/ \E k \in Scopes : OtherSaves(k)

Next == Loads \/ Unmount \/ Edits \/ History \/ Writes

Spec == Init /\ [][Next]_vars

-----------------------------------------------------------------------------
(* Properties *)

\* No edge of a graph that is shown, can be returned to or is stored ends at a
\* node that is gone.
Whole(g) == \A e \in g.edges : e[1] \in g.nodes /\ e[2] \in g.nodes
NoDanglingEdges == \A g \in Around : Whole(g)

\* Once no snapshot is due the entry the history stands at is what is shown, so
\* that undo and redo lead back to it, except after a change in the body of a
\* node or in the frame of an undo, which no snapshot picked up yet.
HistoryShowsGraph ==
    hydrated /\ ~timer /\ frame = {} /\ ~missed => at > 0 /\ past[at] = shown

\* The panel shows the settings of its node, unless the node was changed in its
\* body, by a jump in the history or by loading another graph since it was opened.
\* Then the next change in the panel writes all the settings it remembers over the
\* node's, and they agree again, unless the node got a key that the panel lacks.
PanelShowsNode ==
    panel # NoPanel /\ ~drifted =>
        panel.node \in shown.nodes /\ panel.data = shown.data[panel.node]

\* With no save under way, "no changes" means that what is shown is what is
\* stored, unless somebody else saved, an answer was lost, an outdated cached graph
\* was loaded, the fetch after a save copied the global graph over an emptied one,
\* or a save answered after the scope was switched or the editor closed.
CleanMeansStored ==
    hydrated /\ ~Saving /\ ~apart /\ ~Dirty => shown = stored[key]
=============================================================================
