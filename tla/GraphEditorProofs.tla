-------------------------- MODULE GraphEditorProofs --------------------------
(***************************************************************************)
(* Theorems about GraphEditor, for any nodes, settings and scopes.         *)
(***************************************************************************)
EXTENDS GraphEditor, SequenceTheorems, TLAPS

\* The type invariant and the wholeness of all graphs are preserved together:
\* every action makes whole graphs of whole graphs.
WholeGraph == {g \in Graph : Whole(g)}
WholeRequest == [scope: Scopes, graph: WholeGraph, stage: {"sent", "stored"}, live: BOOLEAN]
Cached == [known: BOOLEAN, graph: WholeGraph, fresh: BOOLEAN]
Fetched == [stage: {"idle", "sent", "answered"}, graph: WholeGraph]
Panel == [node: Nodes \cup {NoPanel.node}, data: Data]

ServerOK == stored \in [Scopes -> WholeGraph]
QueriesOK == cache \in [Scopes -> Cached] /\ fetch \in [Scopes -> Fetched]
EditorOK == mounted \in BOOLEAN /\ key \in Scopes /\ hydrated \in BOOLEAN
PastOK == past \in Seq(WholeGraph) /\ at \in 0..Len(past)
PushOK == timer \in BOOLEAN /\ frame \subseteq {"jump", "delete"} /\ missed \in BOOLEAN
PanelOK == panel \in Panel /\ drifted \in BOOLEAN
SavingOK == saved \in WholeGraph /\ saves \subseteq WholeRequest /\ apart \in BOOLEAN
BoundsOK == edits \in 0..MaxEdits /\ writes \in 0..MaxSaves

WholeInv ==
  /\ ServerOK /\ QueriesOK /\ EditorOK
  /\ shown \in WholeGraph /\ PastOK /\ PushOK /\ PanelOK
  /\ SavingOK /\ BoundsOK

USE DEF queries, editor, canvas, saving

-----------------------------------------------------------------------------
(* What the operators on graphs make of whole graphs *)

LEMMA DataTypes ==
  /\ NoData \in Data /\ Defaults \in Data /\ Seeded \in Data
  /\ \A data, over \in Data : Merged(data, over) \in Data
  /\ \A data \in Data, k \in Settings, v \in {"off", "on"} : [data EXCEPT ![k] = v] \in Data
BY DEF Data, NoData, Defaults, Seeded, Merged

LEMMA EmptyWhole == Empty \in WholeGraph
BY DataTypes DEF Empty, WholeGraph, Graph, Whole

LEMMA StartWhole == Start \in WholeGraph
BY ConstantsAssumption, DataTypes DEF Start, Empty, WholeGraph, Graph, Whole

LEMMA WithoutWhole ==
  ASSUME NEW g \in WholeGraph, NEW ns, NEW es
  PROVE  Without(g, ns, es) \in WholeGraph
BY DataTypes DEF Without, WholeGraph, Graph, Whole

LEMMA WithDataWhole ==
  ASSUME NEW g \in WholeGraph, NEW n \in Nodes, NEW data \in Data
  PROVE  WithData(g, n, data) \in WholeGraph
BY DEF WithData, WholeGraph, Graph, Whole

\* A key the second lacks keeps its value; without such a key the merge is the second.
LEMMA MergedIs ==
  ASSUME NEW data \in Data, NEW over \in Data, ~Lacks(over, data)
  PROVE  Merged(data, over) = over
BY DEF Merged, Lacks, Data

LEMMA MergedIntoItself ==
  ASSUME NEW data \in Data, NEW k \in Settings, NEW v \in {"off", "on"}
  PROVE  ~Lacks([data EXCEPT ![k] = v], data)
BY DEF Lacks, Data

LEMMA NodeAddedWhole ==
  ASSUME NEW g \in WholeGraph, NEW n \in Nodes
  PROVE  [g EXCEPT !.nodes = @ \cup {n}] \in WholeGraph
BY DEF WholeGraph, Graph, Whole

LEMMA EdgeAddedWhole ==
  ASSUME NEW g \in WholeGraph, NEW a \in Nodes, NEW b \in Nodes, {a, b} \subseteq g.nodes
  PROVE  [g EXCEPT !.edges = @ \cup {<<a, b>>}] \in WholeGraph
<1>1. g.edges \cup {<<a, b>>} \in SUBSET (Nodes \X Nodes)
  BY DEF WholeGraph, Graph
<1>2. \A e \in g.edges \cup {<<a, b>>} : e[1] \in g.nodes /\ e[2] \in g.nodes
  BY DEF WholeGraph, Whole
<1> QED
  BY <1>1, <1>2 DEF WholeGraph, Graph, Whole

LEMMA SingletonPast ==
  ASSUME NEW g \in WholeGraph
  PROVE  <<g>> \in Seq(WholeGraph) /\ Len(<<g>>) = 1
OBVIOUS

LEMMA NoPast ==
  ASSUME past' = <<>>, at' = 0
  PROVE  PastOK'
BY DEF PastOK

LEMMA NoPastYet ==
  ASSUME past = <<>>, at = 0
  PROVE  PastOK
BY DEF PastOK

-----------------------------------------------------------------------------
(* Loading *)

LEMMA HydrateWhole ==
  ASSUME NEW k, NEW g \in WholeGraph, Hydrate(k, g)
  PROVE  /\ hydrated' \in BOOLEAN /\ shown' \in WholeGraph /\ saved' \in WholeGraph
         /\ PastOK' /\ missed' \in BOOLEAN /\ drifted' \in BOOLEAN /\ apart' \in BOOLEAN
<1>1. hydrated' \in BOOLEAN /\ shown' \in WholeGraph /\ saved' \in WholeGraph /\ missed' \in BOOLEAN
  BY DEF Hydrate
<1>2. PastOK'
  BY SingletonPast DEF Hydrate, PastOK
<1>3. drifted' \in BOOLEAN /\ apart' \in BOOLEAN
  BY Zenon DEF Hydrate
<1> QED
  BY <1>1, <1>2, <1>3

LEMMA ObserveType ==
  ASSUME WholeInv, NEW k \in Scopes, Observe(k)
  PROVE  fetch' \in [Scopes -> Fetched]
BY EmptyWhole DEF WholeInv, QueriesOK, Observe, Fetched, Sent

LEMMA LoadsWhole ==
  ASSUME WholeInv, Loads \/ Unmount
  PROVE  WholeInv'
<1> USE DEF WholeInv, ServerOK, EditorOK, PushOK, PanelOK, SavingOK, BoundsOK
<1>1. ASSUME NEW k \in Scopes, Mount(k) PROVE WholeInv'
  <2>1. QueriesOK'
    BY <1>1, ObserveType DEF Mount, QueriesOK
  <2>2. CASE ~cache[k].known
    <3>1. PastOK' /\ shown' \in WholeGraph /\ SavingOK'
      BY <1>1, <2>2, EmptyWhole, NoPast DEF Mount
    <3>2. PanelOK' /\ PushOK' /\ EditorOK'
      BY <1>1, <2>2, DataTypes DEF Mount, Panel, NoPanel
    <3> QED
      BY <1>1, <2>1, <3>1, <3>2 DEF Mount
  <2>3. CASE cache[k].known
    <3>1. cache[k].graph \in WholeGraph /\ Hydrate(k, cache[k].graph)
      BY <1>1, <2>3 DEF Mount, QueriesOK, Cached
    <3> QED
      BY <1>1, <2>1, <3>1, HydrateWhole, DataTypes DEF Mount, Panel, NoPanel
  <2> QED
    BY <2>2, <2>3
<1>2. ASSUME NEW k \in Scopes, SwitchScope(k) PROVE WholeInv'
  <2>1. QueriesOK'
    BY <1>2, ObserveType DEF SwitchScope, QueriesOK
  <2>2. CASE ~cache[k].known
    BY <1>2, <2>1, <2>2 DEF SwitchScope, PastOK
  <2>3. CASE cache[k].known
    <3>1. cache[k].graph \in WholeGraph /\ Hydrate(k, cache[k].graph)
      BY <1>2, <2>3 DEF SwitchScope, QueriesOK, Cached
    <3> QED
      BY <1>2, <2>1, <3>1, HydrateWhole DEF SwitchScope
  <2> QED
    BY <2>2, <2>3
<1>3. CASE Unmount
  <2>1. {[r EXCEPT !.live = FALSE] : r \in saves} \subseteq WholeRequest
    BY DEF WholeRequest
  <2> QED
    <3>1. PastOK' /\ shown' \in WholeGraph /\ SavingOK'
      BY <1>3, <2>1, EmptyWhole, NoPast DEF Unmount
    <3>2. PanelOK' /\ PushOK' /\ EditorOK'
      BY <1>3, DataTypes DEF Unmount, Panel, NoPanel
    <3> QED
      BY <1>3, <3>1, <3>2 DEF Unmount, QueriesOK
<1>4. ASSUME NEW k \in Scopes, FetchRead(k) PROVE WholeInv'
  <2>1. stored' \in [Scopes -> WholeGraph]
    BY <1>4, ConstantsAssumption DEF FetchRead
  <2>2. fetch' \in [Scopes -> Fetched]
    BY <1>4, <2>1 DEF FetchRead, QueriesOK, Fetched
  <2>3. apart' \in BOOLEAN
    BY <1>4 DEF FetchRead
  <2> QED
    BY <1>4, <2>1, <2>2, <2>3 DEF FetchRead, QueriesOK, PastOK
<1>5. ASSUME NEW k \in Scopes, FetchArrives(k) PROVE WholeInv'
  <2>1. fetch[k].graph \in WholeGraph
    BY DEF QueriesOK, Fetched
  <2>2. QueriesOK'
    BY <1>5, <2>1, EmptyWhole DEF FetchArrives, QueriesOK, Cached, Fetched, NoFetch
  <2>3. CASE mounted /\ key = k /\ ~hydrated
    BY <1>5, <2>1, <2>2, <2>3, HydrateWhole DEF FetchArrives
  <2>4. CASE ~(mounted /\ key = k /\ ~hydrated)
    BY <1>5, <2>2, <2>4 DEF FetchArrives, PastOK
  <2> QED
    BY <2>3, <2>4
<1>6. ASSUME NEW k \in Scopes, FetchFails(k) \/ CacheAges(k) PROVE WholeInv'
  <2>1. QueriesOK'
    <3>1. CASE FetchFails(k)
      <4>1. NoFetch \in Fetched
        BY EmptyWhole DEF Fetched, NoFetch
      <4> QED
        BY <3>1, <4>1 DEF FetchFails, QueriesOK
    <3>2. CASE CacheAges(k)
      <4>1. [cache[k] EXCEPT !.fresh = FALSE] \in Cached
        BY DEF QueriesOK, Cached
      <4> QED
        BY <3>2, <4>1 DEF CacheAges, QueriesOK
    <3> QED
      BY <1>6, <3>1, <3>2
  <2> QED
    BY <1>6, <2>1 DEF FetchFails, CacheAges, PastOK
<1> QED
  BY <1>1, <1>2, <1>3, <1>4, <1>5, <1>6 DEF Loads

-----------------------------------------------------------------------------
(* Editing *)

LEMMA EditWhole ==
  ASSUME WholeInv, NEW g \in WholeGraph, Edit(g), PanelOK'
  PROVE  WholeInv'
<1>1. PushOK' /\ BoundsOK'
  BY ConstantsAssumption DEF WholeInv, Edit, Push, PushOK, BoundsOK
<1> QED
  BY <1>1 DEF WholeInv, Edit, ServerOK, QueriesOK, EditorOK, PastOK, SavingOK

LEMMA EditsWhole ==
  ASSUME WholeInv, Edits
  PROVE  WholeInv'
<1> USE DEF PanelOK
<1>0. shown \in WholeGraph /\ panel \in Panel /\ drifted \in BOOLEAN
  BY DEF WholeInv
<1>1. ASSUME NEW n \in Nodes, AddNode(n) PROVE WholeInv'
  BY <1>0, <1>1, EditWhole, NodeAddedWhole, WithDataWhole, DataTypes DEF AddNode
<1>2. ASSUME NEW a \in Nodes, NEW b \in Nodes, Connect(a, b) PROVE WholeInv'
  BY <1>0, <1>2, EditWhole, EdgeAddedWhole DEF Connect
<1>3. CASE DeleteNode
  BY <1>0, <1>3, EditWhole, WithoutWhole, DataTypes DEF DeleteNode, Panel, NoPanel
<1>4. ASSUME NEW n \in Nodes, ApplyCapability(n) PROVE WholeInv'
  <2>1. [shown.data[n] EXCEPT ![Repeat] = "on"] \in Data
    BY <1>0, ConstantsAssumption, DataTypes DEF WholeGraph, Graph
  <2>2. panel' \in Panel
    <3>1. [panel.data EXCEPT ![Repeat] = "on"] \in Data
      BY <1>0, ConstantsAssumption, DataTypes DEF Panel
    <3> QED
      BY <1>0, <1>4, <3>1 DEF ApplyCapability, Panel
  <2> QED
    BY <1>0, <1>4, <2>1, <2>2, EditWhole, WithDataWhole DEF ApplyCapability
<1>5. ASSUME NEW n \in Nodes, SelectNode(n) PROVE WholeInv'
  <2>1. panel' \in Panel
    BY <1>0, <1>5 DEF SelectNode, Panel, WholeGraph, Graph
  <2> QED
    BY <1>5, <2>1
    DEF SelectNode, WholeInv, ServerOK, QueriesOK, EditorOK, PastOK, PushOK, SavingOK, BoundsOK
<1>6. CASE ClosePanel
  BY <1>0, <1>6, DataTypes
  DEF ClosePanel, Panel, NoPanel, WholeInv, ServerOK, QueriesOK, EditorOK, PastOK, PushOK,
      SavingOK, BoundsOK
<1>7. ASSUME NEW k \in Settings, NEW v \in {"off", "on"}, EditPanel(k, v) PROVE WholeInv'
  <2> DEFINE data == [panel.data EXCEPT ![k] = v]
             n == panel.node
             g == IF n \in shown.nodes THEN WithData(shown, n, Merged(shown.data[n], data)) ELSE shown
  <2>1. data \in Data
    BY <1>0, DataTypes DEF Panel
  <2>2. g \in WholeGraph
    <3>1. CASE n \in shown.nodes
      <4>1. n \in Nodes /\ shown.data[n] \in Data
        BY <1>0, <3>1 DEF WholeGraph, Graph
      <4>2. Merged(shown.data[n], data) \in Data
        BY <2>1, <4>1, DataTypes
      <4> QED
        BY <1>0, <3>1, <4>1, <4>2, WithDataWhole
    <3> QED
      BY <1>0, <3>1
  <2>3. PanelOK'
    <3>1. panel' \in Panel
      BY <1>0, <1>7, <2>1 DEF EditPanel, Panel
    <3>2. drifted' \in BOOLEAN
      BY <1>0, <1>7, Zenon DEF EditPanel
    <3> QED
      BY <3>1, <3>2
  <2> QED
    BY <1>7, <2>2, <2>3, EditWhole DEF EditPanel
<1>8. ASSUME NEW k \in Settings, NEW v \in {"off", "on"}, NEW n \in Nodes, EditInline(n, k, v)
      PROVE  WholeInv'
  <2>1. shown' \in WholeGraph
    <3>1. [shown.data[n] EXCEPT ![k] = v] \in Data
      BY <1>0, DataTypes DEF WholeGraph, Graph
    <3> QED
      BY <1>0, <1>8, <3>1, WithDataWhole DEF EditInline
  <2>2. drifted' \in BOOLEAN /\ BoundsOK'
    BY <1>0, <1>8, ConstantsAssumption DEF EditInline, WholeInv, BoundsOK
  <2> QED
    BY <1>0, <1>8, <2>1, <2>2
    DEF EditInline, WholeInv, ServerOK, QueriesOK, EditorOK, PastOK, PushOK, SavingOK
<1>9. ASSUME NEW ns, NEW es, DeleteSelection(ns, es) PROVE WholeInv'
  <2>1. shown' \in WholeGraph
    BY <1>0, <1>9, WithoutWhole DEF DeleteSelection
  <2>2. PanelOK'
    BY <1>9, DataTypes DEF DeleteSelection, Panel, NoPanel
  <2>3. PushOK'
    BY <1>9 DEF DeleteSelection, WholeInv, PushOK
  <2>4. BoundsOK'
    BY <1>9, ConstantsAssumption DEF DeleteSelection, WholeInv, BoundsOK
  <2> QED
    BY <1>9, <2>1, <2>2, <2>3, <2>4
    DEF DeleteSelection, WholeInv, ServerOK, QueriesOK, EditorOK, PastOK, SavingOK
<1> QED
  BY <1>1, <1>2, <1>3, <1>4, <1>5, <1>6, <1>7, <1>8, <1>9 DEF Edits

LEMMA HistoryWhole ==
  ASSUME WholeInv, History
  PROVE  WholeInv'
<1> USE DEF WholeInv, ServerOK, QueriesOK, EditorOK, PushOK, PanelOK, SavingOK, BoundsOK
<1>1. ASSUME NEW i \in DOMAIN past, JumpToHistory(i) PROVE WholeInv'
  <2>1. past[i] \in WholeGraph /\ i \in 0..Len(past)
    BY DEF PastOK
  <2> QED
    BY <1>1, <2>1 DEF JumpToHistory, PastOK
<1>2. CASE AnimationFrame
  BY <1>2 DEF AnimationFrame, PastOK
<1>3. CASE Snapshot
  <2>1. PastOK'
    <3>1. CASE at > 0 /\ past[at] = shown
      BY <1>3, <3>1 DEF Snapshot, PastOK
    <3>2. CASE ~(at > 0 /\ past[at] = shown)
      <4>1. SubSeq(past, 1, at) \in Seq(WholeGraph) /\ Len(SubSeq(past, 1, at)) = at
        BY DEF PastOK
      <4>2. /\ past' = Append(SubSeq(past, 1, at), shown)
            /\ at' = at + 1
        BY <1>3, <3>2 DEF Snapshot
      <4> QED
        BY <4>1, <4>2 DEF PastOK
    <3> QED
      BY <3>1, <3>2
  <2> QED
    BY <1>3, <2>1 DEF Snapshot
<1> QED
  BY <1>1, <1>2, <1>3 DEF History

-----------------------------------------------------------------------------
(* Saving *)

LEMMA WritesWhole ==
  ASSUME WholeInv, Writes
  PROVE  WholeInv'
<1> USE DEF WholeInv, ServerOK, QueriesOK, EditorOK, PastOK, PushOK, PanelOK, SavingOK, BoundsOK
<1>1. CASE Save
  <2>1. [scope |-> key, graph |-> shown, stage |-> "sent", live |-> TRUE] \in WholeRequest
    BY DEF WholeRequest
  <2>2. saves' \subseteq WholeRequest
    BY <1>1, <2>1 DEF Save
  <2>3. writes' \in 0..MaxSaves
    BY <1>1, ConstantsAssumption DEF Save
  <2> QED
    BY <1>1, <2>2, <2>3 DEF Save
<1>2. ASSUME NEW r \in saves, SaveStored(r) PROVE WholeInv'
  <2>1. r \in WholeRequest
    OBVIOUS
  <2>2. stored' \in [Scopes -> WholeGraph]
    BY <1>2, <2>1 DEF SaveStored, WholeRequest
  <2>3. saves' \subseteq WholeRequest /\ apart' \in BOOLEAN
    BY <1>2, <2>1 DEF SaveStored, WholeRequest
  <2> QED
    BY <1>2, <2>2, <2>3 DEF SaveStored
<1>3. ASSUME NEW r \in saves, SaveAnswered(r) PROVE WholeInv'
  <2>1. r.scope \in Scopes /\ r.graph \in WholeGraph /\ r.live \in BOOLEAN
    BY DEF WholeRequest
  <2>2. cache' \in [Scopes -> Cached] /\ fetch' \in [Scopes -> Fetched]
    BY <1>3, <2>1, EmptyWhole DEF SaveAnswered, Cached, Fetched, Sent
  <2>3. saved' \in WholeGraph /\ saves' \subseteq WholeRequest /\ apart' \in BOOLEAN
    BY <1>3, <2>1 DEF SaveAnswered
  <2> QED
    BY <1>3, <2>2, <2>3 DEF SaveAnswered
<1>4. ASSUME NEW r \in saves, SaveFails(r) PROVE WholeInv'
  BY <1>4 DEF SaveFails
<1>5. ASSUME NEW k \in Scopes, OtherSaves(k) PROVE WholeInv'
  BY <1>5, EmptyWhole, ConstantsAssumption DEF OtherSaves
<1> QED
  BY <1>1, <1>2, <1>3, <1>4, <1>5 DEF Writes

LEMMA WholeAlways == Spec => []WholeInv
<1>1. Init => WholeInv
  <2> SUFFICES ASSUME Init PROVE WholeInv
    OBVIOUS
  <2>1. ServerOK /\ QueriesOK
    BY EmptyWhole, StartWhole DEF Init, ServerOK, QueriesOK, Cached, Fetched, NoFetch
  <2>2. EditorOK /\ PushOK /\ PanelOK
    BY ConstantsAssumption, DataTypes DEF Init, EditorOK, PushOK, PanelOK, Panel, NoPanel
  <2>3. BoundsOK
    BY ConstantsAssumption DEF Init, BoundsOK
  <2>4. shown \in WholeGraph /\ SavingOK
    BY EmptyWhole DEF Init, SavingOK
  <2>5. PastOK
    BY NoPastYet DEF Init
  <2> QED
    BY <2>1, <2>2, <2>3, <2>4, <2>5 DEF WholeInv
<1>2. WholeInv /\ [Next]_vars => WholeInv'
  <2>1. WholeInv /\ UNCHANGED vars => WholeInv'
    BY DEF vars, WholeInv, ServerOK, QueriesOK, EditorOK, PastOK, PushOK, PanelOK, SavingOK,
           BoundsOK
  <2> QED
    BY <2>1, LoadsWhole, EditsWhole, HistoryWhole, WritesWhole DEF Next
<1> QED
  BY <1>1, <1>2, PTL DEF Spec

\* The editor, the query cache, the requests and the stored configs keep their types.
THEOREM TypeCorrect == Spec => []TypeOK
<1>1. WholeInv => TypeOK
  <2> SUFFICES ASSUME WholeInv PROVE TypeOK
    OBVIOUS
  <2>1. WholeGraph \subseteq Graph
    BY DEF WholeGraph
  <2>2. past \in Seq(Graph) /\ at \in 0..Len(past)
    BY <2>1 DEF WholeInv, PastOK
  <2>3. saves \subseteq Request
    BY <2>1 DEF WholeInv, SavingOK, WholeRequest, Request
  <2> QED
    BY <2>1, <2>2, <2>3
    DEF TypeOK, WholeInv, ServerOK, QueriesOK, EditorOK, PushOK, PanelOK, SavingOK, BoundsOK,
        Cached, Fetched, Panel
<1> QED
  BY <1>1, WholeAlways, PTL

\* No graph that is shown, cached, on its way, stored or kept for undo has an edge
\* to a node that is gone, whatever is deleted, undone and saved in whichever order.
THEOREM EdgesEndAtNodes == Spec => []NoDanglingEdges
<1>1. WholeInv => NoDanglingEdges
  <2> SUFFICES ASSUME WholeInv, NEW g \in Around PROVE Whole(g)
    BY DEF NoDanglingEdges
  <2>1. g \in WholeGraph
    BY DEF Around, WholeInv, ServerOK, QueriesOK, PastOK, SavingOK, Cached, Fetched, WholeRequest
  <2> QED
    BY <2>1 DEF WholeGraph
<1> QED
  BY <1>1, WholeAlways, PTL

-----------------------------------------------------------------------------
(* The undo history *)

\* A deletion that waits for its frame is as good as a snapshot that is due.
HistoryInv ==
  hydrated /\ ~timer /\ "delete" \notin frame /\ ~missed => at > 0 /\ past[at] = shown

LEMMA HistoryStep ==
  ASSUME WholeInv, HistoryInv, [Next]_vars
  PROVE  HistoryInv'
<1> USE DEF HistoryInv
<1>0. past \in Seq(WholeGraph) /\ at \in 0..Len(past)
  BY DEF WholeInv, PastOK
<1>1. ASSUME NEW k, NEW g, Hydrate(k, g) PROVE HistoryInv'
  BY <1>1 DEF Hydrate
<1>2. CASE UNCHANGED <<hydrated, shown, past, at, timer, frame, missed>>
  BY <1>2
<1>3. CASE Loads \/ Unmount
  BY <1>1, <1>2, <1>3
  DEF Loads, Unmount, Mount, SwitchScope, FetchRead, FetchArrives, FetchFails, CacheAges
<1>4. ASSUME NEW g, Edit(g) PROVE HistoryInv'
  BY <1>4 DEF Edit, Push
<1>5. CASE Edits
  <2>1. ASSUME NEW n \in Nodes, AddNode(n) \/ ApplyCapability(n) \/ SelectNode(n)
        PROVE  HistoryInv'
    BY <1>2, <1>4, <2>1 DEF AddNode, ApplyCapability, SelectNode
  <2>2. ASSUME NEW a \in Nodes, NEW b \in Nodes, Connect(a, b) PROVE HistoryInv'
    BY <1>4, <2>2 DEF Connect
  <2>3. CASE DeleteNode \/ ClosePanel
    BY <1>2, <1>4, <2>3 DEF DeleteNode, ClosePanel
  <2>4. ASSUME NEW k \in Settings, NEW v \in {"off", "on"}, EditPanel(k, v) PROVE HistoryInv'
    BY <1>4, <2>4 DEF EditPanel
  <2>5. ASSUME NEW k \in Settings, NEW v \in {"off", "on"}, NEW n \in Nodes, EditInline(n, k, v)
        PROVE  HistoryInv'
    BY <2>5 DEF EditInline
  <2>6. ASSUME NEW ns, NEW es, DeleteSelection(ns, es) PROVE HistoryInv'
    BY <2>6 DEF DeleteSelection
  <2> QED
    BY <1>5, <2>1, <2>2, <2>3, <2>4, <2>5, <2>6 DEF Edits
<1>6. ASSUME NEW i \in DOMAIN past, JumpToHistory(i) PROVE HistoryInv'
  BY <1>0, <1>6 DEF JumpToHistory
<1>7. CASE AnimationFrame
  BY <1>7 DEF AnimationFrame
<1>8. CASE Snapshot
  <2>1. CASE at > 0 /\ past[at] = shown
    BY <1>8, <2>1 DEF Snapshot
  <2>2. CASE ~(at > 0 /\ past[at] = shown)
    <3>1. SubSeq(past, 1, at) \in Seq(WholeGraph) /\ Len(SubSeq(past, 1, at)) = at
      BY <1>0
    <3>2. past' = Append(SubSeq(past, 1, at), shown) /\ at' = at + 1 /\ shown' = shown
      BY <1>8, <2>2 DEF Snapshot
    <3>3. past'[at + 1] = shown
      BY <3>1, <3>2
    <3> QED
      BY <1>0, <3>2, <3>3
  <2> QED
    BY <2>1, <2>2
<1>9. CASE Writes
  BY <1>2, <1>9 DEF Writes, Save, SaveStored, SaveAnswered, SaveFails, OtherSaves
<1>10. CASE UNCHANGED vars
  BY <1>10 DEF vars
<1> QED
  BY <1>3, <1>5, <1>6, <1>7, <1>8, <1>9, <1>10 DEF Next, History

\* Once no snapshot is due, undo and redo lead back to what is shown: jumps, loads
\* and snapshots in any order keep the entry the history stands at up to date.
THEOREM HistoryIsUpToDate == Spec => []HistoryShowsGraph
<1>1. Init => HistoryInv
  BY DEF Init, HistoryInv
<1>2. WholeInv /\ HistoryInv /\ [Next]_vars => HistoryInv'
  BY HistoryStep
<1>3. HistoryInv => HistoryShowsGraph
  BY DEF HistoryInv, HistoryShowsGraph
<1> QED
  BY <1>1, <1>2, <1>3, WholeAlways, PTL DEF Spec

-----------------------------------------------------------------------------
(* The settings panel *)

PanelInv == PanelShowsNode /\ (panel.node = NoPanel.node => panel = NoPanel)

LEMMA PanelStep ==
  ASSUME WholeInv, PanelInv, [Next]_vars
  PROVE  PanelInv'
<1> USE DEF PanelInv, PanelShowsNode
<1>0. /\ panel \in Panel /\ shown \in Graph /\ drifted \in BOOLEAN
      /\ NoPanel.node \notin Nodes /\ panel.node \in Nodes \cup {NoPanel.node}
  BY ConstantsAssumption, DataTypes DEF WholeInv, PanelOK, Panel, WholeGraph, NoPanel
<1>1. CASE UNCHANGED <<shown, panel, drifted>>
  BY <1>1
<1>2. CASE panel' = NoPanel
  BY <1>2
<1>3. ASSUME NEW k, NEW g, Hydrate(k, g), panel' = panel PROVE PanelInv'
  BY <1>3 DEF Hydrate
<1>4. CASE Loads \/ Unmount
  BY <1>1, <1>2, <1>3, <1>4
  DEF Loads, Unmount, Mount, SwitchScope, FetchRead, FetchArrives, FetchFails, CacheAges
<1>5. ASSUME NEW n \in Nodes, AddNode(n) PROVE PanelInv'
  BY <1>0, <1>5, DataTypes DEF AddNode, Edit, WithData, Graph
<1>6. ASSUME NEW a \in Nodes, NEW b \in Nodes, Connect(a, b) PROVE PanelInv'
  BY <1>0, <1>6 DEF Connect, Edit, Graph
<1>7. CASE DeleteNode \/ ClosePanel
  BY <1>2, <1>7 DEF DeleteNode, ClosePanel
<1>8. ASSUME NEW n \in Nodes, ApplyCapability(n) PROVE PanelInv'
  <2>1. /\ shown'.nodes = shown.nodes
        /\ \A m \in Nodes : shown'.data[m] =
              IF m = n THEN [shown.data[n] EXCEPT ![Repeat] = "on"] ELSE shown.data[m]
    BY <1>0, <1>8 DEF ApplyCapability, Edit, WithData, Graph
  <2>2. CASE panel.node = n
    <3>1. panel'.node = n /\ panel'.data = [panel.data EXCEPT ![Repeat] = "on"]
          /\ drifted' = drifted
      BY <1>0, <1>8, <2>2 DEF ApplyCapability, Panel
    <3> QED
      BY <1>0, <2>1, <2>2, <3>1
  <2>3. CASE panel.node # n
    <3>1. panel' = panel /\ drifted' = drifted
      BY <1>8, <2>3 DEF ApplyCapability
    <3> QED
      BY <1>0, <2>1, <2>3, <3>1
  <2> QED
    BY <2>2, <2>3
<1>9. ASSUME NEW n \in Nodes, SelectNode(n) PROVE PanelInv'
  BY <1>0, <1>9 DEF SelectNode
<1>10. ASSUME NEW k \in Settings, NEW v \in {"off", "on"}, EditPanel(k, v) PROVE PanelInv'
  <2> DEFINE data == [panel.data EXCEPT ![k] = v]
             n == panel.node
  <2>1. /\ panel'.node = n /\ panel'.data = data /\ n \in Nodes /\ data \in Data
        /\ drifted' = (drifted /\ (n \notin shown.nodes \/ Lacks(data, shown.data[n])))
    BY <1>0, <1>10, DataTypes DEF EditPanel, Panel
  <2>2. CASE n \in shown.nodes
    <3>1. shown'.nodes = shown.nodes /\ shown'.data[n] = Merged(shown.data[n], data)
      BY <1>0, <1>10, <2>1, <2>2 DEF EditPanel, Edit, WithData, Graph
    <3>2. shown.data[n] \in Data /\ panel.data \in Data
      BY <1>0, <2>1 DEF Graph, Panel
    <3>3. ~drifted' => ~Lacks(data, shown.data[n])
      <4>1. CASE drifted
        BY <2>1, <2>2, <4>1
      <4>2. CASE ~drifted
        BY <1>0, <2>1, <2>2, <3>2, <4>2, MergedIntoItself
      <4> QED
        BY <4>1, <4>2
    <3>4. ~drifted' => shown'.data[n] = data
      BY <2>1, <3>1, <3>2, <3>3, MergedIs
    <3> QED
      BY <1>0, <2>1, <2>2, <3>1, <3>4
  <2>3. CASE n \notin shown.nodes
    BY <1>0, <2>1, <2>3
  <2> QED
    BY <2>2, <2>3
<1>11. ASSUME NEW k \in Settings, NEW v \in {"off", "on"}, NEW n \in Nodes, EditInline(n, k, v)
       PROVE  PanelInv'
  <2>1. /\ shown'.nodes = shown.nodes /\ panel' = panel /\ drifted' = (drifted \/ panel.node = n)
        /\ \A m \in Nodes : m # n => shown'.data[m] = shown.data[m]
    BY <1>0, <1>11 DEF EditInline, WithData, Graph
  <2> QED
    BY <1>0, <2>1
<1>12. ASSUME NEW ns, NEW es, DeleteSelection(ns, es) PROVE PanelInv'
  BY <1>2, <1>12 DEF DeleteSelection
<1>13. CASE Edits
  BY <1>5, <1>6, <1>7, <1>8, <1>9, <1>10, <1>11, <1>12, <1>13 DEF Edits
<1>14. CASE History
  BY <1>1, <1>14 DEF History, JumpToHistory, AnimationFrame, Snapshot
<1>15. CASE Writes
  BY <1>1, <1>15 DEF Writes, Save, SaveStored, SaveAnswered, SaveFails, OtherSaves
<1>16. CASE UNCHANGED vars
  BY <1>1, <1>16 DEF vars
<1> QED
  BY <1>4, <1>13, <1>14, <1>15, <1>16 DEF Next

\* The panel shows the settings of its node, whatever the canvas, the history and
\* the loads do, unless the node changed behind its back.
THEOREM PanelIsUpToDate == Spec => []PanelShowsNode
<1>1. Init => PanelInv
  BY DEF Init, PanelInv, PanelShowsNode
<1>2. WholeInv /\ PanelInv /\ [Next]_vars => PanelInv'
  BY PanelStep
<1>3. PanelInv => PanelShowsNode
  BY DEF PanelInv
<1> QED
  BY <1>1, <1>2, <1>3, WholeAlways, PTL DEF Spec

-----------------------------------------------------------------------------
(* What "no changes" means.  The snapshot is the stored graph, except while *)
(* a save of this editor is stored and not yet answered: then the stored    *)
(* graph is the one that save carries.                                      *)

LiveOnce == \A r, q \in saves : r.live /\ q.live => r = q

Pending(r) == r.stage = "sent" \/ r.scope # key

SnapshotStands ==
  /\ ~Saving => saved = stored[key]
  /\ \A r \in saves : r.live => IF Pending(r) THEN saved = stored[key] ELSE r.graph = stored[key]

CleanInv == LiveOnce /\ (hydrated /\ ~apart => SnapshotStands)

LEMMA CleanStep ==
  ASSUME WholeInv, CleanInv, [Next]_vars
  PROVE  CleanInv'
<1> USE DEF CleanInv
<1>0. /\ stored \in [Scopes -> WholeGraph] /\ saves \subseteq WholeRequest /\ key \in Scopes
      /\ mounted \in BOOLEAN /\ hydrated \in BOOLEAN /\ apart \in BOOLEAN
  BY DEF WholeInv, ServerOK, SavingOK, EditorOK
<1>1. CASE UNCHANGED <<saves, saved, apart, key, hydrated, stored>>
  BY <1>1, Zenon DEF LiveOnce, SnapshotStands, Saving, Pending
<1>2. ASSUME NEW k, NEW g, Hydrate(k, g), key' = k, UNCHANGED <<stored, saves>> PROVE CleanInv'
  <2>1. apart' = (g # stored[k] \/ Saving) /\ saved' = g
    BY <1>2 DEF Hydrate
  <2>2. ~apart' => SnapshotStands'
    BY <1>2, <2>1 DEF SnapshotStands, Saving
  <2> QED
    BY <1>2, <2>2 DEF LiveOnce
<1>3. ASSUME UNCHANGED saves, ~hydrated' PROVE CleanInv'
  BY <1>3 DEF LiveOnce
<1>4. ASSUME NEW k \in Scopes, Mount(k) PROVE CleanInv'
  BY <1>2, <1>3, <1>4 DEF Mount
<1>5. ASSUME NEW k \in Scopes, SwitchScope(k) PROVE CleanInv'
  BY <1>2, <1>3, <1>5 DEF SwitchScope
<1>6. CASE Unmount
  <2>1. \A r \in saves' : ~r.live /\ ~hydrated'
    BY <1>0, <1>6 DEF Unmount, WholeRequest
  <2> QED
    BY <1>6, <2>1 DEF LiveOnce, Unmount
<1>7. ASSUME NEW k \in Scopes, FetchRead(k) PROVE CleanInv'
  <2>1. /\ UNCHANGED <<saves, saved, key, hydrated>>
        /\ ~apart' => ~apart /\ stored'[key] = stored[key]
    BY <1>0, <1>7 DEF FetchRead
  <2> QED
    BY <2>1 DEF LiveOnce, SnapshotStands, Saving, Pending
<1>8. ASSUME NEW k \in Scopes, FetchArrives(k) PROVE CleanInv'
  <2>1. CASE mounted /\ key = k /\ ~hydrated
    BY <1>2, <1>8, <2>1 DEF FetchArrives
  <2>2. CASE ~(mounted /\ key = k /\ ~hydrated)
    BY <1>1, <1>8, <2>2 DEF FetchArrives
  <2> QED
    BY <2>1, <2>2
<1>9. CASE \E k \in Scopes : FetchFails(k) \/ CacheAges(k)
  BY <1>1, <1>9 DEF FetchFails, CacheAges
<1>10. CASE Edits
  BY <1>1, <1>10
  DEF Edits, Edit, AddNode, Connect, DeleteNode, ApplyCapability, SelectNode, ClosePanel,
      EditPanel, EditInline, DeleteSelection
<1>11. CASE History
  BY <1>1, <1>11 DEF History, JumpToHistory, AnimationFrame, Snapshot
<1>12. CASE Save
  <2>1. /\ ~Saving /\ UNCHANGED <<saved, apart, key, hydrated, stored>>
        /\ saves' = saves \cup {[scope |-> key, graph |-> shown, stage |-> "sent", live |-> TRUE]}
    BY <1>12 DEF Save
  <2>2. \A r \in saves' : r.live => r = [scope |-> key, graph |-> shown, stage |-> "sent", live |-> TRUE]
    BY <2>1 DEF Saving
  <2> DEFINE s == [scope |-> key, graph |-> shown, stage |-> "sent", live |-> TRUE]
  <2>3. s \in saves' /\ s.live /\ s.stage = "sent"
    BY <2>1
  <2>4. LiveOnce' /\ Saving'
    BY <2>2, <2>3 DEF LiveOnce, Saving
  <2>5. hydrated /\ ~apart => saved = stored[key]
    BY <2>1 DEF SnapshotStands
  <2>6. ASSUME hydrated', ~apart', NEW q \in saves', q.live
        PROVE  Pending(q)' /\ saved' = stored'[key']
    <3>1. q = s
      BY <2>2, <2>6
    <3> QED
      BY <2>1, <2>5, <2>6, <3>1 DEF Pending
  <2> QED
    BY <2>4, <2>6 DEF SnapshotStands
<1>13. ASSUME NEW r \in saves, SaveStored(r) PROVE CleanInv'
  <2> DEFINE s == [r EXCEPT !.stage = "stored"]
  <2>1. /\ r.stage = "sent" /\ UNCHANGED <<saved, key, hydrated>>
        /\ saves' = (saves \ {r}) \cup {s}
        /\ apart' = IF r.scope = key THEN ~r.live ELSE apart
        /\ s.live = r.live /\ s.scope = r.scope /\ s.graph = r.graph /\ s.stage = "stored"
        /\ r.scope \in Scopes /\ r.live \in BOOLEAN
        /\ stored' = [stored EXCEPT ![r.scope] = r.graph]
    BY <1>0, <1>13 DEF SaveStored, WholeRequest
  <2>2. LiveOnce'
    BY <2>1 DEF LiveOnce
  <2>3. CASE r.scope = key
    <3>1. ~apart' => r.live /\ \A q \in saves' : q.live => q = s
      BY <2>1, <2>3 DEF LiveOnce
    <3>2. stored'[key] = r.graph
      BY <1>0, <2>1, <2>3
    <3> QED
      BY <2>1, <2>2, <2>3, <3>1, <3>2 DEF SnapshotStands, Saving, Pending
  <2>4. CASE r.scope # key
    <3>1. stored'[key] = stored[key] /\ apart' = apart /\ (Saving' <=> Saving)
      BY <1>0, <2>1, <2>4 DEF Saving
    <3>2. hydrated /\ ~apart /\ r.live => saved = stored[key]
      BY <2>4 DEF SnapshotStands, Pending
    <3>3. ASSUME hydrated', ~apart', NEW q \in saves', q.live
          PROVE  IF Pending(q)' THEN saved' = stored'[key'] ELSE q.graph = stored'[key']
      <4>1. CASE q = s
        BY <2>1, <2>4, <3>1, <3>2, <3>3, <4>1 DEF Pending
      <4>2. CASE q \in saves
        BY <2>1, <3>1, <3>3, <4>2 DEF SnapshotStands, Pending
      <4> QED
        BY <2>1, <3>3, <4>1, <4>2
    <3>4. hydrated' /\ ~apart' /\ ~Saving' => saved' = stored'[key']
      BY <2>1, <3>1 DEF SnapshotStands
    <3> QED
      BY <2>2, <3>3, <3>4 DEF SnapshotStands
  <2> QED
    BY <2>3, <2>4
<1>14. ASSUME NEW r \in saves, SaveAnswered(r) PROVE CleanInv'
  <2>1. /\ r.stage = "stored" /\ UNCHANGED <<key, hydrated, stored>>
        /\ saves' = saves \ {r} /\ saved' = IF r.live THEN r.graph ELSE saved
        /\ apart' = (apart \/ (r.live /\ r.scope # key))
    BY <1>14 DEF SaveAnswered
  <2>2. CASE r.live
    <3>1. \A q \in saves' : ~q.live
      BY <2>1, <2>2 DEF LiveOnce
    <3> QED
      BY <2>1, <2>2, <3>1 DEF LiveOnce, SnapshotStands, Saving, Pending
  <2>3. CASE ~r.live
    <3>1. Saving' <=> Saving
      BY <2>1, <2>3 DEF Saving
    <3> QED
      BY <2>1, <2>3, <3>1 DEF LiveOnce, SnapshotStands, Pending
  <2> QED
    BY <2>2, <2>3
<1>15. ASSUME NEW r \in saves, SaveFails(r) PROVE CleanInv'
  <2>1. /\ UNCHANGED <<saved, key, hydrated, stored>> /\ saves' = saves \ {r}
        /\ apart' = (apart \/ (r.stage = "stored" /\ r.scope = key))
        /\ r.stage \in {"sent", "stored"}
    BY <1>0, <1>15 DEF SaveFails, WholeRequest
  <2>2. CASE r.live
    <3>1. \A q \in saves' : ~q.live
      BY <2>1, <2>2 DEF LiveOnce
    <3> QED
      BY <2>1, <2>2, <3>1 DEF LiveOnce, SnapshotStands, Saving, Pending
  <2>3. CASE ~r.live
    <3>1. Saving' <=> Saving
      BY <2>1, <2>3 DEF Saving
    <3> QED
      BY <2>1, <2>3, <3>1 DEF LiveOnce, SnapshotStands, Pending
  <2> QED
    BY <2>2, <2>3
<1>16. ASSUME NEW k \in Scopes, OtherSaves(k) PROVE CleanInv'
  <2>1. /\ UNCHANGED <<saves, saved, key, hydrated>>
        /\ ~apart' => ~apart /\ stored'[key] = stored[key]
    BY <1>0, <1>16 DEF OtherSaves
  <2> QED
    BY <2>1 DEF LiveOnce, SnapshotStands, Saving, Pending
<1>17. CASE UNCHANGED vars
  BY <1>1, <1>17 DEF vars
<1> QED
  BY <1>4, <1>5, <1>6, <1>7, <1>8, <1>9, <1>10, <1>11, <1>12, <1>13, <1>14, <1>15, <1>16, <1>17
  DEF Next, Loads, Writes

\* "No changes" means that what is shown is what is stored, however fetches, saves,
\* answers and scope switches overlap, except after one of the events in apart.
THEOREM CleanIsStored == Spec => []CleanMeansStored
<1>1. Init => CleanInv
  BY DEF Init, CleanInv, LiveOnce
<1>2. WholeInv /\ CleanInv /\ [Next]_vars => CleanInv'
  BY CleanStep
<1>3. CleanInv => CleanMeansStored
  BY DEF CleanInv, CleanMeansStored, SnapshotStands, Dirty
<1> QED
  BY <1>1, <1>2, <1>3, WholeAlways, PTL DEF Spec
=============================================================================
