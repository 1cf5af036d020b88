--------------------------- MODULE AgentLifecycle ---------------------------
(***************************************************************************)
(* Who monitors which server, as the backend's database records it: the    *)
(* servers, agents and provision_tokens tables and every endpoint, job and *)
(* page that writes their lifecycle columns.                               *)
(*                                                                         *)
(* Time is abstracted.  An agent's last_seen_at is "never" (null), "fresh" *)
(* (inside the offline threshold) or "stale"; a token's expires_at is      *)
(* lapsed or not.  A provision token that was used, revoked or expired is  *)
(* inactive and its identity is reused: the code only ever asks whether a  *)
(* token's status is 'active'.                                             *)
(*                                                                         *)
(* Several handlers read rows first and write them later, with no lock in  *)
(* between.  Each of them has an atomic form, and a Begin and an End form  *)
(* that leaves the request in `request` while other handlers run.  With    *)
(* Overlapping = FALSE requests are served one at a time; with TRUE one    *)
(* request at a time may be overtaken by any number of others.             *)
(***************************************************************************)
EXTENDS Naturals, FiniteSets

CONSTANTS
  Server,       \* rows of the servers table
  Agent,        \* installation UUIDs
  Token,        \* provision tokens that can be outstanding together
  NoAgent,      \* a null servers.agent_id
  NoServer,     \* a null agents.server_id, and the server of an inactive token
  Overlapping   \* whether a request may be overtaken between its read and its write

ASSUME NullAssumption == NoAgent \notin Agent /\ NoServer \notin Server
ASSUME OverlappingAssumption == Overlapping \in BOOLEAN

VARIABLES
  status,       \* servers.status
  owner,        \* servers.agent_id
  deleted,      \* servers.agent_deleted
  trashed,      \* servers.deleted_at is set (SoftDeletes hides the row)
  agentStatus,  \* agents.status, "none" while no row has this installation UUID
  primary,      \* agents.server_id, the legacy primary pointer
  lastSeen,     \* agents.last_seen_at against the offline threshold
  tokenOf,      \* the server an active token provisions
  lapsed,       \* an active token's expires_at is past
  request       \* the request that has read its rows and not written yet

serverVars == <<status, owner, deleted, trashed>>
agentVars  == <<agentStatus, primary, lastSeen>>
tokenVars  == <<tokenOf, lapsed>>
vars       == <<serverVars, agentVars, tokenVars, request>>

Status == {"pending_installation", "waiting_for_installation",
           "waiting_for_first_heartbeat", "online", "offline", "archived",
           "agent_uninstalled"}

Idle == [kind |-> "idle"]

HeartbeatRequest == [kind : {"heartbeat"}, agent : Agent, servers : SUBSET Server]
MonitorRequest   == [kind : {"monitor"}, server : Server, offline : BOOLEAN,
                     previous : Status]
RegisterRequest  == [kind : {"register"}, agent : Agent, token : Token,
                     server : Server, seenOwner : Agent \cup {NoAgent},
                     seenStatus : Status]
RevokeRequest    == [kind : {"revoke"}, agent : Agent, servers : SUBSET Server]
MintRequest      == [kind : {"mint"}, server : Server, force : BOOLEAN, again : BOOLEAN,
                     seenStatus : Status, seenDeleted : BOOLEAN]
ExpireRequest    == [kind : {"expire"}, server : Server, tokens : SUBSET Token]
ServerRequest    == [kind : {"view", "detach", "destroy"}, server : Server]

Request == {Idle} \cup HeartbeatRequest \cup MonitorRequest \cup RegisterRequest
             \cup RevokeRequest \cup MintRequest \cup ExpireRequest \cup ServerRequest

TypeOK ==
  /\ status \in [Server -> Status]
  /\ owner \in [Server -> Agent \cup {NoAgent}]
  /\ deleted \in [Server -> BOOLEAN]
  /\ trashed \in [Server -> BOOLEAN]
  /\ agentStatus \in [Agent -> {"none", "active", "revoked"}]
  /\ primary \in [Agent -> Server \cup {NoServer}]
  /\ lastSeen \in [Agent -> {"never", "fresh", "stale"}]
  /\ tokenOf \in [Token -> Server \cup {NoServer}]
  /\ lapsed \in [Token -> BOOLEAN]
  /\ request \in Request

Init ==
  /\ status = [s \in Server |-> "pending_installation"]
  /\ owner = [s \in Server |-> NoAgent]
  /\ deleted = [s \in Server |-> FALSE]
  /\ trashed = [s \in Server |-> FALSE]
  /\ agentStatus = [a \in Agent |-> "none"]
  /\ primary = [a \in Agent |-> NoServer]
  /\ lastSeen = [a \in Agent |-> "never"]
  /\ tokenOf = [t \in Token |-> NoServer]
  /\ lapsed = [t \in Token |-> FALSE]
  /\ request = Idle

-----------------------------------------------------------------------------
(* The Eloquent relations the handlers query through.                      *)

\* Server::agent(): only an active agent counts as the agent of a server.
HasActiveAgent(s) == owner[s] # NoAgent /\ agentStatus[owner[s]] = "active"

\* Agent::monitoredServers().
MonitoredBy(a) ==
  {s \in Server : owner[s] = a /\ ~deleted[s] /\ status[s] # "archived" /\ ~trashed[s]}

\* ProvisionToken rows of a server whose status is 'active'.
ActiveTokens(s) == {t \in Token : tokenOf[t] = s}

\* Agent::isAlive(), for an active agent.
IsAlive(a) == lastSeen[a] = "fresh"

\* The tokens whose rows the request in progress holds.
Held ==
  CASE request.kind = "register" -> {request.token}
    [] request.kind = "expire"   -> request.tokens
    [] OTHER                     -> {}

\* Nothing is in progress, and what comes next may be overtaken.
MayBegin == Overlapping /\ request = Idle

-----------------------------------------------------------------------------
(* Provisioning: ProvisioningService and the token clocks.                 *)

\* Create token t for server s and leave the others as they are.
CreateToken(s, t) ==
  /\ tokenOf[t] = NoServer /\ t \notin Held
  /\ tokenOf' = [tokenOf EXCEPT ![t] = s]
  /\ lapsed' = [lapsed EXCEPT ![t] = FALSE]

\* Create token t for server s and revoke every other active token of s, whose
\* identity t may take over.
MintToken(s, t) ==
  /\ tokenOf[t] \in {NoServer, s} /\ t \notin Held
  /\ tokenOf' = [u \in Token |-> IF u = t THEN s
                                 ELSE IF tokenOf[u] = s THEN NoServer ELSE tokenOf[u]]
  /\ lapsed' = [u \in Token |-> lapsed[u] /\ u # t /\ tokenOf[u] # s]

RevokeTokens(s) ==
  /\ tokenOf' = [u \in Token |-> IF tokenOf[u] = s THEN NoServer ELSE tokenOf[u]]
  /\ lapsed' = [u \in Token |-> lapsed[u] /\ tokenOf[u] # s]

\* The row a request for a token reads; `again` says that it has still to revoke.
MintReads(s, force, again) ==
  [kind |-> "mint", server |-> s, force |-> force, again |-> again,
   seenStatus |-> status[s], seenDeleted |-> deleted[s]]

\* What it writes of the row: the columns that differ from what it read.
WriteMinted(m) ==
  /\ status' = IF m.force \/ m.seenStatus = "waiting_for_installation" THEN status
               ELSE [status EXCEPT ![m.server] = "waiting_for_installation"]
  /\ deleted' = IF m.seenDeleted THEN [deleted EXCEPT ![m.server] = FALSE] ELSE deleted
  /\ UNCHANGED <<owner, trashed, agentVars>>

\* generateToken past its guards: the server waits for its installation again.
Reprovision(s, t) ==
  /\ MintToken(s, t)
  /\ WriteMinted(MintReads(s, FALSE, TRUE))
  /\ UNCHANGED request

MayGenerate(s) == ~trashed[s] /\ status[s] # "archived" /\ ~HasActiveAgent(s)

\* activeProvisionToken where there is none that still runs: no token, or any one
\* of the active ones that has expired.
FoundLapsed(s) ==
  IF ActiveTokens(s) = {} THEN {{}} ELSE {{u} : u \in {v \in ActiveTokens(s) : lapsed[v]}}

GenerateToken(s, t) ==
  /\ MayGenerate(s)
  /\ FoundLapsed(s) # {}
  /\ Reprovision(s, t)

\* The old tokens are revoked first; a server that may not get a new one
\* (archived, or an agent is active) is left with none.
RegenerateToken(s, t) ==
  /\ MayGenerate(s)
  /\ Reprovision(s, t)

\* A request that is overtaken after its revocation may be refused for what the
\* other one did.
RegenerateRefused(s) ==
  /\ ~trashed[s]
  /\ status[s] = "archived" \/ HasActiveAgent(s) \/ Overlapping
  /\ ActiveTokens(s) # {}
  /\ RevokeTokens(s)
  /\ UNCHANGED <<serverVars, agentVars, request>>

ForceReinstallToken(s, t) ==
  /\ ~trashed[s] /\ status[s] # "archived"
  /\ MintToken(s, t)
  /\ WriteMinted(MintReads(s, TRUE, TRUE))
  /\ UNCHANGED request

\* Overtaken before the transaction, or in it: PostgreSQL reads committed rows, so
\* the revocation does not see a token that another transaction creates meanwhile.
GenerateBegin(s) ==
  /\ MayBegin
  /\ MayGenerate(s)
  /\ FoundLapsed(s) # {}
  /\ \/ request' = MintReads(s, FALSE, TRUE) /\ UNCHANGED tokenVars
     \/ request' = MintReads(s, FALSE, FALSE) /\ RevokeTokens(s)
  /\ UNCHANGED <<serverVars, agentVars>>

RegenerateBegin(s) ==
  /\ MayBegin
  /\ MayGenerate(s)
  /\ RevokeTokens(s)
  /\ \E again \in BOOLEAN : request' = MintReads(s, FALSE, again)
  /\ UNCHANGED <<serverVars, agentVars>>

\* No transaction joins the revocation to the creation.
ForceBegin(s) ==
  /\ MayBegin
  /\ ~trashed[s] /\ status[s] # "archived"
  /\ RevokeTokens(s)
  /\ request' = MintReads(s, TRUE, FALSE)
  /\ UNCHANGED <<serverVars, agentVars>>

MintEnd(t) ==
  /\ request.kind = "mint"
  /\ \/ request.again /\ MintToken(request.server, t)
     \/ ~request.again /\ CreateToken(request.server, t)
  /\ WriteMinted(request)
  /\ request' = Idle

\* The 30 minutes of a token pass.
TokenLapses(t) ==
  /\ tokenOf[t] # NoServer /\ ~lapsed[t]
  /\ lapsed' = [lapsed EXCEPT ![t] = TRUE]
  /\ UNCHANGED <<serverVars, agentVars, tokenOf, request>>

\* tokens:cleanup, hourly.
CleanupProvisionTokens ==
  /\ \E t \in Token : lapsed[t]
  /\ tokenOf' = [t \in Token |-> IF lapsed[t] THEN NoServer ELSE tokenOf[t]]
  /\ lapsed' = [t \in Token |-> FALSE]
  /\ UNCHANGED <<serverVars, agentVars, request>>

\* Mutant: the token's new status is written to the server.
ApplyExpirationToServer(s, tokens) ==
  /\ status' = [status EXCEPT ![s] = "expired"]
  /\ UNCHANGED <<owner, deleted, trashed, agentVars, tokenVars>>

ApplyExpiration(s, tokens) ==
  /\ status' = [status EXCEPT ![s] = "pending_installation"]
  /\ tokenOf' = [u \in Token |-> IF u \in tokens THEN NoServer ELSE tokenOf[u]]
  /\ lapsed' = [u \in Token |-> lapsed[u] /\ u \notin tokens]
  /\ UNCHANGED <<owner, deleted, trashed, agentVars>>

\* Server::checkTokenExpiration, run by every page that lists or shows the
\* server.  (The monitor sweep runs it too, for servers with an active agent
\* only: nothing scheduled runs it for a server that waits for its first one.)
CheckTokenExpiration(s) ==
  /\ ~trashed[s] /\ status[s] = "waiting_for_installation"
  /\ \E tokens \in FoundLapsed(s) : ApplyExpiration(s, tokens)
  /\ UNCHANGED request

ExpirationBegin(s) ==
  /\ MayBegin
  /\ ~trashed[s] /\ status[s] = "waiting_for_installation"
  /\ \E tokens \in FoundLapsed(s) :
       request' = [kind |-> "expire", server |-> s, tokens |-> tokens]
  /\ UNCHANGED <<serverVars, agentVars, tokenVars>>

ExpirationEnd ==
  /\ request.kind = "expire"
  /\ ApplyExpiration(request.server, request.tokens)
  /\ request' = Idle

-----------------------------------------------------------------------------
(* Registration: ProvisioningService::register.                            *)

\* What the request reads before its transaction: an active token (its expiry
\* is not asked for) and the row of the token's server.
RegisterReads(a, t) ==
  [kind |-> "register", agent |-> a, token |-> t, server |-> tokenOf[t],
   seenOwner |-> owner[tokenOf[t]], seenStatus |-> status[tokenOf[t]]]

\* Mutant: a token outlives its archived server.
CanRegisterArchived(t) == tokenOf[t] # NoServer

CanRegister(t) == tokenOf[t] # NoServer /\ ~trashed[tokenOf[t]]

\* The agent that loses r.server to r.agent, if any.
Displaced(r) == {r.seenOwner} \ {NoAgent, r.agent}

\* Mutant: a displaced agent is revoked even if it has other servers.
NeverStillOwns(o, s) == FALSE

\* Whether agent o owns a server besides s.
StillOwns(o, s) == \E x \in Server \ {s} : owner[x] = o /\ ~trashed[x]

\* The transaction.  Eloquent writes only the columns that differ from the
\* row the request read.
ApplyRegister(r) ==
  LET gone == {o \in Displaced(r) : ~StillOwns(o, r.server)} IN
  /\ tokenOf' = [tokenOf EXCEPT ![r.token] = NoServer]
  /\ lapsed' = [lapsed EXCEPT ![r.token] = FALSE]
  /\ status' = IF r.seenStatus = "waiting_for_first_heartbeat" THEN status
               ELSE [status EXCEPT ![r.server] = "waiting_for_first_heartbeat"]
  /\ owner' = IF r.seenOwner = r.agent THEN owner
              ELSE [owner EXCEPT ![r.server] = r.agent]
  /\ agentStatus' = [a \in Agent |-> IF a = r.agent THEN "active"
                                     ELSE IF a \in gone THEN "revoked"
                                     ELSE agentStatus[a]]
  /\ lastSeen' = [a \in Agent |-> IF a = r.agent \/ a \in gone THEN "never"
                                  ELSE lastSeen[a]]
  /\ primary' = [a \in Agent |->
       IF a = r.agent /\ primary[a] = NoServer THEN r.server
       ELSE IF a \in Displaced(r) /\ primary[a] = r.server THEN NoServer
       ELSE primary[a]]
  /\ UNCHANGED <<deleted, trashed>>

Register(a, t) ==
  /\ CanRegister(t)
  /\ ApplyRegister(RegisterReads(a, t))
  /\ UNCHANGED request

RegisterBegin(a, t) ==
  /\ MayBegin
  /\ CanRegister(t)
  /\ request' = RegisterReads(a, t)
  /\ UNCHANGED <<serverVars, agentVars, tokenVars>>

RegisterEnd ==
  /\ request.kind = "register"
  /\ ApplyRegister(request)
  /\ request' = Idle

-----------------------------------------------------------------------------
(* Heartbeats: HeartbeatService::processAgent.                             *)

\* The partitions that pass the no-resurrection guard; the others come back
\* as revoked_server_uuids.
Accepted(a, servers) ==
  {s \in servers : /\ ~trashed[s] /\ status[s] # "archived"
                   /\ owner[s] = a
                   /\ ~deleted[s]}

\* The transaction; bringServerOnline re-reads the status and nothing else.
ApplyHeartbeat(a, accepted) ==
  /\ lastSeen' = [lastSeen EXCEPT ![a] = "fresh"]
  /\ status' = [s \in Server |-> IF s \in accepted THEN "online" ELSE status[s]]
  /\ UNCHANGED <<owner, deleted, trashed, agentStatus, primary, tokenVars>>

\* The agent names whatever servers it believes it monitors.
Heartbeat(a, servers) ==
  /\ agentStatus[a] = "active"
  /\ ApplyHeartbeat(a, Accepted(a, servers))
  /\ UNCHANGED request

HeartbeatBegin(a, servers) ==
  /\ MayBegin
  /\ agentStatus[a] = "active"
  /\ request' = [kind |-> "heartbeat", agent |-> a, servers |-> Accepted(a, servers)]
  /\ UNCHANGED <<serverVars, agentVars, tokenVars>>

HeartbeatEnd ==
  /\ request.kind = "heartbeat"
  /\ ApplyHeartbeat(request.agent, request.servers)
  /\ request' = Idle

\* No heartbeat for the offline threshold.
AgentFallsSilent(a) ==
  /\ lastSeen[a] = "fresh"
  /\ lastSeen' = [lastSeen EXCEPT ![a] = "stale"]
  /\ UNCHANGED <<serverVars, agentStatus, primary, tokenVars, request>>

-----------------------------------------------------------------------------
(* Health: the MonitorServer job and the server page.                      *)

\* The early returns of MonitorServer::handle.
InLifecycle(s) ==
  ~trashed[s] /\ ~deleted[s] /\ status[s] # "archived" /\ HasActiveAgent(s)

\* Mutant: only an agent that was never heard counts as silent.
MonitorReadsNull(s) ==
  [kind |-> "monitor", server |-> s, offline |-> lastSeen[owner[s]] = "never",
   previous |-> status[s]]

MonitorReads(s) ==
  [kind |-> "monitor", server |-> s, offline |-> lastSeen[owner[s]] # "fresh",
   previous |-> status[s]]

\* Mutant: the sweep leaves recovery to the heartbeats.
ApplyMonitorOfflineOnly(m) ==
  /\ status' = IF m.offline THEN [status EXCEPT ![m.server] = "offline"] ELSE status
  /\ UNCHANGED <<owner, deleted, trashed, agentVars, tokenVars>>

\* handleOfflineTransition and handleOnlineRecovery.
ApplyMonitor(m) ==
  /\ IF m.offline = (m.previous = "offline")
     THEN UNCHANGED status
     ELSE status' = [status EXCEPT ![m.server] = IF m.offline THEN "offline" ELSE "online"]
  /\ UNCHANGED <<owner, deleted, trashed, agentVars, tokenVars>>

MonitorServer(s) ==
  /\ InLifecycle(s)
  /\ ApplyMonitor(MonitorReads(s))
  /\ UNCHANGED request

MonitorBegin(s) ==
  /\ MayBegin
  /\ InLifecycle(s)
  /\ request' = MonitorReads(s)
  /\ UNCHANGED <<serverVars, agentVars, tokenVars>>

MonitorEnd ==
  /\ request.kind = "monitor"
  /\ ApplyMonitor(request)
  /\ request' = Idle

\* ServerData::fromModel: rendering a server whose agent is silent marks it
\* offline, unless it still waits for its first heartbeat.
ShownOffline(s) ==
  /\ InLifecycle(s)
  /\ status[s] \notin {"agent_uninstalled", "waiting_for_first_heartbeat", "offline"}
  /\ lastSeen[owner[s]] # "fresh"

ApplyView(s) ==
  /\ status' = [status EXCEPT ![s] = "offline"]
  /\ UNCHANGED <<owner, deleted, trashed, agentVars, tokenVars>>

ViewServer(s) ==
  /\ ShownOffline(s)
  /\ ApplyView(s)
  /\ UNCHANGED request

ViewBegin(s) ==
  /\ MayBegin
  /\ ShownOffline(s)
  /\ request' = [kind |-> "view", server |-> s]
  /\ UNCHANGED <<serverVars, agentVars, tokenVars>>

ViewEnd ==
  /\ request.kind = "view"
  /\ ApplyView(request.server)
  /\ request' = Idle

-----------------------------------------------------------------------------
(* Decommissioning: detach, uninstall, deregister, archive.                *)

\* Mutant: the status is left to the monitor sweep.
DecommissionKeepsStatus(S) ==
  /\ owner' = [s \in Server |-> IF s \in S THEN NoAgent ELSE owner[s]]
  /\ deleted' = [s \in Server |-> deleted[s] \/ s \in S]
  /\ UNCHANGED <<status, trashed, tokenVars>>

\* The columns of every server in S after it lost its agent.
Decommission(S) ==
  /\ owner' = [s \in Server |-> IF s \in S THEN NoAgent ELSE owner[s]]
  /\ deleted' = [s \in Server |-> deleted[s] \/ s \in S]
  /\ status' = [s \in Server |-> IF s \in S THEN "agent_uninstalled" ELSE status[s]]
  /\ UNCHANGED <<trashed, tokenVars>>

\* AgentController::detachServer, called by the agent itself.
MayDetach(a, s) == agentStatus[a] = "active" /\ s \in MonitoredBy(a)

DetachServer(a, s) ==
  /\ MayDetach(a, s)
  /\ Decommission({s})
  /\ UNCHANGED <<agentVars, request>>

\* AgentController::revokeAgentRecord with the servers it loaded.
ApplyRevoke(a, servers) ==
  /\ agentStatus' = [agentStatus EXCEPT ![a] = "revoked"]
  /\ lastSeen' = [lastSeen EXCEPT ![a] = "never"]
  /\ Decommission(servers)
  /\ UNCHANGED primary

\* AgentController::uninstall, called by the agent itself.
Uninstall(a) ==
  /\ agentStatus[a] = "active"
  /\ ApplyRevoke(a, MonitoredBy(a))
  /\ UNCHANGED request

\* AgentController::deregister: a silent agent with several servers loses
\* this one only, any other silent agent is revoked.
MayDeregister(s) == ~trashed[s] /\ HasActiveAgent(s) /\ ~IsAlive(owner[s])
IsShared(s) == Cardinality(MonitoredBy(owner[s])) > 1

Deregister(s) ==
  /\ MayDeregister(s)
  /\ \/ IsShared(s) /\ Decommission({s}) /\ UNCHANGED agentVars
     \/ ~IsShared(s) /\ ApplyRevoke(owner[s], MonitoredBy(owner[s]))
  /\ UNCHANGED request

\* One server is taken from its agent, by either of them.  (The late write of a
\* detach or a revocation is that of every column; the code leaves out a column that
\* it read with its new value.)
DetachBegin(s) ==
  /\ MayBegin
  /\ (\E a \in Agent : MayDetach(a, s)) \/ (MayDeregister(s) /\ IsShared(s))
  /\ request' = [kind |-> "detach", server |-> s]
  /\ UNCHANGED <<serverVars, agentVars, tokenVars>>

DetachEnd ==
  /\ request.kind = "detach"
  /\ Decommission({request.server})
  /\ UNCHANGED agentVars
  /\ request' = Idle

\* An agent is revoked with its servers, by itself or from the dashboard.
RevokeBegin(a) ==
  /\ MayBegin
  /\ agentStatus[a] = "active"
  /\ request' = [kind |-> "revoke", agent |-> a, servers |-> MonitoredBy(a)]
  /\ UNCHANGED <<serverVars, agentVars, tokenVars>>

RevokeEnd ==
  /\ request.kind = "revoke"
  /\ ApplyRevoke(request.agent, request.servers)
  /\ request' = Idle

\* ServerController::destroy: archive and soft-delete.
MayDestroy(s) == ~trashed[s] /\ ~(HasActiveAgent(s) /\ ~deleted[s])

ApplyDestroy(s) ==
  /\ status' = [status EXCEPT ![s] = "archived"]
  /\ trashed' = [trashed EXCEPT ![s] = TRUE]
  /\ UNCHANGED <<owner, deleted, agentVars, tokenVars>>

Destroy(s) ==
  /\ MayDestroy(s)
  /\ ApplyDestroy(s)
  /\ UNCHANGED request

DestroyBegin(s) ==
  /\ MayBegin
  /\ MayDestroy(s)
  /\ request' = [kind |-> "destroy", server |-> s]
  /\ UNCHANGED <<serverVars, agentVars, tokenVars>>

DestroyEnd ==
  /\ request.kind = "destroy"
  /\ ApplyDestroy(request.server)
  /\ request' = Idle

-----------------------------------------------------------------------------

Provisioning ==
  \/ \E s \in Server, t \in Token : \/ GenerateToken(s, t)
                                    \/ RegenerateToken(s, t)
                                    \/ ForceReinstallToken(s, t)
  \/ \E s \in Server : \/ RegenerateRefused(s) \/ CheckTokenExpiration(s)
                       \/ GenerateBegin(s) \/ RegenerateBegin(s) \/ ForceBegin(s)
                       \/ ExpirationBegin(s)
  \/ \E t \in Token : MintEnd(t) \/ TokenLapses(t)
  \/ ExpirationEnd
  \/ CleanupProvisionTokens

Registration ==
  \/ \E a \in Agent, t \in Token : Register(a, t) \/ RegisterBegin(a, t)
  \/ RegisterEnd

Reporting ==
  \/ \E a \in Agent, servers \in SUBSET Server :
       Heartbeat(a, servers) \/ HeartbeatBegin(a, servers)
  \/ HeartbeatEnd
  \/ \E a \in Agent : AgentFallsSilent(a)

Health ==
  \/ \E s \in Server : MonitorServer(s) \/ MonitorBegin(s) \/ ViewServer(s) \/ ViewBegin(s)
  \/ MonitorEnd \/ ViewEnd

Decommissioning ==
  \/ \E a \in Agent, s \in Server : DetachServer(a, s)
  \/ \E s \in Server : \/ Deregister(s) \/ DetachBegin(s)
                       \/ Destroy(s) \/ DestroyBegin(s)
  \/ \E a \in Agent : Uninstall(a) \/ RevokeBegin(a)
  \/ RevokeEnd \/ DetachEnd \/ DestroyEnd

Next == Provisioning \/ Registration \/ Reporting \/ Health \/ Decommissioning

\* The scheduler runs the monitor sweep over every server with an active agent
\* every minute, whatever users do.
Fairness == \A s \in Server : WF_vars(MonitorServer(s))

Spec == Init /\ [][Next]_vars /\ Fairness

-----------------------------------------------------------------------------
(* Safety.                                                                 *)

\* A server the dashboard shows online or offline has an active agent, is not
\* decommissioned and not archived: nothing resurrects a server that left the
\* lifecycle (the guards of processAgent and MonitorServer::handle against
\* every handler that detaches, revokes or archives).  Requests served one at
\* a time keep it; an overtaken one does not.
LiveServerIsOwned ==
  \A s \in Server : status[s] \in {"online", "offline"} =>
                      HasActiveAgent(s) /\ ~deleted[s] /\ ~trashed[s]

\* However tokens are generated, regenerated, forced, used or expired, a server
\* has at most one install command that still works.  Requests served one at a
\* time keep it; two that ask for a token at once do not.
OneTokenPerServer ==
  \A s \in Server : \A t, u \in ActiveTokens(s) : t = u

\* Whoever revokes an agent - itself, the dashboard, or a registration that
\* takes its server - no monitored server is left with it: "a multi-server
\* agent must not be killed when one of its servers is reassigned".
RevocationTakesEveryServer ==
  [][\A a \in Agent : agentStatus[a] = "active" /\ agentStatus'[a] = "revoked"
                         => MonitoredBy(a)' = {}]_vars

\* Archiving is final: no token, registration, heartbeat or monitor run brings
\* an archived server back.
ArchivedIsFinal ==
  [][\A s \in Server : trashed[s] => trashed'[s] /\ status'[s] = "archived"]_vars

\* A decommissioned server never turns online ("Decommissioned servers are out
\* of the lifecycle: no offline flips, no online recovery").
NoResurrection == \A s \in Server : deleted[s] => status[s] # "online"

-----------------------------------------------------------------------------
(* Liveness.                                                               *)

Attached(s) == InLifecycle(s) /\ status[s] \in {"online", "offline"}

\* A server shown online whose agent has gone silent is shown offline, unless
\* the agent is heard again or the server leaves the agent first.
SilentServerGoesOffline ==
  \A s \in Server :
    (Attached(s) /\ status[s] = "online" /\ ~IsAlive(owner[s]))
      ~> (~Attached(s) \/ status[s] = "offline" \/ IsAlive(owner[s]))

\* A server shown offline whose agent reports for another server only is shown
\* online again all the same, unless the agent falls silent first.
RecoveredServerComesOnline ==
  \A s \in Server :
    (Attached(s) /\ status[s] = "offline" /\ IsAlive(owner[s]))
      ~> (~Attached(s) \/ status[s] = "online" \/ ~IsAlive(owner[s]))
=============================================================================
