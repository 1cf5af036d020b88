----------------------- MODULE AgentLifecycleProofs -----------------------
(***************************************************************************)
(* Theorems about AgentLifecycle, for every set of servers, agents and     *)
(* tokens.                                                                 *)
(***************************************************************************)
EXTENDS AgentLifecycle, TLAPS

USE DEF Idle, Request, HeartbeatRequest, MonitorRequest, RegisterRequest, RevokeRequest,
        MintRequest, ExpireRequest, ServerRequest, MayBegin

\* Creating, revoking and expiring tokens keeps the token columns typed.
LEMMA MintTokenType ==
  ASSUME TypeOK, NEW s \in Server, NEW t \in Token, MintToken(s, t) \/ CreateToken(s, t)
  PROVE  /\ tokenOf' \in [Token -> Server \cup {NoServer}]
         /\ lapsed' \in [Token -> BOOLEAN]
<1>1. CASE MintToken(s, t) BY <1>1 DEF TypeOK, MintToken
<1>2. CASE CreateToken(s, t) BY <1>2 DEF TypeOK, CreateToken
<1> QED BY <1>1, <1>2

LEMMA RevokeTokensType ==
  ASSUME TypeOK, NEW s \in Server, RevokeTokens(s)
  PROVE  /\ tokenOf' \in [Token -> Server \cup {NoServer}]
         /\ lapsed' \in [Token -> BOOLEAN]
BY DEF TypeOK, RevokeTokens

LEMMA MintReadsType ==
  ASSUME TypeOK, NEW s \in Server, NEW force \in BOOLEAN, NEW again \in BOOLEAN
  PROVE  MintReads(s, force, again) \in MintRequest
BY DEF TypeOK, MintReads

LEMMA WriteMintedType ==
  ASSUME TypeOK, NEW m \in MintRequest, WriteMinted(m)
  PROVE  /\ status' \in [Server -> Status] /\ deleted' \in [Server -> BOOLEAN]
         /\ UNCHANGED <<owner, trashed, agentStatus, primary, lastSeen>>
BY DEF TypeOK, WriteMinted, Status, agentVars

LEMMA FoundLapsedType ==
  ASSUME NEW s \in Server, NEW tokens \in FoundLapsed(s)
  PROVE  tokens \in SUBSET Token
BY DEF FoundLapsed, ActiveTokens

LEMMA ApplyExpirationType ==
  ASSUME TypeOK, NEW s \in Server, NEW tokens \in SUBSET Token, ApplyExpiration(s, tokens),
         request' \in Request
  PROVE  TypeOK'
BY DEF TypeOK, ApplyExpiration, Status, agentVars

LEMMA DecommissionType ==
  ASSUME TypeOK, NEW S \in SUBSET Server, Decommission(S)
  PROVE  /\ owner' \in [Server -> Agent \cup {NoAgent}]
         /\ deleted' \in [Server -> BOOLEAN]
         /\ status' \in [Server -> Status]
         /\ UNCHANGED <<trashed, tokenVars>>
BY DEF TypeOK, Decommission, Status

LEMMA ProvisioningType == TypeOK /\ Provisioning => TypeOK'
<1> SUFFICES ASSUME TypeOK, Provisioning PROVE TypeOK'
  OBVIOUS
<1>1. ASSUME NEW s \in Server, NEW t \in Token, NEW m \in MintRequest,
             MintToken(s, t) \/ CreateToken(s, t), WriteMinted(m), request' \in Request
      PROVE  TypeOK'
  BY <1>1, MintTokenType, WriteMintedType DEF TypeOK
<1>2. ASSUME NEW s \in Server, NEW t \in Token,
             Reprovision(s, t) \/ ForceReinstallToken(s, t)
      PROVE  TypeOK'
  <2>1. request' \in Request /\ MintToken(s, t)
    BY <1>2 DEF TypeOK, Reprovision, ForceReinstallToken
  <2>2. PICK force \in BOOLEAN : WriteMinted(MintReads(s, force, TRUE))
    BY <1>2 DEF Reprovision, ForceReinstallToken
  <2> QED
    BY <1>1, <2>1, <2>2, MintReadsType
<1>3. ASSUME NEW s \in Server, RegenerateRefused(s)
      PROVE  TypeOK'
  BY <1>3, RevokeTokensType DEF TypeOK, RegenerateRefused, serverVars, agentVars
<1>4. ASSUME NEW s \in Server, CheckTokenExpiration(s)
      PROVE  TypeOK'
  BY <1>4, FoundLapsedType, ApplyExpirationType DEF TypeOK, CheckTokenExpiration
<1>5. ASSUME NEW t \in Token, TokenLapses(t)
      PROVE  TypeOK'
  BY <1>5 DEF TypeOK, TokenLapses, serverVars, agentVars
<1>6. ASSUME CleanupProvisionTokens
      PROVE  TypeOK'
  BY <1>6 DEF TypeOK, CleanupProvisionTokens, serverVars, agentVars
<1>7. ASSUME NEW s \in Server, GenerateBegin(s) \/ RegenerateBegin(s) \/ ForceBegin(s)
      PROVE  TypeOK'
  <2>1. \A force, again \in BOOLEAN : MintReads(s, force, again) \in Request
    BY MintReadsType
  <2>2. request' \in Request /\ UNCHANGED <<serverVars, agentVars>>
    BY <1>7, <2>1 DEF GenerateBegin, RegenerateBegin, ForceBegin
  <2>3. RevokeTokens(s) \/ UNCHANGED tokenVars
    BY <1>7 DEF GenerateBegin, RegenerateBegin, ForceBegin
  <2> QED
    BY <2>2, <2>3, RevokeTokensType DEF TypeOK, serverVars, agentVars, tokenVars
<1>8. ASSUME NEW t \in Token, MintEnd(t)
      PROVE  TypeOK'
  <2>1. request \in MintRequest /\ request' \in Request
    BY <1>8 DEF TypeOK, MintEnd
  <2> QED
    BY <1>1, <1>8, <2>1 DEF MintEnd
<1>9. ASSUME NEW s \in Server, ExpirationBegin(s)
      PROVE  TypeOK'
  BY <1>9, FoundLapsedType DEF TypeOK, ExpirationBegin, serverVars, agentVars, tokenVars
<1>10. ASSUME ExpirationEnd
       PROVE  TypeOK'
  <2>1. request \in ExpireRequest /\ request' \in Request
    BY <1>10 DEF TypeOK, ExpirationEnd
  <2> QED
    BY <1>10, <2>1, ApplyExpirationType DEF ExpirationEnd
<1> QED
  BY <1>2, <1>3, <1>4, <1>5, <1>6, <1>7, <1>8, <1>9, <1>10
  DEF Provisioning, GenerateToken, RegenerateToken

\* The row a registration reads is typed, and writing it keeps the columns typed.
LEMMA RegisterReadsType ==
  ASSUME TypeOK, NEW a \in Agent, NEW t \in Token, CanRegister(t)
  PROVE  RegisterReads(a, t) \in RegisterRequest
BY DEF TypeOK, CanRegister, RegisterReads

LEMMA ApplyRegisterType ==
  ASSUME TypeOK, NEW r \in RegisterRequest, ApplyRegister(r)
  PROVE  /\ status' \in [Server -> Status]
         /\ owner' \in [Server -> Agent \cup {NoAgent}]
         /\ agentStatus' \in [Agent -> {"none", "active", "revoked"}]
         /\ primary' \in [Agent -> Server \cup {NoServer}]
         /\ lastSeen' \in [Agent -> {"never", "fresh", "stale"}]
         /\ tokenOf' \in [Token -> Server \cup {NoServer}]
         /\ lapsed' \in [Token -> BOOLEAN]
         /\ UNCHANGED <<deleted, trashed>>
<1>1. status' \in [Server -> Status]
  BY DEF TypeOK, ApplyRegister, Status
<1>2. owner' \in [Server -> Agent \cup {NoAgent}]
  BY DEF TypeOK, ApplyRegister
<1>3. /\ agentStatus' \in [Agent -> {"none", "active", "revoked"}]
      /\ primary' \in [Agent -> Server \cup {NoServer}]
      /\ lastSeen' \in [Agent -> {"never", "fresh", "stale"}]
  BY DEF TypeOK, ApplyRegister
<1>4. /\ tokenOf' \in [Token -> Server \cup {NoServer}]
      /\ lapsed' \in [Token -> BOOLEAN]
      /\ UNCHANGED <<deleted, trashed>>
  BY DEF TypeOK, ApplyRegister
<1> QED BY <1>1, <1>2, <1>3, <1>4

LEMMA RegistrationType == TypeOK /\ Registration => TypeOK'
<1> SUFFICES ASSUME TypeOK, Registration PROVE TypeOK'
  OBVIOUS
<1>1. ASSUME NEW a \in Agent, NEW t \in Token, Register(a, t)
      PROVE  TypeOK'
  <2>1. RegisterReads(a, t) \in RegisterRequest
    BY <1>1, RegisterReadsType DEF Register
  <2> QED
    BY <1>1, <2>1, ApplyRegisterType DEF TypeOK, Register
<1>2. ASSUME NEW a \in Agent, NEW t \in Token, RegisterBegin(a, t)
      PROVE  TypeOK'
  <2>1. RegisterReads(a, t) \in RegisterRequest
    BY <1>2, RegisterReadsType DEF RegisterBegin
  <2> QED
    BY <1>2, <2>1 DEF TypeOK, RegisterBegin, serverVars, agentVars, tokenVars
<1>3. ASSUME RegisterEnd
      PROVE  TypeOK'
  <2>1. request \in RegisterRequest
    BY <1>3 DEF TypeOK, RegisterEnd
  <2> QED
    BY <1>3, <2>1, ApplyRegisterType DEF TypeOK, RegisterEnd
<1> QED
  BY <1>1, <1>2, <1>3 DEF Registration

LEMMA ReportingType == TypeOK /\ Reporting => TypeOK'
<1> SUFFICES ASSUME TypeOK, Reporting PROVE TypeOK'
  OBVIOUS
<1>1. ASSUME NEW a \in Agent, NEW S, ApplyHeartbeat(a, S), request' \in Request
      PROVE  TypeOK'
  BY <1>1 DEF TypeOK, ApplyHeartbeat, Status, tokenVars
<1>2. ASSUME NEW a \in Agent, NEW S \in SUBSET Server, Heartbeat(a, S)
      PROVE  TypeOK'
  BY <1>1, <1>2 DEF TypeOK, Heartbeat
<1>3. ASSUME NEW a \in Agent, NEW S \in SUBSET Server, HeartbeatBegin(a, S)
      PROVE  TypeOK'
  BY <1>3 DEF TypeOK, HeartbeatBegin, Accepted, serverVars, agentVars, tokenVars
<1>4. ASSUME HeartbeatEnd
      PROVE  TypeOK'
  BY <1>1, <1>4 DEF TypeOK, HeartbeatEnd
<1>5. ASSUME NEW a \in Agent, AgentFallsSilent(a)
      PROVE  TypeOK'
  BY <1>5 DEF TypeOK, AgentFallsSilent, serverVars, tokenVars
<1> QED
  BY <1>2, <1>3, <1>4, <1>5 DEF Reporting

LEMMA HealthType == TypeOK /\ Health => TypeOK'
<1> SUFFICES ASSUME TypeOK, Health PROVE TypeOK'
  OBVIOUS
<1>1. ASSUME NEW m \in MonitorRequest, ApplyMonitor(m), request' \in Request
      PROVE  TypeOK'
  BY <1>1 DEF TypeOK, ApplyMonitor, Status, agentVars, tokenVars
<1>2. \A s \in Server : MonitorReads(s) \in MonitorRequest
  BY DEF TypeOK, MonitorReads
<1>3. ASSUME NEW s \in Server, MonitorServer(s)
      PROVE  TypeOK'
  BY <1>1, <1>2, <1>3 DEF TypeOK, MonitorServer
<1>4. ASSUME NEW s \in Server, MonitorBegin(s)
      PROVE  TypeOK'
  BY <1>2, <1>4 DEF TypeOK, MonitorBegin, serverVars, agentVars, tokenVars
<1>5. ASSUME MonitorEnd
      PROVE  TypeOK'
  BY <1>1, <1>5 DEF TypeOK, MonitorEnd
<1>6. ASSUME NEW s \in Server, ApplyView(s), request' \in Request
      PROVE  TypeOK'
  BY <1>6 DEF TypeOK, ApplyView, Status, agentVars, tokenVars
<1>7. ASSUME NEW s \in Server, ViewServer(s) \/ ViewBegin(s)
      PROVE  TypeOK'
  BY <1>6, <1>7 DEF TypeOK, ViewServer, ViewBegin, serverVars, agentVars, tokenVars
<1>8. ASSUME ViewEnd
      PROVE  TypeOK'
  <2>1. request.server \in Server /\ request' \in Request
    BY <1>8 DEF TypeOK, ViewEnd
  <2> QED
    BY <1>6, <1>8, <2>1 DEF ViewEnd
<1> QED
  BY <1>3, <1>4, <1>5, <1>7, <1>8 DEF Health

LEMMA DecommissioningType == TypeOK /\ Decommissioning => TypeOK'
<1> SUFFICES ASSUME TypeOK, Decommissioning PROVE TypeOK'
  OBVIOUS
<1>1. ASSUME NEW S \in SUBSET Server, Decommission(S), UNCHANGED agentVars, request' \in Request
      PROVE  TypeOK'
  BY <1>1, DecommissionType DEF TypeOK, agentVars, tokenVars
<1>2. ASSUME NEW a \in Agent, NEW S \in SUBSET Server, ApplyRevoke(a, S), request' \in Request
      PROVE  TypeOK'
  BY <1>2, DecommissionType DEF TypeOK, ApplyRevoke, tokenVars
<1>3. \A a : MonitoredBy(a) \in SUBSET Server
  BY DEF MonitoredBy
<1>4. ASSUME NEW a \in Agent, NEW s \in Server, DetachServer(a, s)
      PROVE  TypeOK'
  BY <1>1, <1>4 DEF TypeOK, DetachServer
<1>5. ASSUME NEW s \in Server, DetachBegin(s) \/ DestroyBegin(s)
      PROVE  TypeOK'
  BY <1>5 DEF TypeOK, DetachBegin, DestroyBegin, serverVars, agentVars, tokenVars
<1>6. ASSUME NEW s \in Server, Deregister(s)
      PROVE  TypeOK'
  <2>1. owner[s] \in Agent /\ request' \in Request
    BY <1>6 DEF TypeOK, Deregister, MayDeregister, HasActiveAgent
  <2> QED
    BY <1>1, <1>2, <1>3, <1>6, <2>1 DEF Deregister
<1>7. ASSUME NEW s \in Server, ApplyDestroy(s), request' \in Request
      PROVE  TypeOK'
  BY <1>7 DEF TypeOK, ApplyDestroy, Status, agentVars, tokenVars
<1>11. ASSUME DetachEnd \/ DestroyEnd
       PROVE  TypeOK'
  <2>1. request.server \in Server /\ request' \in Request
    BY <1>11 DEF TypeOK, DetachEnd, DestroyEnd
  <2> QED
    BY <1>1, <1>7, <1>11, <2>1 DEF DetachEnd, DestroyEnd
<1>12. ASSUME NEW s \in Server, Destroy(s)
       PROVE  TypeOK'
  BY <1>7, <1>12 DEF TypeOK, Destroy
<1>8. ASSUME NEW a \in Agent, Uninstall(a)
      PROVE  TypeOK'
  BY <1>2, <1>3, <1>8 DEF TypeOK, Uninstall
<1>9. ASSUME NEW a \in Agent, RevokeBegin(a)
      PROVE  TypeOK'
  BY <1>3, <1>9 DEF TypeOK, RevokeBegin, serverVars, agentVars, tokenVars
<1>10. ASSUME RevokeEnd
       PROVE  TypeOK'
  BY <1>2, <1>10 DEF TypeOK, RevokeEnd
<1> QED
  BY <1>4, <1>5, <1>6, <1>8, <1>9, <1>10, <1>11, <1>12 DEF Decommissioning

\* Every column keeps its type, however requests overlap.
THEOREM TypeCorrect == Spec => []TypeOK
<1>1. Init => TypeOK
  BY DEF Init, TypeOK, Status
<1>2. TypeOK /\ [Next]_vars => TypeOK'
  <2>1. TypeOK /\ UNCHANGED vars => TypeOK'
    BY DEF TypeOK, vars, serverVars, agentVars, tokenVars
  <2> QED
    BY <2>1, ProvisioningType, RegistrationType, ReportingType, HealthType,
       DecommissioningType
    DEF Next
<1> QED
  BY <1>1, <1>2, PTL DEF Spec

-----------------------------------------------------------------------------
(* Requests served one at a time.                                          *)

\* What every handler finds and leaves when none is overtaken: no request is
\* half done, a live server has its agent, an archived server says so.
SerialInv ==
  /\ TypeOK
  /\ request = Idle
  /\ LiveServerIsOwned
  /\ \A s \in Server : trashed[s] => status[s] = "archived"

USE DEF HasActiveAgent

LEMMA SerialProvisioning ==
  ASSUME SerialInv, Provisioning, ~Overlapping
  PROVE  SerialInv'
<1>0. TypeOK'
  BY ProvisioningType DEF SerialInv
<1> USE DEF SerialInv, TypeOK, LiveServerIsOwned, agentVars, tokenVars, serverVars
<1>1. ASSUME NEW s \in Server, NEW force \in BOOLEAN, ~trashed[s],
             WriteMinted(MintReads(s, force, TRUE)), UNCHANGED request
      PROVE  SerialInv'
  BY <1>0, <1>1 DEF WriteMinted, MintReads
<1>2. ASSUME NEW s \in Server, NEW t \in Token,
             GenerateToken(s, t) \/ RegenerateToken(s, t) \/ ForceReinstallToken(s, t)
      PROVE  SerialInv'
  <2>1. PICK force \in BOOLEAN : WriteMinted(MintReads(s, force, TRUE))
    BY <1>2 DEF GenerateToken, RegenerateToken, Reprovision, ForceReinstallToken
  <2>2. ~trashed[s] /\ UNCHANGED request
    BY <1>2 DEF GenerateToken, RegenerateToken, Reprovision, ForceReinstallToken, MayGenerate
  <2> QED
    BY <1>1, <2>1, <2>2
<1>3. ASSUME NEW s \in Server, RegenerateRefused(s)
      PROVE  SerialInv'
  BY <1>0, <1>3 DEF RegenerateRefused
<1>4. ASSUME NEW s \in Server, CheckTokenExpiration(s)
      PROVE  SerialInv'
  BY <1>0, <1>4 DEF CheckTokenExpiration, ApplyExpiration
<1>5. ASSUME NEW t \in Token, TokenLapses(t)
      PROVE  SerialInv'
  BY <1>0, <1>5 DEF TokenLapses
<1>6. ASSUME CleanupProvisionTokens
      PROVE  SerialInv'
  BY <1>0, <1>6 DEF CleanupProvisionTokens
<1> QED
  BY <1>2, <1>3, <1>4, <1>5, <1>6
  DEF Provisioning, GenerateBegin, RegenerateBegin, ForceBegin, MintEnd, ExpirationBegin,
      ExpirationEnd

\* A registration takes r.server from its owner and revokes the owner only if
\* it has no other server, so no live server is left with a revoked agent.
LEMMA SerialRegistration ==
  ASSUME SerialInv, Registration, ~Overlapping
  PROVE  SerialInv'
<1> PICK a \in Agent, t \in Token : Register(a, t)
  BY DEF Registration, RegisterBegin, RegisterEnd, SerialInv
<1> DEFINE r == RegisterReads(a, t)
<1>1. TypeOK'
  BY RegistrationType DEF SerialInv
<1>2. r \in RegisterRequest /\ ~trashed[r.server]
  BY RegisterReadsType DEF SerialInv, Register, CanRegister, RegisterReads
<1>3. r.agent = a /\ r.seenOwner = owner[r.server] /\ r.seenStatus = status[r.server]
  BY DEF RegisterReads
<1>4. status' = [status EXCEPT ![r.server] = "waiting_for_first_heartbeat"]
  BY <1>2, <1>3 DEF SerialInv, TypeOK, Register, ApplyRegister
<1>5. owner' = [owner EXCEPT ![r.server] = a]
  BY <1>2, <1>3 DEF SerialInv, TypeOK, Register, ApplyRegister
<1>6. UNCHANGED <<deleted, trashed, request>>
  BY DEF Register, ApplyRegister
<1>7. \A s \in Server \ {r.server} :
        agentStatus[owner[s]] = "active" /\ owner[s] # NoAgent /\ ~trashed[s]
          => agentStatus'[owner[s]] = "active"
  <2> TAKE s \in Server \ {r.server}
  <2> HAVE agentStatus[owner[s]] = "active" /\ owner[s] # NoAgent /\ ~trashed[s]
  <2>1. StillOwns(owner[s], r.server)
    BY DEF StillOwns
  <2>2. owner[s] \in Agent
    BY DEF SerialInv, TypeOK
  <2> HIDE DEF r
  <2> QED
    BY <2>1, <2>2, <1>3 DEF Register, ApplyRegister, r
<1> HIDE DEF r
<1>8. LiveServerIsOwned'
  <2> SUFFICES ASSUME NEW s \in Server, status'[s] \in {"online", "offline"}
               PROVE  HasActiveAgent(s)' /\ ~deleted'[s] /\ ~trashed'[s]
    BY DEF LiveServerIsOwned
  <2>1. s # r.server
    BY <1>2, <1>4 DEF SerialInv, TypeOK
  <2> QED
    BY <1>2, <1>4, <1>5, <1>6, <1>7, <2>1 DEF SerialInv, TypeOK, LiveServerIsOwned
<1> QED
  BY <1>1, <1>2, <1>4, <1>6, <1>8 DEF SerialInv, TypeOK

LEMMA SerialReporting ==
  ASSUME SerialInv, Reporting, ~Overlapping
  PROVE  SerialInv'
<1>0. TypeOK'
  BY ReportingType DEF SerialInv
<1> USE DEF SerialInv, TypeOK, LiveServerIsOwned
<1>1. ASSUME NEW a \in Agent, NEW S \in SUBSET Server, Heartbeat(a, S)
      PROVE  SerialInv'
  BY <1>0, <1>1, NullAssumption DEF Heartbeat, ApplyHeartbeat, Accepted
<1>2. ASSUME NEW a \in Agent, AgentFallsSilent(a)
      PROVE  SerialInv'
  BY <1>0, <1>2 DEF AgentFallsSilent, serverVars
<1> QED
  BY <1>1, <1>2 DEF Reporting, HeartbeatBegin, HeartbeatEnd

LEMMA SerialHealth ==
  ASSUME SerialInv, Health, ~Overlapping
  PROVE  SerialInv'
<1>0. TypeOK'
  BY HealthType DEF SerialInv
<1> USE DEF SerialInv, TypeOK, LiveServerIsOwned, agentVars, tokenVars
<1>1. ASSUME NEW s \in Server, MonitorServer(s)
      PROVE  SerialInv'
  BY <1>0, <1>1 DEF MonitorServer, InLifecycle, MonitorReads, ApplyMonitor
<1>2. ASSUME NEW s \in Server, ViewServer(s)
      PROVE  SerialInv'
  BY <1>0, <1>2 DEF ViewServer, ApplyView, ShownOffline, InLifecycle
<1> QED
  BY <1>1, <1>2 DEF Health, MonitorBegin, MonitorEnd, ViewBegin, ViewEnd

\* Revoking takes every server that could be live, because a live server is not
\* deleted, not archived and not trashed: it is one the agent monitors.
LEMMA SerialRevoke ==
  ASSUME SerialInv, NEW a \in Agent, ApplyRevoke(a, MonitoredBy(a)), UNCHANGED request
  PROVE  LiveServerIsOwned' /\ \A s \in Server : trashed'[s] => status'[s] = "archived"
<1>1. \A s \in MonitoredBy(a) : s \in Server /\ ~trashed[s]
  BY DEF MonitoredBy
<1>2. \A s \in Server : status[s] \in {"online", "offline"} /\ owner[s] = a
                          => s \in MonitoredBy(a)
  BY DEF MonitoredBy, SerialInv, LiveServerIsOwned
<1> QED
  BY <1>1, <1>2 DEF SerialInv, TypeOK, LiveServerIsOwned, ApplyRevoke, Decommission

LEMMA SerialDecommissioning ==
  ASSUME SerialInv, Decommissioning, ~Overlapping
  PROVE  SerialInv'
<1>0. TypeOK'
  BY DecommissioningType DEF SerialInv
<1>1. ASSUME NEW s \in Server, ~trashed[s], Decommission({s}), UNCHANGED <<agentVars, request>>
      PROVE  SerialInv'
  BY <1>0, <1>1 DEF SerialInv, TypeOK, LiveServerIsOwned, Decommission, agentVars
<1>2. ASSUME NEW a \in Agent, NEW s \in Server, DetachServer(a, s)
      PROVE  SerialInv'
  BY <1>1, <1>2 DEF DetachServer, MayDetach, MonitoredBy
<1>4. ASSUME NEW a \in Agent, ApplyRevoke(a, MonitoredBy(a)), UNCHANGED request
      PROVE  SerialInv'
  BY <1>0, <1>4, SerialRevoke DEF SerialInv
<1>5. ASSUME NEW s \in Server, Deregister(s)
      PROVE  SerialInv'
  <2>1. owner[s] \in Agent
    BY <1>5 DEF SerialInv, TypeOK, Deregister, MayDeregister
  <2> QED
    BY <1>1, <1>4, <1>5, <2>1 DEF Deregister, MayDeregister
<1>6. ASSUME NEW a \in Agent, Uninstall(a)
      PROVE  SerialInv'
  BY <1>4, <1>6 DEF Uninstall
<1>7. ASSUME NEW s \in Server, Destroy(s)
      PROVE  SerialInv'
  BY <1>0, <1>7 DEF SerialInv, TypeOK, LiveServerIsOwned, Destroy, ApplyDestroy, agentVars
<1> QED
  BY <1>2, <1>5, <1>6, <1>7
  DEF Decommissioning, RevokeBegin, RevokeEnd, DetachBegin, DetachEnd, DestroyBegin, DestroyEnd,
      SerialInv

LEMMA SerialNext ==
  ASSUME ~Overlapping, SerialInv, [Next]_vars
  PROVE  SerialInv'
<1>1. CASE UNCHANGED vars
  BY <1>1 DEF SerialInv, TypeOK, LiveServerIsOwned, vars, serverVars, agentVars, tokenVars
<1>2. CASE Next
  BY <1>2, SerialProvisioning, SerialRegistration, SerialReporting, SerialHealth,
     SerialDecommissioning
  DEF Next
<1> QED
  BY <1>1, <1>2

LEMMA SerialAlways == ASSUME ~Overlapping PROVE Spec => []SerialInv
<1>1. Init => SerialInv
  BY DEF Init, SerialInv, TypeOK, LiveServerIsOwned, Status
<1>2. SerialInv /\ [Next]_vars => SerialInv'
  BY SerialNext
<1> QED
  BY <1>1, <1>2, PTL DEF Spec

\* With requests served one at a time a server shown online or offline has an
\* active agent and is neither decommissioned nor archived.
THEOREM LiveServersAreOwned == ASSUME ~Overlapping PROVE Spec => []LiveServerIsOwned
<1>1. SerialInv => LiveServerIsOwned
  BY DEF SerialInv
<1> QED
  BY <1>1, SerialAlways, PTL

\* Only destroy deletes a server, and no other handler writes the column.
LEMMA OnlyDestroyArchives ==
  ASSUME Next
  PROVE  UNCHANGED trashed \/ \E x : ApplyDestroy(x)
BY DEF Next, Provisioning, Registration, Reporting, Health, Decommissioning,
   GenerateToken, RegenerateToken, Reprovision, ForceReinstallToken, WriteMinted,
   RegenerateRefused, GenerateBegin, RegenerateBegin, ForceBegin, MintEnd,
   CheckTokenExpiration, ExpirationBegin, ExpirationEnd, ApplyExpiration,
   TokenLapses, CleanupProvisionTokens,
   Register, RegisterBegin, RegisterEnd, ApplyRegister,
   Heartbeat, HeartbeatBegin, HeartbeatEnd, ApplyHeartbeat, AgentFallsSilent,
   MonitorServer, MonitorBegin, MonitorEnd, ApplyMonitor,
   ViewServer, ViewBegin, ViewEnd, ApplyView,
   DetachServer, DetachBegin, DetachEnd, Deregister, Uninstall, RevokeBegin, RevokeEnd,
   ApplyRevoke, Decommission, Destroy, DestroyBegin, DestroyEnd, serverVars

\* Archiving is final when requests are served one at a time.
THEOREM ArchivedServersStayArchived ==
  ASSUME ~Overlapping PROVE Spec => ArchivedIsFinal
<1> DEFINE Final == \A s \in Server : trashed[s] => trashed'[s] /\ status'[s] = "archived"
<1>1. SerialInv /\ SerialInv' /\ [Next]_vars => [Final]_vars
  <2> SUFFICES ASSUME SerialInv, SerialInv', Next, NEW s \in Server, trashed[s]
               PROVE  trashed'[s] /\ status'[s] = "archived"
    OBVIOUS
  <2>1. trashed'[s]
    <3>1. UNCHANGED trashed \/ \E x : ApplyDestroy(x)
      BY OnlyDestroyArchives
    <3> QED
      BY <3>1 DEF SerialInv, TypeOK, ApplyDestroy
  <2> QED
    BY <2>1 DEF SerialInv
<1> QED
  BY <1>1, SerialAlways, PTL DEF Spec, ArchivedIsFinal

-----------------------------------------------------------------------------
(* Revocation.                                                             *)

\* A revocation takes every server it found from the agent.
LEMMA RevokeLeavesNone ==
  ASSUME TypeOK, NEW a \in Agent, ApplyRevoke(a, MonitoredBy(a)),
         NEW b \in Agent, agentStatus[b] = "active", agentStatus'[b] = "revoked"
  PROVE  MonitoredBy(b)' = {}
<1>1. b = a
  BY DEF TypeOK, ApplyRevoke
<1>2. \A s \in Server : s \notin MonitoredBy(a)'
  BY NullAssumption DEF TypeOK, ApplyRevoke, Decommission, MonitoredBy
<1> QED
  BY <1>1, <1>2 DEF MonitoredBy

\* A registration, whatever it read, revokes the owner it displaces only if that
\* has nothing else.
LEMMA RegisterLeavesNone ==
  ASSUME TypeOK, NEW r \in RegisterRequest, ApplyRegister(r),
         NEW b \in Agent, agentStatus[b] = "active", agentStatus'[b] = "revoked"
  PROVE  MonitoredBy(b)' = {}
<1>1. b \in Displaced(r) /\ ~StillOwns(b, r.server)
  BY DEF TypeOK, ApplyRegister
<1>2. b # r.agent /\ r.seenOwner = b
  BY <1>1 DEF Displaced
<1>3. /\ owner' = [owner EXCEPT ![r.server] = r.agent]
      /\ UNCHANGED trashed
  BY <1>2 DEF ApplyRegister
<1>4. \A s \in Server : owner'[s] = b => trashed'[s]
  BY <1>1, <1>2, <1>3 DEF TypeOK, StillOwns
<1> QED
  BY <1>4 DEF MonitoredBy

\* Both the registration in one piece and the end of an overtaken one write what
\* some request read.
LEMMA RegistrationRequest ==
  ASSUME TypeOK, Registration, agentStatus' # agentStatus
  PROVE  \E r \in RegisterRequest : ApplyRegister(r)
<1>1. ASSUME NEW a \in Agent, NEW t \in Token, Register(a, t)
      PROVE  \E r \in RegisterRequest : ApplyRegister(r)
  BY <1>1, RegisterReadsType DEF Register
<1>2. ASSUME RegisterEnd
      PROVE  \E r \in RegisterRequest : ApplyRegister(r)
  <2>1. request \in RegisterRequest
    BY <1>2 DEF TypeOK, RegisterEnd
  <2> QED
    BY <1>2, <2>1 DEF RegisterEnd
<1> QED
  BY <1>1, <1>2 DEF Registration, RegisterBegin, agentVars

\* With requests served one at a time nobody revokes an agent and leaves a
\* monitored server with it.
THEOREM RevocationsAreComplete ==
  ASSUME ~Overlapping PROVE Spec => RevocationTakesEveryServer
<1> DEFINE Complete ==
      \A a \in Agent : agentStatus[a] = "active" /\ agentStatus'[a] = "revoked"
                        => MonitoredBy(a)' = {}
<1>1. SerialInv /\ [Next]_vars => [Complete]_vars
  <2> SUFFICES ASSUME SerialInv, Next, NEW b \in Agent,
                      agentStatus[b] = "active", agentStatus'[b] = "revoked"
               PROVE  MonitoredBy(b)' = {}
    OBVIOUS
  <2>1. TypeOK /\ request.kind = "idle"
    BY DEF SerialInv
  <2>2. agentStatus' # agentStatus
    OBVIOUS
  <2>3. \/ \E a \in Agent, t \in Token : Register(a, t)
        \/ \E a \in Agent : Uninstall(a)
        \/ \E s \in Server : Deregister(s)
    BY <2>1, <2>2
    DEF Next, Provisioning, Registration, Reporting, Health, Decommissioning,
        GenerateToken, RegenerateToken, Reprovision, ForceReinstallToken, WriteMinted,
        RegenerateRefused, GenerateBegin, RegenerateBegin, ForceBegin, MintEnd,
        CheckTokenExpiration, ExpirationBegin, ExpirationEnd, ApplyExpiration,
        TokenLapses, CleanupProvisionTokens,
        RegisterBegin, RegisterEnd, Heartbeat, HeartbeatBegin, HeartbeatEnd,
        ApplyHeartbeat, AgentFallsSilent, MonitorServer, MonitorBegin, MonitorEnd,
        ApplyMonitor, ViewServer, ViewBegin, ViewEnd, ApplyView,
        DetachServer, DetachBegin, DetachEnd, RevokeBegin, RevokeEnd,
        Destroy, DestroyBegin, DestroyEnd, ApplyDestroy, agentVars
  <2>4. ASSUME NEW a \in Agent, NEW t \in Token, Register(a, t)
        PROVE  MonitoredBy(b)' = {}
    BY <2>1, <2>4, RegisterReadsType, RegisterLeavesNone DEF Register
  <2>5. ASSUME NEW a \in Agent, Uninstall(a)
        PROVE  MonitoredBy(b)' = {}
    BY <2>1, <2>5, RevokeLeavesNone DEF Uninstall
  <2>6. ASSUME NEW s \in Server, Deregister(s)
        PROVE  MonitoredBy(b)' = {}
    <3>1. owner[s] \in Agent /\ ApplyRevoke(owner[s], MonitoredBy(owner[s]))
      BY <2>1, <2>2, <2>6 DEF TypeOK, Deregister, MayDeregister, agentVars
    <3> QED
      BY <2>1, <3>1, RevokeLeavesNone
  <2> QED
    BY <2>3, <2>4, <2>5, <2>6
<1> QED
  BY <1>1, SerialAlways, PTL DEF Spec, RevocationTakesEveryServer

-----------------------------------------------------------------------------
(* Tokens.                                                                 *)

OneToken(s) == \A t, u \in ActiveTokens(s) : t = u

\* Creating a token without revoking the others is what the end of an overtaken
\* request does that revoked before it was overtaken.
BareCreation == \E t \in Token : MintEnd(t) /\ ~request.again

\* Every other step mints with a revocation, or takes tokens away.
LEMMA TokenSteps ==
  ASSUME TypeOK, [Next]_vars, ~BareCreation
  PROVE  \/ \E s \in Server, t \in Token : MintToken(s, t)
         \/ \A t \in Token : tokenOf'[t] \in {tokenOf[t], NoServer}
<1> DEFINE Fewer == \A t \in Token : tokenOf'[t] \in {tokenOf[t], NoServer}
<1>1. CASE UNCHANGED tokenOf
  BY <1>1
<1>2. ASSUME NEW r \in RegisterRequest, ApplyRegister(r)
      PROVE  Fewer
  BY <1>2 DEF ApplyRegister, TypeOK
<1>3. ASSUME NEW s \in Server, RevokeTokens(s)
      PROVE  Fewer
  BY <1>3 DEF RevokeTokens, TypeOK
<1>4. ASSUME NEW s, NEW tokens, ApplyExpiration(s, tokens)
      PROVE  Fewer
  BY <1>4 DEF ApplyExpiration, TypeOK
<1>5. CASE Provisioning
  <2>1. ASSUME NEW s \in Server, NEW t \in Token,
               GenerateToken(s, t) \/ RegenerateToken(s, t) \/ ForceReinstallToken(s, t)
        PROVE  MintToken(s, t)
    BY <2>1 DEF GenerateToken, RegenerateToken, Reprovision, ForceReinstallToken
  <2>2. ASSUME NEW t \in Token, MintEnd(t)
        PROVE  \E s \in Server : MintToken(s, t)
    <3>1. request \in MintRequest
      BY <2>2 DEF TypeOK, MintEnd
    <3>2. MintToken(request.server, t)
      BY <2>2 DEF MintEnd, BareCreation
    <3> QED
      BY <3>1, <3>2
  <2>3. ASSUME NEW s \in Server, RegenerateRefused(s) \/ GenerateBegin(s) \/ RegenerateBegin(s)
                                 \/ ForceBegin(s)
        PROVE  Fewer
    BY <1>1, <1>3, <2>3 DEF RegenerateRefused, GenerateBegin, RegenerateBegin, ForceBegin, tokenVars
  <2>4. ASSUME NEW s \in Server, CheckTokenExpiration(s) \/ ExpirationBegin(s)
        PROVE  Fewer
    BY <1>1, <1>4, <2>4 DEF CheckTokenExpiration, ExpirationBegin, tokenVars
  <2>5. CASE ExpirationEnd
    BY <1>4, <2>5 DEF ExpirationEnd
  <2>6. CASE CleanupProvisionTokens
    BY <2>6 DEF CleanupProvisionTokens, TypeOK
  <2>7. ASSUME NEW t \in Token, TokenLapses(t)
        PROVE  Fewer
    BY <1>1, <2>7 DEF TokenLapses
  <2> QED
    BY <1>5, <2>1, <2>2, <2>3, <2>4, <2>5, <2>6, <2>7 DEF Provisioning
<1>6. CASE Registration
  <2>1. ASSUME NEW a \in Agent, NEW t \in Token, Register(a, t)
        PROVE  Fewer
    BY <1>2, <2>1, RegisterReadsType DEF Register
  <2>2. ASSUME RegisterEnd
        PROVE  Fewer
    <3>1. request \in RegisterRequest
      BY <2>2 DEF TypeOK, RegisterEnd
    <3> QED
      BY <1>2, <2>2, <3>1 DEF RegisterEnd
  <2> QED
    BY <1>1, <1>6, <2>1, <2>2 DEF Registration, RegisterBegin, tokenVars
<1>7. CASE Reporting
  BY <1>1, <1>7 DEF Reporting, Heartbeat, HeartbeatBegin, HeartbeatEnd, ApplyHeartbeat,
     AgentFallsSilent, tokenVars
<1>8. CASE Health
  BY <1>1, <1>8 DEF Health, MonitorServer, MonitorBegin, MonitorEnd, ApplyMonitor,
     ViewServer, ViewBegin, ViewEnd, ApplyView, tokenVars
<1>9. CASE Decommissioning
  BY <1>1, <1>9 DEF Decommissioning, DetachServer, DetachBegin, DetachEnd, Deregister,
     Destroy, DestroyBegin, DestroyEnd, ApplyDestroy, Uninstall, RevokeBegin, RevokeEnd,
     ApplyRevoke, Decommission, tokenVars
<1>10. CASE UNCHANGED vars
  BY <1>1, <1>10 DEF vars, tokenVars
<1> QED
  BY <1>5, <1>6, <1>7, <1>8, <1>9, <1>10 DEF Next

LEMMA OneTokenKept ==
  ASSUME TypeOK, [Next]_vars, ~BareCreation, NEW s \in Server, OneToken(s)
  PROVE  OneToken(s)'
<1>1. ASSUME NEW x \in Server, NEW t \in Token, MintToken(x, t)
      PROVE  OneToken(s)'
  BY <1>1, NullAssumption DEF MintToken, OneToken, ActiveTokens, TypeOK
<1>2. ASSUME \A t \in Token : tokenOf'[t] \in {tokenOf[t], NoServer}
      PROVE  OneToken(s)'
  BY <1>2, NullAssumption DEF OneToken, ActiveTokens, TypeOK
<1> QED
  BY <1>1, <1>2, TokenSteps

\* With requests served one at a time a server has at most one working token.
THEOREM OneWorkingToken == ASSUME ~Overlapping PROVE Spec => []OneTokenPerServer
<1>1. Init => OneTokenPerServer
  BY NullAssumption DEF Init, OneTokenPerServer, ActiveTokens
<1>2. SerialInv /\ OneTokenPerServer /\ [Next]_vars => OneTokenPerServer'
  <2>1. SerialInv => ~BareCreation
    BY DEF SerialInv, BareCreation, MintEnd
  <2> QED
    BY <2>1, OneTokenKept DEF SerialInv, OneTokenPerServer, OneToken
<1> QED
  BY <1>1, <1>2, SerialAlways, PTL DEF Spec

\* However requests overlap, a server gets a second working token only from a
\* request that was overtaken between its revocation and its creation.
THEOREM OnlyOvertakenMintsDuplicate ==
  Spec => [][\A s \in Server : OneToken(s) /\ ~OneToken(s)' => BareCreation]_vars
<1> DEFINE Kept == \A s \in Server : OneToken(s) /\ ~OneToken(s)' => BareCreation
<1>1. TypeOK /\ [Next]_vars => [Kept]_vars
  BY OneTokenKept
<1> QED
  BY <1>1, TypeCorrect, PTL DEF Spec

-----------------------------------------------------------------------------
(* Overtaken requests. Whatever overtakes what, a server leaves its agent   *)
(* behind, or an agent its servers, only when a request writes late what it *)
(* decided on an earlier reading; a registration that was overtaken does    *)
(* neither.                                                                 *)

LiveIsOwned(s) ==
  status[s] \in {"online", "offline"} => HasActiveAgent(s) /\ ~deleted[s] /\ ~trashed[s]

\* The writes of an overtaken heartbeat, monitor job, page, detach or revocation.
LateWrite == HeartbeatEnd \/ MonitorEnd \/ ViewEnd \/ DetachEnd \/ RevokeEnd

\* The other late writes of the status column.
LateStatus == RegisterEnd \/ ExpirationEnd \/ \E t \in Token : MintEnd(t)

LEMMA ProvisioningKeepsOwned ==
  ASSUME TypeOK, NEW s \in Server, LiveIsOwned(s), Provisioning
  PROVE  LiveIsOwned(s)'
<1> USE DEF LiveIsOwned, TypeOK, agentVars, serverVars
<1>1. ASSUME NEW m \in MintRequest, WriteMinted(m)
      PROVE  LiveIsOwned(s)'
  BY <1>1 DEF WriteMinted
<1>2. ASSUME NEW x \in Server, NEW t \in Token,
             GenerateToken(x, t) \/ RegenerateToken(x, t) \/ ForceReinstallToken(x, t)
      PROVE  LiveIsOwned(s)'
  BY <1>1, <1>2, MintReadsType
  DEF GenerateToken, RegenerateToken, Reprovision, ForceReinstallToken
<1>3. ASSUME NEW t \in Token, MintEnd(t)
      PROVE  LiveIsOwned(s)'
  <2>1. request \in MintRequest /\ WriteMinted(request)
    BY <1>3 DEF MintEnd
  <2> QED
    BY <1>1, <2>1
<1>4. ASSUME NEW x, NEW tokens, ApplyExpiration(x, tokens)
      PROVE  LiveIsOwned(s)'
  BY <1>4 DEF ApplyExpiration
<1>5. ASSUME NEW x \in Server, RegenerateRefused(x) \/ GenerateBegin(x) \/ RegenerateBegin(x)
                               \/ ForceBegin(x) \/ ExpirationBegin(x)
      PROVE  LiveIsOwned(s)'
  BY <1>5 DEF RegenerateRefused, GenerateBegin, RegenerateBegin, ForceBegin, ExpirationBegin
<1>6. ASSUME (\E t \in Token : TokenLapses(t)) \/ CleanupProvisionTokens
      PROVE  LiveIsOwned(s)'
  BY <1>6 DEF TokenLapses, CleanupProvisionTokens
<1> QED
  BY <1>2, <1>3, <1>4, <1>5, <1>6 DEF Provisioning, CheckTokenExpiration, ExpirationEnd

\* Whatever the request read: the server it writes gets an active agent, or keeps
\* the one it has; and an agent is revoked only if it owns no other server now.
LEMMA RegisterKeepsOwned ==
  ASSUME TypeOK, NEW r \in RegisterRequest, ApplyRegister(r),
         NEW s \in Server, LiveIsOwned(s)
  PROVE  LiveIsOwned(s)'
<1> SUFFICES ASSUME status'[s] \in {"online", "offline"}
             PROVE  HasActiveAgent(s)' /\ ~deleted'[s] /\ ~trashed'[s]
  BY DEF LiveIsOwned
<1>1. r.server \in Server /\ r.agent \in Agent /\ r.agent # NoAgent
  BY NullAssumption
<1>2. status[s] = status'[s] /\ UNCHANGED <<deleted, trashed>>
  BY <1>1 DEF ApplyRegister, TypeOK
<1>3. owner[s] \in Agent /\ agentStatus[owner[s]] = "active" /\ ~deleted[s] /\ ~trashed[s]
  BY <1>2 DEF LiveIsOwned, TypeOK
<1>4. agentStatus'[r.agent] = "active"
  BY <1>1 DEF ApplyRegister
<1>5. CASE s = r.server
  <2>1. CASE r.seenOwner = r.agent
    <3>1. Displaced(r) = {} /\ owner' = owner
      BY <2>1 DEF Displaced, ApplyRegister
    <3>2. agentStatus'[owner[s]] = "active"
      BY <1>3, <3>1 DEF ApplyRegister
    <3> QED
      BY <1>2, <1>3, <3>1, <3>2, NullAssumption
  <2>2. CASE r.seenOwner # r.agent
    <3>1. owner'[s] = r.agent
      BY <1>5, <2>2 DEF ApplyRegister, TypeOK
    <3> QED
      BY <1>1, <1>2, <1>3, <1>4, <3>1
  <2> QED
    BY <2>1, <2>2
<1>6. CASE s # r.server
  <2>1. owner'[s] = owner[s]
    BY <1>6 DEF ApplyRegister, TypeOK
  <2>2. StillOwns(owner[s], r.server)
    BY <1>3, <1>6 DEF StillOwns
  <2>3. agentStatus'[owner[s]] = "active"
    BY <1>3, <2>2 DEF ApplyRegister
  <2> QED
    BY <1>2, <1>3, <2>1, <2>3, NullAssumption
<1> QED
  BY <1>5, <1>6

LEMMA RegistrationKeepsOwned ==
  ASSUME TypeOK, NEW s \in Server, LiveIsOwned(s), Registration
  PROVE  LiveIsOwned(s)'
<1>1. ASSUME NEW a \in Agent, NEW t \in Token, Register(a, t)
      PROVE  LiveIsOwned(s)'
  BY <1>1, RegisterReadsType, RegisterKeepsOwned DEF Register
<1>2. ASSUME NEW a \in Agent, NEW t \in Token, RegisterBegin(a, t)
      PROVE  LiveIsOwned(s)'
  BY <1>2 DEF RegisterBegin, LiveIsOwned, serverVars, agentVars
<1>3. ASSUME RegisterEnd
      PROVE  LiveIsOwned(s)'
  <2>1. request \in RegisterRequest
    BY <1>3 DEF TypeOK, RegisterEnd
  <2> QED
    BY <1>3, <2>1, RegisterKeepsOwned DEF RegisterEnd
<1> QED
  BY <1>1, <1>2, <1>3 DEF Registration

LEMMA HeardKeepsOwned ==
  ASSUME TypeOK, NEW s \in Server, LiveIsOwned(s), Reporting \/ Health, ~LateWrite
  PROVE  LiveIsOwned(s)'
<1> USE DEF LiveIsOwned, TypeOK, agentVars, serverVars, tokenVars
<1>1. ASSUME NEW a \in Agent, NEW S \in SUBSET Server, Heartbeat(a, S)
      PROVE  LiveIsOwned(s)'
  BY <1>1, NullAssumption DEF Heartbeat, ApplyHeartbeat, Accepted
<1>2. ASSUME NEW a \in Agent, NEW S \in SUBSET Server, HeartbeatBegin(a, S)
      PROVE  LiveIsOwned(s)'
  BY <1>2 DEF HeartbeatBegin
<1>3. ASSUME NEW a \in Agent, AgentFallsSilent(a)
      PROVE  LiveIsOwned(s)'
  BY <1>3 DEF AgentFallsSilent
<1>4. ASSUME NEW x \in Server, MonitorServer(x)
      PROVE  LiveIsOwned(s)'
  BY <1>4 DEF MonitorServer, InLifecycle, MonitorReads, ApplyMonitor
<1>5. ASSUME NEW x \in Server, MonitorBegin(x)
      PROVE  LiveIsOwned(s)'
  BY <1>5 DEF MonitorBegin
<1>6. ASSUME NEW x \in Server, ViewServer(x) \/ ViewBegin(x)
      PROVE  LiveIsOwned(s)'
  BY <1>6 DEF ViewServer, ViewBegin, ApplyView, ShownOffline, InLifecycle
<1> QED
  BY <1>1, <1>2, <1>3, <1>4, <1>5, <1>6 DEF Reporting, Health, LateWrite

LEMMA DecommissioningKeepsOwned ==
  ASSUME TypeOK, NEW s \in Server, LiveIsOwned(s), Decommissioning, ~LateWrite
  PROVE  LiveIsOwned(s)'
<1> USE DEF TypeOK
<1>1. ASSUME NEW S \in SUBSET Server, Decommission(S), UNCHANGED agentVars
      PROVE  LiveIsOwned(s)'
  BY <1>1 DEF LiveIsOwned, Decommission, agentVars
<1>2. ASSUME NEW a \in Agent, ApplyRevoke(a, MonitoredBy(a))
      PROVE  LiveIsOwned(s)'
  <2>1. status[s] \in {"online", "offline"} /\ owner[s] = a => s \in MonitoredBy(a)
    BY DEF MonitoredBy, LiveIsOwned
  <2> QED
    BY <1>2, <2>1 DEF LiveIsOwned, ApplyRevoke, Decommission
<1>3. ASSUME NEW a \in Agent, NEW x \in Server, DetachServer(a, x)
      PROVE  LiveIsOwned(s)'
  BY <1>1, <1>3 DEF DetachServer
<1>5. ASSUME NEW x \in Server, Deregister(x)
      PROVE  LiveIsOwned(s)'
  <2>1. owner[x] \in Agent
    BY <1>5 DEF Deregister, MayDeregister
  <2> QED
    BY <1>1, <1>2, <1>5, <2>1 DEF Deregister
<1>6. ASSUME NEW a \in Agent, Uninstall(a)
      PROVE  LiveIsOwned(s)'
  BY <1>2, <1>6 DEF Uninstall
<1>7. ASSUME \/ \E a \in Agent : RevokeBegin(a)
             \/ \E x \in Server : DetachBegin(x) \/ DestroyBegin(x)
      PROVE  LiveIsOwned(s)'
  BY <1>7 DEF RevokeBegin, DetachBegin, DestroyBegin, LiveIsOwned, serverVars, agentVars
<1>8. ASSUME NEW x, ApplyDestroy(x)
      PROVE  LiveIsOwned(s)'
  BY <1>8 DEF ApplyDestroy, LiveIsOwned, agentVars
<1> QED
  BY <1>3, <1>5, <1>6, <1>7, <1>8 DEF Decommissioning, LateWrite, Destroy, DestroyEnd

\* However requests overlap, what LiveServerIsOwned says of a server becomes false
\* only by the late write of a heartbeat, of a monitor job, of a page that shows the
\* server, of a detach or of a revocation: not by a registration, a token request, an
\* expiry or an archive, although they read before they write as well.
THEOREM OnlyLateWritesDisown ==
  Spec => [][\A s \in Server : LiveIsOwned(s) /\ ~LiveIsOwned(s)' => LateWrite]_vars
<1> DEFINE Kept == \A s \in Server : LiveIsOwned(s) /\ ~LiveIsOwned(s)' => LateWrite
<1>1. TypeOK /\ [Next]_vars => [Kept]_vars
  BY ProvisioningKeepsOwned, RegistrationKeepsOwned, HeardKeepsOwned,
     DecommissioningKeepsOwned DEF Next
<1> QED
  BY <1>1, TypeCorrect, PTL DEF Spec

\* However requests overlap, only the late write of a revocation leaves a monitored
\* server with an agent it revokes: a registration asks in its transaction whether the
\* agent it displaces has another server.
THEOREM OnlyLateRevocationsLeaveServers ==
  Spec => [][\A a \in Agent : agentStatus[a] = "active" /\ agentStatus'[a] = "revoked"
                               /\ MonitoredBy(a)' # {} => RevokeEnd]_vars
<1> DEFINE Complete ==
      \A a \in Agent : agentStatus[a] = "active" /\ agentStatus'[a] = "revoked"
                        /\ MonitoredBy(a)' # {} => RevokeEnd
<1>1. TypeOK /\ [Next]_vars => [Complete]_vars
  <2> SUFFICES ASSUME TypeOK, Next, NEW b \in Agent, ~RevokeEnd,
                      agentStatus[b] = "active", agentStatus'[b] = "revoked"
               PROVE  MonitoredBy(b)' = {}
    OBVIOUS
  <2>1. agentStatus' # agentStatus
    OBVIOUS
  <2>2. \/ \E r \in RegisterRequest : ApplyRegister(r)
        \/ \E a \in Agent : Uninstall(a)
        \/ \E s \in Server : Deregister(s)
    BY <2>1, RegistrationRequest
    DEF Next, Provisioning, Registration, Reporting, Health, Decommissioning,
        GenerateToken, RegenerateToken, Reprovision, ForceReinstallToken, WriteMinted,
        RegenerateRefused, GenerateBegin, RegenerateBegin, ForceBegin, MintEnd,
        CheckTokenExpiration, ExpirationBegin, ExpirationEnd, ApplyExpiration,
        TokenLapses, CleanupProvisionTokens,
        RegisterBegin, Heartbeat, HeartbeatBegin, HeartbeatEnd,
        ApplyHeartbeat, AgentFallsSilent, MonitorServer, MonitorBegin, MonitorEnd,
        ApplyMonitor, ViewServer, ViewBegin, ViewEnd, ApplyView,
        DetachServer, DetachBegin, DetachEnd, RevokeBegin,
        Destroy, DestroyBegin, DestroyEnd, ApplyDestroy, agentVars
  <2>3. ASSUME NEW r \in RegisterRequest, ApplyRegister(r)
        PROVE  MonitoredBy(b)' = {}
    BY <2>3, RegisterLeavesNone
  <2>4. ASSUME NEW a \in Agent, Uninstall(a)
        PROVE  MonitoredBy(b)' = {}
    BY <2>4, RevokeLeavesNone DEF Uninstall
  <2>5. ASSUME NEW s \in Server, Deregister(s)
        PROVE  MonitoredBy(b)' = {}
    <3>1. owner[s] \in Agent /\ ApplyRevoke(owner[s], MonitoredBy(owner[s]))
      BY <2>1, <2>5 DEF TypeOK, Deregister, MayDeregister, agentVars
    <3> QED
      BY <3>1, RevokeLeavesNone
  <2> QED
    BY <2>2, <2>3, <2>4, <2>5
<1> QED
  BY <1>1, TypeCorrect, PTL DEF Spec

\* However requests overlap, nothing takes the deletion of a server back, and only a
\* request that read the server before overwrites its status "archived".
THEOREM OnlyLateWritesUnarchive ==
  Spec => [][\A s \in Server : trashed[s] =>
               /\ trashed'[s]
               /\ status[s] = "archived" /\ status'[s] # "archived" => LateWrite \/ LateStatus]_vars
<1> DEFINE Final ==
      \A s \in Server : trashed[s] =>
        /\ trashed'[s]
        /\ status[s] = "archived" /\ status'[s] # "archived" => LateWrite \/ LateStatus
<1>1. TypeOK /\ [Next]_vars => [Final]_vars
  <2> SUFFICES ASSUME TypeOK, Next, NEW s \in Server, trashed[s]
               PROVE  /\ trashed'[s]
                      /\ status[s] = "archived" /\ status'[s] # "archived"
                           => LateWrite \/ LateStatus
    OBVIOUS
  <2>1. UNCHANGED trashed \/ \E x : ApplyDestroy(x)
    BY OnlyDestroyArchives
  <2>2. trashed'[s]
    BY <2>1 DEF TypeOK, ApplyDestroy
  <2>3. CASE LateWrite \/ LateStatus
    BY <2>2, <2>3
  <2>4. ASSUME ~LateWrite, ~LateStatus, status[s] = "archived"
        PROVE  status'[s] = "archived"
    <3> USE <2>4 DEF TypeOK, serverVars
    <3>1. CASE Provisioning
      BY <3>1 DEF Provisioning, GenerateToken, RegenerateToken, Reprovision, MayGenerate,
         ForceReinstallToken, WriteMinted, MintReads, RegenerateRefused, GenerateBegin,
         RegenerateBegin, ForceBegin, CheckTokenExpiration, ExpirationBegin, ApplyExpiration,
         TokenLapses, CleanupProvisionTokens, LateStatus
    <3>2. CASE Registration
      <4>1. ASSUME NEW a \in Agent, NEW t \in Token, Register(a, t)
            PROVE  status'[s] = "archived"
        <5>1. RegisterReads(a, t).server # s
          BY <4>1 DEF Register, CanRegister, RegisterReads
        <5> QED
          BY <4>1, <5>1 DEF Register, ApplyRegister
      <4> QED
        BY <3>2, <4>1 DEF Registration, RegisterBegin, LateStatus
    <3>3. CASE Reporting
      BY <3>3 DEF Reporting, Heartbeat, HeartbeatBegin, ApplyHeartbeat, Accepted,
         AgentFallsSilent, LateWrite
    <3>4. CASE Health
      BY <3>4 DEF Health, MonitorServer, MonitorBegin, MonitorReads, ApplyMonitor,
         InLifecycle, ViewServer, ViewBegin, ApplyView, ShownOffline, LateWrite
    <3>5. CASE Decommissioning
      <4>1. ASSUME NEW S \in SUBSET Server, Decommission(S), s \notin S
            PROVE  status'[s] = "archived"
        BY <4>1 DEF Decommission
      <4>2. \A a : MonitoredBy(a) \in SUBSET Server /\ s \notin MonitoredBy(a)
        BY DEF MonitoredBy
      <4>3. ASSUME NEW x \in Server, Deregister(x)
            PROVE  status'[s] = "archived"
        BY <4>1, <4>2, <4>3 DEF Deregister, MayDeregister, ApplyRevoke
      <4>4. ASSUME (\E x : ApplyDestroy(x)) \/ \E x \in Server : DetachBegin(x) \/ DestroyBegin(x)
            PROVE  status'[s] = "archived"
        BY <4>4 DEF ApplyDestroy, DetachBegin, DestroyBegin
      <4>5. ASSUME NEW a \in Agent, Uninstall(a) \/ RevokeBegin(a)
            PROVE  status'[s] = "archived"
        BY <4>1, <4>2, <4>5 DEF Uninstall, ApplyRevoke, RevokeBegin
      <4>6. ASSUME NEW a \in Agent, NEW x \in Server, DetachServer(a, x)
            PROVE  status'[s] = "archived"
        BY <4>1, <4>2, <4>6 DEF DetachServer, MayDetach
      <4> QED
        BY <3>5, <4>3, <4>4, <4>5, <4>6 DEF Decommissioning, Destroy, DestroyEnd,
           LateWrite, LateStatus
    <3> QED
      BY <3>1, <3>2, <3>3, <3>4, <3>5 DEF Next
  <2> QED
    BY <2>2, <2>3, <2>4
<1> QED
  BY <1>1, TypeCorrect, PTL DEF Spec
=============================================================================
