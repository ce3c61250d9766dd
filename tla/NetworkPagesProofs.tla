-------------------------- MODULE NetworkPagesProofs --------------------------
(* Proofs about NetworkPages, for any number of handlers, services, servers  *)
(* and agents.                                                               *)
EXTENDS NetworkPages, TLAPS

(* A handler that connects owns the object at its path. *)
Owned ==
  \A r \in Request : place[r] \in Connecting => path[r] \in Path /\ exported[path[r]] = r

(* ConnMan's agent is that of a handler that will remove it, *)
HasOwner ==
  registered # None =>
    \E r \in Request : place[r] \in {"connect", "waiting", "cleanup"} /\ path[r] = registered

(* and the one that connects, unless a restart of ConnMan came in between.   *)
AtWork ==
  ~lost => \A r \in Request : place[r] \in {"connect", "waiting"} => registered = path[r]

(* Only handlers that connect are told anything, and only about themselves.  *)
Told ==
  \A r \in Request :
    /\ place[r] \notin Connecting => answered[r] = None /\ reported[r] = None /\ told[r] = None
    /\ ~lost => answered[r] \in {None, r} /\ reported[r] = told[r]

(* A proxy that has a password has it from its own server and user. *)
AtHome(p) == p # None /\ p.password # None => <<p.host, p.user, p.password>> \in entered

Stored ==
  /\ \A r \in Request : AtHome(pending[r])
  /\ \A s \in Service : AtHome(proxy[s])

AgentInv == TypeOKNetwork /\ Owned /\ HasOwner /\ AtWork /\ Told

-------------------------------------------------------------------------------
(* The code's check is enough: whatever the current proxy and the form, the  *)
(* password of the result is the current one's with its server and user, or  *)
(* is typed in this form.                                                    *)
LEMMA MakeProxy ==
  ASSUME NEW current \in Credentials \cup {None}, NEW f \in Form,
         make_proxy(current, f) # Refused
  PROVE  LET p == make_proxy(current, f) IN
         /\ p \in Credentials
         /\ \/ /\ f.keep /\ current # None
               /\ p = current
            \/ ~f.keep /\ p.password = f.password /\ p.host = f.host /\ p.user = f.user
BY NoneApart DEF make_proxy, Credentials, Form

LEMMA InitAgents == InitNetwork => AgentInv
<1> SUFFICES ASSUME InitNetwork PROVE AgentInv
  OBVIOUS
<1>1. TypeOKNetwork
  BY DEF InitNetwork, TypeOKNetwork
<1>2. Owned /\ HasOwner /\ AtWork
  BY DEF InitNetwork, Owned, HasOwner, AtWork, Connecting
<1>3. Told
  BY DEF InitNetwork, Told
<1> QED
  BY <1>1, <1>2, <1>3 DEF AgentInv

(* The type invariant is kept; make_proxy gives credentials. *)
LEMMA TypeStep ==
  ASSUME TypeOKNetwork, [NextNetwork]_networkVars
  PROVE  TypeOKNetwork'
<1> USE DEF TypeOKNetwork, Connecting, Changing
<1>1. CASE UNCHANGED networkVars
  BY <1>1 DEF networkVars, locals
<1>2. ASSUME NEW r \in Request, ConnectStep(r)
      PROVE  TypeOKNetwork'
  <2>1. ASSUME NEW s \in Service, NEW given \in BOOLEAN, NEW p \in Path, Connect(r, s, given, p)
        PROVE  TypeOKNetwork'
    BY <2>1 DEF Connect, Begin, Goto, proxyVars
  <2>2. CASE RegisterAgent(r)
    BY <2>2 DEF RegisterAgent, Goto, proxyVars
  <2>3. CASE ConnectCalled(r)
    BY <2>3 DEF ConnectCalled, Goto, agentVars, proxyVars
  <2>4. CASE AgentIsCalled(r)
    <3> DEFINE q == exported[registered]
    <3>1. q \in Request
      BY <2>4 DEF AgentIsCalled
    <3>2. /\ reported' \in [Request -> Error \cup {None}]
          /\ told' \in [Request -> Error \cup {None}]
          /\ answered' \in [Request -> Request \cup {None}]
      BY <2>4, <3>1 DEF AgentIsCalled, request_input, Tells, Error
    <3> QED
      BY <2>4, <3>2 DEF AgentIsCalled, proxyVars
  <2>5. CASE ConnectReturns(r)
    BY <2>5 DEF ConnectReturns, Goto, agentVars, proxyVars
  <2>6. CASE destroy_agent(r)
    BY <2>6 DEF destroy_agent, Ends, Goto
  <2> QED
    BY <1>2, <2>1, <2>2, <2>3, <2>4, <2>5, <2>6 DEF ConnectStep
<1>3. ASSUME NEW r \in Request, SettingsStep(r)
      PROVE  TypeOKNetwork'
  <2>1. ASSUME NEW s \in Service, Update(r, s) \/ Remove(r, s)
        PROVE  TypeOKNetwork'
    BY <2>1 DEF Update, Remove, Begin, Goto, agentVars, proxyVars
  <2>2. CASE ReadProxy(r)
    <3>1. pending' \in [Request -> Credentials \cup {None}]
      <4>1. \A current \in DefaultProxies, f \in Form :
              make_proxy(current, f) # Refused => make_proxy(current, f) \in Credentials
        BY MakeProxy DEF DefaultProxies
      <4> HIDE DEF Connecting, Changing
      <4> QED
        BY <2>2, <4>1 DEF ReadProxy
    <3> QED
      BY <2>2, <3>1 DEF ReadProxy, Goto, agentVars
  <2>3. CASE SetProxy(r) \/ RemoveService(r)
    BY <2>3 DEF SetProxy, RemoveService, Ends, Goto
  <2>4. CASE set_direct_proxy(r)
    BY <2>4 DEF set_direct_proxy, Goto, agentVars
  <2> QED
    BY <1>3, <2>1, <2>2, <2>3, <2>4 DEF SettingsStep
<1>4. ASSUME NEW r \in Request, HandlerFails(r)
      PROVE  TypeOKNetwork'
  BY <1>4 DEF HandlerFails, Ends, Goto
<1>5. CASE ConnmanRestarts
  BY <1>5 DEF ConnmanRestarts, proxyVars
<1> QED
  BY <1>1, <1>2, <1>3, <1>4, <1>5 DEF NextNetwork

-------------------------------------------------------------------------------
(* Agents. *)

(* A step that leaves the agents alone and the handlers that connect where   *)
(* they are.                                                                 *)
LEMMA AgentsRest ==
  ASSUME AgentInv, TypeOKNetwork', UNCHANGED agentVars,
         \A r \in Request : place'[r] = place[r] \/ {place[r], place'[r]} \cap Connecting = {}
  PROVE  AgentInv'
BY DEF AgentInv, TypeOKNetwork, Owned, HasOwner, AtWork, Told, Connecting, agentVars

LEMMA AgentStep ==
  ASSUME AgentInv, [NextNetwork]_networkVars
  PROVE  AgentInv'
<1>t. TypeOKNetwork /\ TypeOKNetwork'
  BY TypeStep DEF AgentInv
<1> USE DEF Connecting
<1>1. CASE UNCHANGED networkVars
  BY <1>1, <1>t, AgentsRest DEF networkVars, locals, agentVars
<1>2. ASSUME NEW r \in Request, NEW s \in Service, NEW given \in BOOLEAN, NEW p \in Path,
             Connect(r, s, given, p)
      PROVE  AgentInv'
  <2> USE <1>2, <1>t DEF AgentInv, TypeOKNetwork, Connect, Begin, Goto
  <2>1. Owned'
    BY DEF Owned
  <2>2. HasOwner'
    BY DEF HasOwner
  <2>3. AtWork'
    BY DEF AtWork
  <2>4. Told'
    BY DEF Told
  <2> QED
    BY <2>1, <2>2, <2>3, <2>4
<1>3. ASSUME NEW r \in Request, RegisterAgent(r)
      PROVE  AgentInv'
  <2> USE <1>3, <1>t DEF AgentInv, TypeOKNetwork, RegisterAgent, Goto
  <2>1. Owned' /\ HasOwner'
    BY DEF Owned, HasOwner
  <2>2. AtWork'
    BY NoneApart DEF AtWork, Owned
  <2>3. Told'
    BY DEF Told
  <2> QED
    BY <2>1, <2>2, <2>3
<1>4. ASSUME NEW r \in Request, ConnectCalled(r) \/ ConnectReturns(r)
      PROVE  AgentInv'
  <2> USE <1>4, <1>t DEF AgentInv, TypeOKNetwork, ConnectCalled, ConnectReturns, Goto, agentVars
  <2>1. Owned' /\ HasOwner'
    BY DEF Owned, HasOwner
  <2>2. AtWork' /\ Told'
    BY DEF AtWork, Told
  <2> QED
    BY <2>1, <2>2
<1>5. ASSUME NEW r \in Request, AgentIsCalled(r)
      PROVE  AgentInv'
  <2> DEFINE q == exported[registered]
  <2>1. q \in Request /\ place[q] \in {"connect", "waiting", "cleanup"} /\ place[r] = "waiting"
    BY <1>5, <1>t DEF AgentIsCalled, AgentInv, HasOwner, Owned, TypeOKNetwork
  <2>2. ~lost => q = r
    BY <1>5, <1>t, <2>1 DEF AgentInv, AtWork, Owned
  <2>3. Owned' /\ HasOwner' /\ AtWork'
    BY <1>5 DEF AgentIsCalled, AgentInv, Owned, HasOwner, AtWork
  <2>4. Told'
    <3>1. \/ /\ answered' = [answered EXCEPT ![r] = q] /\ UNCHANGED <<reported, told>>
          \/ /\ UNCHANGED answered
             /\ \E error \in Error : /\ told' = [told EXCEPT ![r] = error]
                                    /\ reported' = [reported EXCEPT ![q] = error]
      BY <1>5 DEF AgentIsCalled, request_input, Tells, Error
    <3>2. UNCHANGED <<place, lost>>
      BY <1>5 DEF AgentIsCalled
    <3> QED
      BY <3>1, <3>2, <2>1, <2>2, <1>t DEF AgentInv, Told, TypeOKNetwork
  <2> QED
    BY <1>t, <2>3, <2>4 DEF AgentInv
<1>6. ASSUME NEW r \in Request, destroy_agent(r)
      PROVE  AgentInv'
  <2> USE <1>6, <1>t DEF AgentInv, TypeOKNetwork, destroy_agent, Ends, Goto
  <2>1. Owned'
    BY DEF Owned
  <2>2. HasOwner'
    BY DEF HasOwner
  <2>3. AtWork'
    BY DEF AtWork, Owned
  <2>4. Told'
    BY DEF Told
  <2> QED
    BY <2>1, <2>2, <2>3, <2>4
<1>7. ASSUME NEW r \in Request, SettingsStep(r) \/ HandlerFails(r)
      PROVE  AgentInv'
  <2>1. CASE \E s \in Service : Update(r, s) \/ Remove(r, s)
    BY <2>1, <1>t, AgentsRest DEF AgentInv, TypeOKNetwork, Update, Remove, Begin, Goto
  <2>2. CASE ReadProxy(r)
    BY <2>2, <1>t, AgentsRest DEF AgentInv, TypeOKNetwork, ReadProxy, Goto
  <2>3. CASE set_direct_proxy(r)
    BY <2>3, <1>t, AgentsRest DEF AgentInv, TypeOKNetwork, set_direct_proxy, Goto
  <2>4. CASE SetProxy(r) \/ RemoveService(r) \/ HandlerFails(r)
    <3> USE <2>4, <1>t DEF AgentInv, TypeOKNetwork, SetProxy, RemoveService, HandlerFails,
                           Changing, Ends, Goto
    <3>1. Owned' /\ HasOwner'
      BY DEF Owned, HasOwner
    <3>2. AtWork' /\ Told'
      BY DEF AtWork, Told
    <3> QED
      BY <3>1, <3>2
  <2> QED
    BY <1>7, <2>1, <2>2, <2>3, <2>4 DEF SettingsStep
<1>8. CASE ConnmanRestarts
  <2> USE <1>8, <1>t DEF AgentInv, TypeOKNetwork, ConnmanRestarts
  <2>1. Owned' /\ HasOwner'
    BY DEF Owned, HasOwner
  <2>2. AtWork' /\ Told'
    BY DEF AtWork, Told
  <2> QED
    BY <2>1, <2>2
<1> QED
  BY <1>1, <1>2, <1>3, <1>4, <1>5, <1>6, <1>7, <1>8 DEF NextNetwork, ConnectStep

(* The inductive invariant of the agents. *)
THEOREM AgentsInductive == SpecNetwork => []AgentInv
<1>1. AgentInv /\ [NextNetwork]_networkVars => AgentInv'
  BY AgentStep
<1> QED
  BY InitAgents, <1>1, PTL DEF SpecNetwork

(* NetworkPages: TypeOKNetwork. *)
THEOREM TypeCorrectNetwork == SpecNetwork => []TypeOKNetwork
<1>1. AgentInv => TypeOKNetwork
  BY DEF AgentInv
<1> QED
  BY AgentsInductive, <1>1, PTL

(* Attempts do not mix, however many run at a time (AttemptsDoNotMix). *)
THEOREM AttemptsAreApart == SpecNetwork => []AttemptsDoNotMix
<1>1. AgentInv => AttemptsDoNotMix
  BY DEF AgentInv, Told, AttemptsDoNotMix
<1> QED
  BY AgentsInductive, <1>1, PTL

(* An agent goes with the last attempt (NoAgentStays). *)
THEOREM AgentsGo == SpecNetwork => []NoAgentStays
<1>1. AgentInv => NoAgentStays
  BY DEF AgentInv, HasOwner, NoAgentStays, Connecting
<1> QED
  BY AgentsInductive, <1>1, PTL

-------------------------------------------------------------------------------
(* Proxies. *)

LEMMA InitStored == InitNetwork => Stored
BY DEF InitNetwork, Stored, AtHome

LEMMA StoredStep ==
  ASSUME TypeOKNetwork, Stored, [NextNetwork]_networkVars
  PROVE  Stored'
<1> USE DEF AtHome
<1>1. CASE UNCHANGED <<pending, proxy, entered>>
  BY <1>1 DEF Stored
<1>2. ASSUME NEW r \in Request, ReadProxy(r)
      PROVE  Stored'
  <2>1. CASE pending' = [pending EXCEPT ![r] = None] /\ UNCHANGED entered
    BY <1>2, <2>1 DEF ReadProxy, Stored, TypeOKNetwork
  <2>2. ASSUME NEW f \in Form, NEW current \in DefaultProxies,
               make_proxy(current, f) # Refused,
               pending' = [pending EXCEPT ![r] = make_proxy(current, f)],
               entered' = IF f.keep \/ f.password = None THEN entered
                          ELSE entered \cup {<<f.host, f.user, f.password>>}
        PROVE  Stored'
    <3> DEFINE p == make_proxy(current, f)
    <3>1. current \in Credentials \cup {None} /\ AtHome(current)
      BY DEF DefaultProxies, Stored, TypeOKNetwork
    <3>2. \/ f.keep /\ current # None /\ p = current
          \/ ~f.keep /\ p.password = f.password /\ p.host = f.host /\ p.user = f.user
      BY <2>2, <3>1, MakeProxy
    <3> HIDE DEF p
    <3>3. entered \subseteq entered'
      BY <2>2
    <3>4. p.password # None => <<p.host, p.user, p.password>> \in entered'
      BY <2>2, <3>1, <3>2, <3>3
    <3>5. pending' = [pending EXCEPT ![r] = p]
      BY <2>2 DEF p
    <3> QED
      BY <1>2, <3>3, <3>4, <3>5 DEF ReadProxy, Stored, TypeOKNetwork
  <2> QED
    BY <1>2, <2>1, <2>2 DEF ReadProxy
<1>3. ASSUME NEW r \in Request, SetProxy(r) \/ set_direct_proxy(r) \/ RemoveService(r) \/ HandlerFails(r)
                                 \/ destroy_agent(r)
      PROVE  Stored'
  BY <1>3 DEF SetProxy, set_direct_proxy, RemoveService, HandlerFails, destroy_agent, Ends,
    Stored, TypeOKNetwork
<1>4. ASSUME NEW r \in Request, ConnectStep(r), ~destroy_agent(r)
      PROVE  UNCHANGED <<pending, proxy, entered>>
  BY <1>4 DEF ConnectStep, Connect, RegisterAgent, ConnectCalled, AgentIsCalled, ConnectReturns,
    proxyVars
<1> QED
  BY <1>1, <1>2, <1>3, <1>4 DEF NextNetwork, SettingsStep, Update, Remove, ConnmanRestarts,
    networkVars, locals, proxyVars

(* A proxy password stays with its server (PasswordsStayHome). *)
THEOREM PasswordsStay == SpecNetwork => []PasswordsStayHome
<1>1. TypeOKNetwork /\ Stored /\ [NextNetwork]_networkVars => Stored'
  BY StoredStep
<1>2. Stored => PasswordsStayHome
  BY DEF Stored, AtHome, PasswordsStayHome
<1> QED
  BY InitStored, <1>1, <1>2, TypeCorrectNetwork, PTL DEF SpecNetwork
===============================================================================
