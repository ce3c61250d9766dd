----------------------------- MODULE NetworkPages -----------------------------
(* The network pages of the controller: connecting to a service with an      *)
(* agent that answers ConnMan's questions, changing a service's settings,    *)
(* and forgetting a service.  Handlers interleave at their awaits, and the   *)
(* watchdog may restart ConnMan under all of them.                           *)
EXTENDS FiniteSets

CONSTANTS
  Request,    \* enough handlers for those that run at the same time
  Service,
  Host,       \* a proxy's host and port
  User,
  Password,   \* non-empty ones
  Path,       \* D-Bus paths for agents
  None,       \* nothing
  Refused     \* a form that is refused

ASSUME NoneApart == None \notin Request \cup Path \cup Host

VARIABLES
  place,      \* where each handler is
  service,    \* the service it is about
  passphrase, \* it was given one (connecting)
  path,       \* its agent's path (connecting)
  pending,    \* the proxy it is about to set (changing settings)
  reported,   \* agent_reported_error: an error its agent has seen
  exported,   \* the handler whose agent is at a path of the controller's bus
  registered, \* ConnMan's agent for the controller
  proxy,      \* each service's proxy
  answered,   \* history: whose passphrase ConnMan was given for an attempt
  told,       \* history: the last error about an attempt
  lost,       \* history: a restart of ConnMan took an agent before Connect was called
  entered     \* history: passwords, and the server and user they were typed for

locals      == <<place, service, passphrase, path, pending, reported, answered, told>>
agentVars   == <<passphrase, path, reported, exported, registered, answered, told, lost>>
proxyVars   == <<pending, proxy, entered>>
networkVars == <<locals, exported, registered, proxy, entered, lost>>

Connecting == {"register", "connect", "waiting", "cleanup"}
Changing   == {"read", "set", "direct", "removing"}

Error == {"PassMissing", "MissingRequestedInputs", "BrowserRequested", "ManagerError"}
Credentials == [host : Host, user : User \cup {None}, password : Password \cup {None}]
Form == [host : Host \cup {None}, user : User \cup {None},
         password : Password \cup {None}, keep : BOOLEAN]

(* The type of every variable. *)
TypeOKNetwork ==
  /\ place \in [Request -> {"idle"} \cup Connecting \cup Changing]
  /\ service \in [Request -> Service \cup {None}]
  /\ passphrase \in [Request -> BOOLEAN]
  /\ path \in [Request -> Path \cup {None}]
  /\ pending \in [Request -> Credentials \cup {None}]
  /\ reported \in [Request -> Error \cup {None}]
  /\ told \in [Request -> Error \cup {None}]
  /\ answered \in [Request -> Request \cup {None}]
  /\ exported \in [Path -> Request \cup {None}]
  /\ registered \in Path \cup {None}
  /\ proxy \in [Service -> Credentials \cup {None}]
  /\ lost \in BOOLEAN

Goto(r, p) == place' = [place EXCEPT ![r] = p]

(* A handler begins; at is the first of its calls. *)
Begin(r, s, at) ==
  /\ place[r] = "idle" /\ Goto(r, at)
  /\ service' = [service EXCEPT ![r] = s]

(* It ends, and with it what it knew. *)
Ends(r) ==
  /\ Goto(r, "idle")
  /\ service' = [service EXCEPT ![r] = None]
  /\ passphrase' = [passphrase EXCEPT ![r] = FALSE]
  /\ path' = [path EXCEPT ![r] = None]
  /\ pending' = [pending EXCEPT ![r] = None]
  /\ reported' = [reported EXCEPT ![r] = None]
  /\ answered' = [answered EXCEPT ![r] = None]
  /\ told' = [told EXCEPT ![r] = None]

-------------------------------------------------------------------------------
(* Connecting: Service.connect and the module Agent. *)

Connect(r, s, given, p) ==
  /\ Begin(r, s, "register")
  /\ \A q \in Request : place[q] \in Connecting => path[q] # p
  /\ passphrase' = [passphrase EXCEPT ![r] = given]
  /\ path' = [path EXCEPT ![r] = p]
  /\ exported' = [exported EXCEPT ![p] = r]
  /\ lost' = (lost /\ \E q \in Request : place[q] \in Connecting)
  /\ UNCHANGED <<reported, answered, told, registered, proxyVars>>

(* Mutant: an agent that cannot be registered is no reason to stop. *)
RegisterAgent_Unchecked(r) ==
  /\ place[r] = "register" /\ Goto(r, "connect")
  /\ registered' = IF registered = None THEN path[r] ELSE registered
  /\ UNCHANGED <<service, passphrase, path, reported, exported, answered, told, lost,
                 proxyVars>>

(* ConnMan takes one agent from each of its clients; otherwise the exception *)
(* ends the handler, and the agent stays exported.                           *)
RegisterAgent(r) ==
  /\ place[r] = "register" /\ registered = None
  /\ registered' = path[r] /\ Goto(r, "connect")
  /\ UNCHANGED <<service, passphrase, path, reported, exported, answered, told, lost,
                 proxyVars>>

ConnectCalled(r) ==
  /\ place[r] = "connect" /\ Goto(r, "waiting")
  /\ UNCHANGED <<service, agentVars, proxyVars>>

(* The agent of handler q reports an error about the attempt of r. *)
Tells(q, r, error) ==
  /\ told' = [told EXCEPT ![r] = error]
  /\ reported' = [reported EXCEPT ![q] = error]

(* What the agent of q answers to a question about the attempt of r: it has  *)
(* a passphrase at most, and never looks at the service.                     *)
request_input(q, r, mandatory) ==
  IF passphrase[q] /\ mandatory = {"Passphrase"}
  THEN answered' = [answered EXCEPT ![r] = q] /\ UNCHANGED <<reported, told>>
  ELSE /\ Tells(q, r, IF mandatory = {"Passphrase"} THEN "PassMissing" ELSE "MissingRequestedInputs")
       /\ UNCHANGED answered

(* ConnMan asks, or reports to, the agent it has, whoever's it is. *)
AgentIsCalled(r) ==
  /\ place[r] = "waiting" /\ registered # None
  /\ LET q == exported[registered] IN
     /\ q # None
     /\ \/ \E mandatory \in {{"Passphrase"}, {"Identity", "Passphrase"}, {}} :
             request_input(q, r, mandatory)
        \/ \E error \in {"BrowserRequested", "ManagerError"} : Tells(q, r, error) /\ UNCHANGED answered
  /\ UNCHANGED <<place, service, passphrase, path, exported, registered, lost,
                 proxyVars>>

(* Connect returns, well or with an error. *)
ConnectReturns(r) ==
  /\ place[r] = "waiting" /\ Goto(r, "cleanup")
  /\ UNCHANGED <<service, agentVars, proxyVars>>

(* Mutant: the agent is only removed if it has seen no error. *)
destroy_agent_OnSuccess(r) ==
  /\ place[r] = "cleanup" /\ Ends(r)
  /\ IF registered = path[r] /\ reported[r] = None
     THEN registered' = None /\ exported' = [exported EXCEPT ![path[r]] = None]
     ELSE UNCHANGED <<registered, exported>>
  /\ UNCHANGED <<lost, proxy, entered>>

(* Fails if ConnMan no longer has the agent, which then stays exported. *)
destroy_agent(r) ==
  /\ place[r] = "cleanup" /\ Ends(r)
  /\ IF registered = path[r]
     THEN registered' = None /\ exported' = [exported EXCEPT ![path[r]] = None]
     ELSE UNCHANGED <<registered, exported>>
  /\ UNCHANGED <<lost, proxy, entered>>

-------------------------------------------------------------------------------
(* Changing settings: NetworkGui.update.  Of the static address and the name *)
(* servers, which are set first, only the time that this takes is modelled.  *)
(* What the form says is chosen when it is looked at.                        *)

Update(r, s) ==
  /\ Begin(r, s, "read")
  /\ UNCHANGED <<agentVars, proxyVars>>

(* Mutant: the server may change as long as the user stays the same. *)
make_proxy_UserCompared(current, f) ==
  LET untouched == current # None /\ current.user # None /\ f.user = current.user
      password  == IF f.keep THEN current.password ELSE f.password
  IN IF f.host = None \/ (f.keep /\ ~untouched) \/ (f.user = None /\ password # None)
     THEN Refused
     ELSE [host |-> f.host, user |-> f.user, password |-> password]

(* The proxy that a form stands for: a password may be kept only if server   *)
(* and user are those of the current one.                                    *)
make_proxy(current, f) ==
  LET untouched == /\ current # None /\ current.user # None
                   /\ f.host = current.host /\ f.user = current.user
      password  == IF f.keep THEN current.password ELSE f.password
  IN IF f.host = None \/ (f.keep /\ ~untouched) \/ (f.user = None /\ password # None)
     THEN Refused
     ELSE [host |-> f.host, user |-> f.user, password |-> password]

(* The current proxy is that of the default service, not of the edited one.  *)
(* Which service that is, if any, changes at any time.                       *)
DefaultProxies == {None} \cup {proxy[s] : s \in Service}

ReadProxy(r) ==
  /\ place[r] = "read"
  /\ \/ pending' = [pending EXCEPT ![r] = None] /\ UNCHANGED entered
     \/ \E f \in Form, current \in DefaultProxies :
          /\ make_proxy(current, f) # Refused
          /\ pending' = [pending EXCEPT ![r] = make_proxy(current, f)]
          /\ entered' = IF f.keep \/ f.password = None THEN entered
                        ELSE entered \cup {<<f.host, f.user, f.password>>}
  /\ Goto(r, "set")
  /\ UNCHANGED <<service, agentVars, proxy>>

SetProxy(r) ==
  /\ place[r] = "set" /\ Ends(r)
  /\ proxy' = [proxy EXCEPT ![service[r]] = pending[r]]
  /\ UNCHANGED <<exported, registered, lost, entered>>

-------------------------------------------------------------------------------
(* Forgetting: NetworkGui.remove clears the settings first. *)

Remove(r, s) ==
  /\ Begin(r, s, "direct")
  /\ UNCHANGED <<agentVars, proxyVars>>

set_direct_proxy(r) ==
  /\ place[r] = "direct" /\ Goto(r, "removing")
  /\ proxy' = [proxy EXCEPT ![service[r]] = None]
  /\ UNCHANGED <<service, agentVars, pending, entered>>

(* The other settings are cleared in the same way, and ConnMan forgets it.   *)
RemoveService(r) ==
  /\ place[r] = "removing" /\ Ends(r)
  /\ UNCHANGED <<exported, registered, lost, proxy, entered>>

-------------------------------------------------------------------------------
(* Any call but Connect and those of the cleanup ends the handler with an    *)
(* exception when it fails, and so does a proxy form that is refused.        *)
HandlerFails(r) ==
  /\ place[r] \in Changing \cup {"register"} /\ Ends(r)
  /\ UNCHANGED <<exported, registered, lost, proxy, entered>>

(* ConnMan dies: it forgets the agent, and its answers become errors. *)
ConnmanRestarts ==
  /\ registered' = None
  /\ place' = [r \in Request |-> IF place[r] = "waiting" THEN "cleanup" ELSE place[r]]
  /\ lost' = (lost \/ \E r \in Request : place[r] = "connect")
  /\ UNCHANGED <<service, passphrase, path, reported, exported, answered, told,
                 proxyVars>>

ConnectStep(r) ==
  \/ \E s \in Service, given \in BOOLEAN, p \in Path : Connect(r, s, given, p)
  \/ RegisterAgent(r) \/ ConnectCalled(r) \/ AgentIsCalled(r)
  \/ ConnectReturns(r) \/ destroy_agent(r)

SettingsStep(r) ==
  \/ \E s \in Service : Update(r, s) \/ Remove(r, s)
  \/ ReadProxy(r) \/ SetProxy(r) \/ set_direct_proxy(r) \/ RemoveService(r)

InitNetwork ==
  /\ place = [r \in Request |-> "idle"]
  /\ service = [r \in Request |-> None]
  /\ passphrase = [r \in Request |-> FALSE]
  /\ path = service /\ pending = service
  /\ reported = service /\ answered = service /\ told = service
  /\ exported = [p \in Path |-> None] /\ registered = None
  /\ proxy = [s \in Service |-> None]
  /\ lost = FALSE /\ entered = {}

NextNetwork ==
  \/ \E r \in Request : ConnectStep(r) \/ SettingsStep(r) \/ HandlerFails(r)
  \/ ConnmanRestarts

SpecNetwork == InitNetwork /\ [][NextNetwork]_networkVars

-------------------------------------------------------------------------------
(* Two attempts never mix: ConnMan gets no passphrase for a service but the  *)
(* one that was typed for this attempt, and what a failed attempt reports is *)
(* the last thing its own agent was told.  The exception: ConnMan restarts   *)
(* between RegisterAgent and Connect, so that an attempt goes on without an  *)
(* agent, beside one that may register its own.                              *)
AttemptsDoNotMix ==
  \A r \in Request :
    place[r] \in {"waiting", "cleanup"} /\ ~lost =>
      answered[r] \in {None, r} /\ reported[r] = told[r]

(* When no attempt is under way ConnMan has no agent of the controller, so   *)
(* the next attempt can register its own: an agent that stayed would make    *)
(* every later attempt fail.                                                 *)
NoAgentStays ==
  (\A r \in Request : place[r] \notin Connecting) => registered = None

(* A proxy password is only ever stored for, and so sent to, a server and a  *)
(* user for which it was once typed, whatever pages are out of date and      *)
(* however the default service changes.                                      *)
PasswordsStayHome ==
  \A s \in Service :
    proxy[s] # None /\ proxy[s].password # None =>
      <<proxy[s].host, proxy[s].user, proxy[s].password>> \in entered
===============================================================================
