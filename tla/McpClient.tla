------------------------------ MODULE McpClient ------------------------------
(***************************************************************************)
(* The client of MCP servers (agent/module/mcpModule.cpp): which servers   *)
(* the user has and has enabled, what is known of each, and the tools that *)
(* the agent is offered.  A server is discovered anew each time it is      *)
(* enabled, by a chain of requests; it may be disabled, enabled again or   *)
(* removed at any step of one, and chains of the same server then overlap. *)
(*                                                                         *)
(* An answer arrives in the handler of the reply, which takes the session  *)
(* from its header; what follows runs later, in an event of its own.       *)
(*                                                                         *)
(* A server of Stateful knows only the older protocol: it refuses to be    *)
(* discovered, gives a session when initialised, and wants to see it.      *)
(*                                                                         *)
(* Left out: calls of tools, which change nothing here, and what of a      *)
(* server is only shown.  What LanguageClient has by the same name is      *)
(* named for MCP here: ClientProofs extends both.                          *)
(***************************************************************************)
EXTENDS Naturals, Sequences, Functions, Bags, BagsExt

CONSTANTS Urls,
          Host,        \* Host[u] labels a server until it has told its title
          Title,       \* Title[u]
          Stateful,    \* servers of the older protocol
          Pages,       \* Pages[u] is the sequence of the pages, sets of tools
          MaxChanges,  \* bound: inserting, removing, enabling, disabling
          MaxFailures  \* bound: answers that do not come

ASSUME McpAssumption == /\ Stateful \subseteq Urls
                        /\ \A u \in Urls : Len(Pages[u]) \in Nat \ {0}
                        /\ MaxChanges \in Nat /\ MaxFailures \in Nat

VARIABLES servers,   \* m_servers, with the items that show them
          tools,     \* m_tools: from exposed name to server
          offered,   \* what m_tools was when it was last registered
          asked,     \* requests not answered, a bag
          answers,   \* answers whose continuation has not run
          changes, failures

mcpVars == <<servers, tools, offered, asked, answers, changes, failures>>

Labels == {Host[u] : u \in Urls} \cup {Title[u] : u \in Urls}
Servers == [enabled : BOOLEAN, label : Labels, session : BOOLEAN,
            version : {"stateless", "stateful"}]
Exposed(label, tool) == <<label, tool>>

(* A request is for a server that was known, and a page that it has. *)
HttpRequests == [url : Urls, method : {"discover", "initialize", "notify", "list"}, page : Nat,
                 header : {"stateless", "session", "none"}]
Possible(r) == r \in HttpRequests /\ r.page \in 1 .. Len(Pages[r.url])
Results == {"ok", "refused", "failed"}

McpTypeOK == /\ DOMAIN servers \subseteq Urls /\ servers \in [DOMAIN servers -> Servers]
             /\ tools \in [DOMAIN tools -> Urls]
             /\ offered \in [DOMAIN offered -> Urls]
             /\ \A r \in DOMAIN asked : Possible(r)
             /\ answers \in Seq([request : HttpRequests, result : Results])
             /\ \A n \in DOMAIN answers : Possible(answers[n].request)
             /\ changes \in 0 .. MaxChanges /\ failures \in 0 .. MaxFailures

(***************************************************************************)
(* Requests.                                                               *)
(***************************************************************************)

(* How a request shows who asks: McpModule::request. *)
Header(server, method) ==
  CASE server.version = "stateless" -> "stateless"
    [] server.version = "stateful" /\ server.session /\ method # "initialize" -> "session"
    [] OTHER -> "none"
HttpRequest(u, method, page) ==
  [url |-> u, method |-> method, page |-> page, header |-> Header(servers'[u], method)]

Discovering(server) == [server EXCEPT !.version = "stateless", !.session = FALSE]
Initializing(server) == [server EXCEPT !.version = "stateful", !.session = FALSE]

Fresh(u, on) == [enabled |-> on, label |-> Host[u], session |-> FALSE, version |-> "stateless"]

(* The servers of the configuration, of which the enabled are discovered. *)
McpInit == /\ \E known \in SUBSET Urls : \E on \in SUBSET known :
                /\ servers = [u \in known |-> Fresh(u, u \in on)]
                /\ asked = SetToBag({[url |-> u, method |-> "discover", page |-> 1,
                                      header |-> "stateless"] : u \in on})
           /\ tools = << >> /\ offered = << >> /\ answers = << >>
           /\ changes = 0 /\ failures = 0

(***************************************************************************)
(* The user.                                                               *)
(***************************************************************************)

UserChanges == changes < MaxChanges /\ changes' = changes + 1

(* toolsRemove *)
Without(u) == Restrict(tools, {t \in DOMAIN tools : tools[t] # u})

(* toolsRemove and toolsRegister *)
WithdrawQuietly(u) == tools' = Without(u) /\ UNCHANGED offered
Withdraw(u) == tools' = Without(u) /\ offered' = tools'

Insert(u) ==
  /\ UserChanges /\ u \notin DOMAIN servers
  /\ servers' = [v \in DOMAIN servers \cup {u} |->
                   IF v = u THEN Fresh(u, TRUE) ELSE servers[v]]
  /\ asked' = BagAdd(asked, HttpRequest(u, "discover", 1))
  /\ UNCHANGED <<tools, offered, answers, failures>>

Remove(u) ==
  /\ UserChanges /\ u \in DOMAIN servers
  /\ servers' = Restrict(servers, DOMAIN servers \ {u})
  /\ Withdraw(u)
  /\ UNCHANGED <<asked, answers, failures>>

Enable(u) ==
  /\ UserChanges /\ u \in DOMAIN servers /\ ~servers[u].enabled
  /\ servers' = [servers EXCEPT ![u] = Discovering([servers[u] EXCEPT !.enabled = TRUE])]
  /\ asked' = BagAdd(asked, HttpRequest(u, "discover", 1))
  /\ UNCHANGED <<tools, offered, answers, failures>>

Disable(u) ==
  /\ UserChanges /\ u \in DOMAIN servers /\ servers[u].enabled
  /\ servers' = [servers EXCEPT ![u].enabled = FALSE]
  /\ Withdraw(u)
  /\ UNCHANGED <<asked, answers, failures>>

(***************************************************************************)
(* The servers, and the handler of their replies.                          *)
(***************************************************************************)

Serves(r) == CASE r.method = "discover" -> r.url \notin Stateful
               [] r.method = "initialize" -> TRUE
               [] r.method = "notify" -> r.header = "session"
               [] r.method = "list" ->
                    r.header = IF r.url \in Stateful THEN "session" ELSE "stateless"

Reply(r, result) ==
  /\ asked' = BagRemove(asked, r)
  /\ answers' = Append(answers, [request |-> r, result |-> result])
  /\ servers' = IF /\ r.method = "initialize" /\ result = "ok"
                   /\ r.url \in DOMAIN servers
                THEN [servers EXCEPT ![r.url].session = TRUE]
                ELSE servers
  /\ UNCHANGED <<tools, offered, changes>>

Replies == \E r \in DOMAIN asked :
             /\ Reply(r, IF Serves(r) THEN "ok" ELSE "refused")
             /\ UNCHANGED failures
Fails == /\ failures < MaxFailures /\ failures' = failures + 1
         /\ \E r \in DOMAIN asked : Reply(r, "failed")

(***************************************************************************)
(* What follows an answer: the continuations of the requests.              *)
(***************************************************************************)

Ignore == UNCHANGED <<servers, tools, offered, asked>>

(* serverUpdate *)
Update(u) ==
  IF u \notin DOMAIN servers THEN Ignore
  ELSE /\ servers' = [servers EXCEPT ![u].label = Title[u]]
       /\ Withdraw(u)
       /\ asked' = BagAdd(asked, HttpRequest(u, "list", 1))

Discovered(r, result) ==
  CASE r.url \in DOMAIN servers /\ result = "ok" -> Update(r.url)
    [] r.url \in DOMAIN servers /\ result = "refused" ->
         /\ servers' = [servers EXCEPT ![r.url] = Initializing(servers[r.url])]
         /\ asked' = BagAdd(asked, HttpRequest(r.url, "initialize", 1))
         /\ UNCHANGED <<tools, offered>>
    [] OTHER -> Ignore

Initialized(r, result) ==
  IF r.url \in DOMAIN servers /\ result = "ok"
  THEN /\ servers' = [servers EXCEPT ![r.url].version = "stateful"]
       /\ asked' = BagAdd(asked, HttpRequest(r.url, "notify", 1))
       /\ UNCHANGED <<tools, offered>>
  ELSE Ignore

Notified(r, result) == IF result = "ok" THEN Update(r.url) ELSE Ignore

(* A tool of the same exposed name is replaced. *)
WithPage(u, page) ==
  LET new == {Exposed(servers[u].label, tool) : tool \in Pages[u][page]}
  IN  [t \in DOMAIN tools \cup new |-> IF t \in new THEN u ELSE tools[t]]

(* Mutant: the last page is not asked for. *)
AddPageLess(u, page) ==
  /\ tools' = WithPage(u, page)
  /\ IF page + 1 < Len(Pages[u])
     THEN asked' = BagAdd(asked, HttpRequest(u, "list", page + 1)) /\ UNCHANGED offered
     ELSE offered' = tools' /\ UNCHANGED asked
(* toolsGet: a page is added, and the next one asked for or all registered. *)
AddPage(u, page) ==
  /\ tools' = WithPage(u, page)
  /\ IF page < Len(Pages[u])
     THEN asked' = BagAdd(asked, HttpRequest(u, "list", page + 1)) /\ UNCHANGED offered
     ELSE offered' = tools' /\ UNCHANGED asked

(* Mutant: a server that was disabled meanwhile is not told apart. *)
ListedUnchecked(r, result) ==
  IF r.url \in DOMAIN servers /\ result = "ok"
  THEN UNCHANGED servers /\ AddPage(r.url, r.page)
  ELSE Ignore
Listed(r, result) ==
  IF r.url \in DOMAIN servers /\ result = "ok" /\ servers[r.url].enabled
  THEN UNCHANGED servers /\ AddPage(r.url, r.page)
  ELSE Ignore

Continue ==
  /\ answers # << >> /\ answers' = Tail(answers)
  /\ UNCHANGED <<changes, failures>>
  /\ LET r == Head(answers).request
         result == Head(answers).result
     IN  CASE r.method = "discover" -> Discovered(r, result)
           [] r.method = "initialize" -> Initialized(r, result)
           [] r.method = "notify" -> Notified(r, result)
           [] r.method = "list" -> Listed(r, result)

(***************************************************************************)
(* The specification.  Every reply finishes, be it with an error, and      *)
(* every event that is posted is handled.                                  *)
(***************************************************************************)

McpNext == \/ \E u \in Urls : Insert(u) \/ Remove(u) \/ Enable(u) \/ Disable(u)
           \/ Replies \/ Fails \/ Continue

McpSpec == McpInit /\ [][McpNext]_mcpVars
McpFairSpec == McpSpec /\ WF_mcpVars(Replies) /\ WF_mcpVars(Continue)

Enabled(u) == u \in DOMAIN servers /\ servers[u].enabled

(* An answer that comes late, after its server was disabled, removed or    *)
(* discovered again, brings no tool of a server the user does not have or  *)
(* has disabled: the guards of the continuations in mcpModule.cpp.         *)
ToolsOfEnabled == \A t \in DOMAIN tools : Enabled(tools[t])

(* Names of tools cannot be taken for those of another server. *)
LabelsApart == \A u, v \in Urls : u # v => {Host[u], Title[u]} \cap {Host[v], Title[v]} = {}

(* Every tool the agent is offered is one that toolExecute knows, of an    *)
(* enabled server, though the pages of a list change m_tools before they   *)
(* are registered; and unless two servers have a title or a host in        *)
(* common, toolExecute asks the server that the tool was offered for       *)
(* (toolsGet, toolsRemove, toolsRegister).                                 *)
OfferedKnown ==
  \A t \in DOMAIN offered : /\ t \in DOMAIN tools /\ Enabled(tools[t])
                            /\ LabelsApart => tools[t] = offered[t]

(* The same without the exception, which fails for servers of one title.   *)
ServedAsOffered == \A t \in DOMAIN offered : t \in DOMAIN tools => tools[t] = offered[t]

(* A server that stays enabled has all its tools offered in the end,       *)
(* however the chains of requests of its discoveries overlap: serverUpdate *)
(* starts each list anew.                                                  *)
AllExposed ==
  \A u \in Urls :
    (<>[]Enabled(u)) =>
      <>[](\A tool \in UNION Range(Pages[u]) :
             \E t \in DOMAIN offered : t[2] = tool /\ offered[t] = u)

(* When no answer is outstanding, a server whose tools are offered is      *)
(* asked in its own protocol: request, mcpModule.cpp 236-266.              *)
Reachable ==
  DOMAIN asked = {} /\ answers = << >> =>
    \A t \in DOMAIN offered :
      Serves([url |-> offered[t], method |-> "list", page |-> 1,
              header |-> Header(servers[offered[t]], "list")])
=============================================================================
