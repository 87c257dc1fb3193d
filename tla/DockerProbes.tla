------------------------------ MODULE DockerProbes ------------------------------
(***************************************************************************)
(* The primitives that ask about several things in one call:               *)
(*   "services"    runtime.services, one goroutine per configured service  *)
(*   "stats"       docker.stats, one goroutine per running container       *)
(*   "containers"  docker.containers, one container after the other        *)
(* and the HTTP clients for the Docker sockets, which all of them share    *)
(* and make on first use under a read-write lock.                          *)
(*                                                                         *)
(* A goroutine is named by its binding and its item; Listing stands for    *)
(* the call itself, when it asks Docker for the containers.  Each request  *)
(* has a context that ends with the call's at the latest; what is behind   *)
(* it may answer, refuse, or say nothing until then.                       *)
(*                                                                         *)
(* Operators called a mutant are plausible slips in the definition after   *)
(* them; no action uses them.                                              *)
(***************************************************************************)
EXTENDS Beat

CONSTANTS
  DockerBindings,   \* the bindings of these primitives
  Kind,             \* the primitive of each
  Socket,           \* the socket argument of each
  Items,            \* services and containers
  Listing,          \* not an item
  NoClient          \* not a goroutine

Goroutines == DockerBindings \X (Items \cup {Listing})

ASSUME DockerAssumption ==
  /\ DockerBindings \subseteq Bindings
  /\ Kind \in [DockerBindings -> {"services", "stats", "containers"}]
  /\ Listing \notin Items
  /\ NoClient \notin Goroutines

VARIABLES
  client,     \* sharedDockerClients: per socket, the goroutine that made its client
  made,       \* all the clients ever made: <<socket, goroutine>>
  items,      \* what each call has to answer about
  pc,         \* where each goroutine is: "off", "find", "make", "ask", "end"
  asks,       \* the request it is at
  got,        \* the replies it has
  rows        \* what each call has put together: <<item, row>>

dockerVars == <<client, made, items, pc, asks, got, rows>>

Sockets == {Socket[b] : b \in DockerBindings}
Requests == {"list", "inspect", "health", "info", "restarts", "stats"}
OverDocker == {"list", "inspect", "restarts", "stats"}

\* The two that a service with probe: docker_exec has a command make.
OfTheService == {"health", "info"}

\* What may come back for each request.
Replies(r) ==
  CASE r = "inspect" -> {"error", "stopped", "running", "labelled"}
    [] r = "health"  -> {"error", "other", "expected"}
    [] r \in {"list", "info", "restarts", "stats"} -> {"error", "answer"}

\* Mutant of NextRequest: a container that does not run is asked for its health all the same.
NextRequestUnchecked(b, i, r, reply) ==
  CASE r = "inspect" /\ reply # "error" -> {"health"}
    [] r = "health" /\ reply = "expected" /\ host.services[i].info -> {"info"}
    [] r = "restarts" /\ Kind[b] = "stats" -> {"stats"}
    [] OTHER -> {}

\* The request after this reply; none, and the row is complete.
NextRequest(b, i, r, reply) ==
  CASE r = "inspect" /\ reply \in {"running", "labelled"} -> {"health"}
    [] r = "health" /\ reply = "expected" /\ host.services[i].info -> {"info"}
    [] r = "restarts" /\ Kind[b] = "stats" -> {"stats"}
    [] OTHER -> {}

\* The first request of an item's goroutine; docker.containers asks for those that run.
FirstRequest(b, i) ==
  IF Kind[b] = "services" THEN (IF host.services[i].container THEN "inspect" ELSE "health")
                          ELSE "restarts"

\* probeRuntimeService: the signal made of the replies of a goroutine.
SignalOf(g) ==
  [status  |-> IF got[g]["health"] = "expected" THEN "HEALTHY" ELSE "STALE",
   version |-> IF got[g]["inspect"] = "labelled" THEN "label"
               ELSE IF got[g]["info"] = "answer" THEN "info" ELSE "none"]

\* The row of an item: a signal, or the figures it has, zero for those that failed.
RowOf(b, i) ==
  IF Kind[b] = "services" THEN SignalOf(<<b, i>>)
  ELSE [figures |-> {r \in {"restarts", "stats"} : got[<<b, i>>][r] = "answer"}]

NoReplies == [r \in Requests |-> "none"]

-----------------------------------------------------------------------------
(* Goroutines and requests *)

Of(b) == {g \in Goroutines : g[1] = b}

\* Over Docker, a request goes to the client of the socket first.
Going(r) == IF r \in OverDocker THEN "find" ELSE "ask"

\* The goroutines of the set gs start with the request first[item], those of b
\* outside it are not running.
Start(b, gs, first) ==
  /\ pc' = [g \in Goroutines |-> IF g \in gs THEN Going(first[g[2]])
                                 ELSE IF g \in Of(b) THEN "off" ELSE pc[g]]
  /\ asks' = [g \in Goroutines |-> IF g \in gs THEN first[g[2]] ELSE asks[g]]

\* runtimeServiceConfigs: all the services, unless one of them is not named in full; that is
\* an error of the whole call, here a call without rows.
RuntimeServiceConfigs ==
  IF \A i \in DOMAIN host.services : host.services[i].named THEN DOMAIN host.services ELSE {}

\* The call: the items are the configured services, or for Docker to list.
CallDocker(b) ==
  /\ stage[b] = "called"
  /\ rows' = [rows EXCEPT ![b] = {}]
  /\ got' = [g \in Goroutines |-> IF g \in Of(b) THEN NoReplies ELSE got[g]]
  /\ IF Kind[b] = "services"
     THEN /\ items' = [items EXCEPT ![b] = RuntimeServiceConfigs]
          /\ Start(b, {b} \X RuntimeServiceConfigs,
                   [i \in RuntimeServiceConfigs |-> FirstRequest(b, i)])
          /\ Step(b, "waiting")
     ELSE /\ items' = [items EXCEPT ![b] = {}]
          /\ Start(b, {<<b, Listing>>}, [i \in {Listing} |-> "list"])
          /\ Step(b, "listing")
  /\ UNCHANGED <<client, made>>

\* dockerClientFor, the look under the read lock.
FindClient(g) ==
  /\ pc[g] = "find"
  /\ pc' = [pc EXCEPT ![g] = IF client[Socket[g[1]]] = NoClient THEN "make" ELSE "ask"]
  /\ UNCHANGED <<client, made, items, asks, got, rows, beatVars>>

\* Mutant of MakeClient: no second look under the write lock.
MakeClientBlind(g) ==
  LET s == Socket[g[1]]
  IN /\ pc[g] = "make"
     /\ client' = [client EXCEPT ![s] = g] /\ made' = made \cup {<<s, g>>}
     /\ pc' = [pc EXCEPT ![g] = "ask"]
     /\ UNCHANGED <<items, asks, got, rows, beatVars>>

\* The second look and the making of the client, under the write lock.
MakeClient(g) ==
  LET s == Socket[g[1]]
  IN /\ pc[g] = "make"
     /\ IF client[s] = NoClient
        THEN client' = [client EXCEPT ![s] = g] /\ made' = made \cup {<<s, g>>}
        ELSE UNCHANGED <<client, made>>
     /\ pc' = [pc EXCEPT ![g] = "ask"]
     /\ UNCHANGED <<items, asks, got, rows, beatVars>>

\* The list: a goroutine per container for docker.stats, an error for the whole call.
ListContainers(b, reply) ==
  /\ stage[b] = "listing" /\ pc[<<b, Listing>>] = "ask"
  /\ \E found \in SUBSET Items :
       /\ reply = "error" => found = {}
       /\ items' = [items EXCEPT ![b] = found]
       /\ Start(b, IF Kind[b] = "stats" THEN {b} \X found ELSE {}, [i \in found |-> "restarts"])
  /\ got' = [got EXCEPT ![<<b, Listing>>]["list"] = reply]
  /\ Step(b, IF reply = "error" THEN "done" ELSE "waiting")
  /\ UNCHANGED <<client, made, rows>>

\* docker.containers: the next container in turn; one that does not run is not asked about.
NextContainer(b) ==
  /\ stage[b] = "waiting" /\ Kind[b] = "containers"
  /\ \A i \in Items : pc[<<b, i>>] \in {"off", "end"}
  /\ \E i \in items[b], state \in {"running", "exited"} :
       /\ pc[<<b, i>>] = "off"
       /\ pc' = [pc EXCEPT ![<<b, i>>] = IF state = "running" THEN "find" ELSE "end"]
       /\ asks' = [asks EXCEPT ![<<b, i>>] = "restarts"]
  /\ UNCHANGED <<client, made, items, got, rows, beatVars>>

\* A reply to the goroutine of an item: its next request, or its row is complete.
TakeReply(g, reply) ==
  LET next == NextRequest(g[1], g[2], asks[g], reply)
  IN /\ g[2] # Listing /\ pc[g] = "ask" /\ reply \in Replies(asks[g])
     /\ got' = [got EXCEPT ![g][asks[g]] = reply]
     /\ IF next = {} THEN pc' = [pc EXCEPT ![g] = "end"] /\ UNCHANGED asks
        ELSE \E r \in next : pc' = [pc EXCEPT ![g] = Going(r)] /\ asks' = [asks EXCEPT ![g] = r]
     /\ UNCHANGED <<client, made, items, rows, beatVars>>

\* The items of a call whose slot in the result is filled.
Filled(b) == {i \in items[b] : pc[<<b, i>>] = "end"}

\* wg.Wait, or the end of the loop: the slots that are filled are what is returned.
Return(b) ==
  /\ stage[b] = "waiting"
  /\ \A i \in items[b] : pc[<<b, i>>] = "end"
  /\ rows' = [rows EXCEPT ![b] = {<<i, RowOf(b, i)>> : i \in Filled(b)}]
  /\ Step(b, "done")
  /\ UNCHANGED <<client, made, items, pc, asks, got>>

\* What the world may do: answer, or refuse, before the deadline.
Answer ==
  /\ ~Late
  /\ \/ \E b \in DockerBindings, reply \in Replies("list") : ListContainers(b, reply)
     \/ \E g \in Goroutines, reply \in {"error", "stopped", "running", "labelled", "other",
                                        "expected", "answer"} : TakeReply(g, reply)

\* Mutant of CutOff: the request for the list has no context of its own call.
CutOffItems == Late /\ \E g \in Goroutines : TakeReply(g, "error")

\* What the context does to the requests still open.
CutOff ==
  /\ Late
  /\ \/ \E b \in DockerBindings : ListContainers(b, "error")
     \/ \E g \in Goroutines : TakeReply(g, "error")

\* The goroutine g waits for docker exec, which may outlast its context.
AtExec(g) ==
  /\ g[2] # Listing /\ pc[g] = "ask"
  /\ asks[g] \in OfTheService /\ host.services[g[2]].exec

\* What the agent does by itself.
DockerStep ==
  \/ \E b \in DockerBindings : CallDocker(b) \/ NextContainer(b) \/ Return(b)
  \/ \E g \in Goroutines : FindClient(g) \/ MakeClient(g)

DockerInit ==
  /\ client = [s \in Sockets |-> NoClient]
  /\ made = {}
  /\ items = [b \in DockerBindings |-> {}]
  /\ pc = [g \in Goroutines |-> "off"]
  /\ asks = [g \in Goroutines |-> "list"]
  /\ got = [g \in Goroutines |-> NoReplies]
  /\ rows = [b \in DockerBindings |-> {}]

-----------------------------------------------------------------------------
(* Properties *)

\* A call that listed its containers, and a call of runtime.services whose definitions are
\* well formed, returns a row for each of its items and no other, whatever was refused or
\* cut off: a broken service is shown broken, not left out.
NothingDropped ==
  \A b \in DockerBindings :
    stage[b] = "done" => /\ {r[1] : r \in rows[b]} = items[b]
                         /\ /\ Kind[b] = "services"
                            /\ \A i \in DOMAIN host.services : host.services[i].named
                            => items[b] = DOMAIN host.services

\* A service is only called healthy if its container was running when it was asked and the
\* health document said so afterwards; and a version label of the image always wins.
HealthyIsEarned ==
  \A b \in DockerBindings : \A r \in rows[b] :
    Kind[b] = "services" /\ stage[b] = "done" =>
      LET g == <<b, r[1]>>
      IN /\ r[2].status = "HEALTHY" =>
              /\ got[g]["health"] = "expected"
              /\ host.services[r[1]].container => got[g]["inspect"] \in {"running", "labelled"}
         /\ got[g]["inspect"] = "labelled" => r[2].version = "label"
         /\ got[g]["inspect"] \in {"error", "stopped"} => r[2].status = "STALE"

\* For as long as the process lives there is at most one client per socket, and it is the
\* one that all calls use, however many of them need it first at the same moment.
OneClientPerSocket ==
  \A s \in Sockets : \A c \in made :
    c[1] = s => c[2] = client[s]

=============================================================================
