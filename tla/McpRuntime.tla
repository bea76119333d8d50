----------------------------- MODULE McpRuntime -----------------------------
(***************************************************************************)
(* The MCP servers of one Session: McpExtensionRuntime and the             *)
(* ManagedMcpServer objects it owns (mcp/runtime.ts), the configuration    *)
(* watch that reconciles them (mcp/extension.ts, host-adapters.ts), and    *)
(* the coordinator that turns them into the tool catalog of the agent      *)
(* (sdk/extensions.ts).                                                    *)
(*                                                                         *)
(* Nothing serialises reconcile(): a change of the configuration starts it *)
(* also while an earlier one, or close(), awaits the end of a connection.  *)
(* A connection takes any time to open and to close, and may fail or end   *)
(* at any time.  What a server offers is abstracted to its configuration.  *)
(***************************************************************************)
EXTENDS Integers, FiniteSets, SequencesExt

CONSTANTS
  Names,      \* names of the servers
  Versions,   \* configurations one server may have
  Off,        \* the server is not configured
  Configurations, \* what the file may say: a version or Off for each name
  MaxServers, \* ManagedMcpServer objects at a time
  MaxChanges, \* changes of the configuration
  MaxEvents   \* connections that fail or end by themselves, changes of tools

ASSUME McpAssumption ==
  /\ Off \notin Versions
  /\ Configurations \subseteq [Names -> Versions \cup {Off}]
  /\ MaxServers \in Nat /\ MaxChanges \in Nat /\ MaxEvents \in Nat

VARIABLES
  file,      \* the resolved configuration, a version or Off for each name
  offers,    \* which of two lists of tools the server of each name offers
  pending,   \* configurations read by resolveLayeredConfig, not yet emitted
  servers,   \* #servers: the object of each name, 0 for none
  obj,       \* obj[i]: a ManagedMcpServer
  starting,  \* the objects whose first connection start() awaits
  recs,      \* the reconcile() calls that await the end of a connection
  runtime,   \* "open", "closing" (close() awaits), "closed"
  coord,     \* how far the coordinator is
  requested, \* #refreshRequested
  discovery, \* the discover() under way
  catalog,   \* the tools of the agent: the servers they are of
  changes,   \* changes of the configuration so far
  events,    \* connections lost and tools changed so far
  overlap,   \* two reconcile() calls, or one and close(), were under way at once
  disorder,  \* configurations were emitted in another order than they were read
  unheard    \* an invalidation came before the coordinator had subscribed

vars == <<file, offers, pending, servers, obj, starting, recs, runtime, coord, requested,
          discovery, catalog, changes, events, overlap, disorder, unheard>>

ghosts == <<overlap, disorder, unheard>>

Objects == 1..MaxServers

(* client: #client is set; connecting: #connecting is set. *)
Unused == [name |-> Off, conf |-> Off, closed |-> TRUE, connecting |-> FALSE,
           client |-> FALSE, timer |-> FALSE, snapshot |-> FALSE]

Server(n, conf) ==
  [name |-> n, conf |-> conf, closed |-> FALSE, connecting |-> TRUE,
   client |-> FALSE, timer |-> FALSE, snapshot |-> FALSE]

NoDiscovery == [on |-> FALSE, visited |-> {}, got |-> {}, asked |-> 0, cut |-> FALSE]
Discovering == [NoDiscovery EXCEPT !.on = TRUE]

(* What catalog entry an object stands for. *)
ToolsOf(i) == [name |-> obj[i].name, conf |-> obj[i].conf, tools |-> offers[obj[i].name]]

-----------------------------------------------------------------------------
(***************************************************************************)
(* #invalidate, and what hears it.                                         *)
(***************************************************************************)
(* Mutant: an invalidation during a refresh is taken for that refresh. *)
InvalidatedUnlessBusy ==
  /\ requested' = (requested \/ (runtime = "open" /\ coord = "on" /\ ~discovery.on))
  /\ unheard' = (unheard \/ coord \in {"initial", "subscribing"})

(* The coordinator hears it from its subscription to its disposal. *)
Invalidated ==
  /\ requested' = (requested \/ (runtime = "open" /\ coord = "on"))
  /\ unheard' = (unheard \/ coord \in {"initial", "subscribing"})

(* The client an object asked for its tools has ended. *)
Cut(i) ==
  discovery' = [discovery EXCEPT !.cut = @ \/ (discovery.asked # 0 /\ discovery.asked = i)]

-----------------------------------------------------------------------------
(***************************************************************************)
(* ManagedMcpServer.                                                       *)
(***************************************************************************)
(* Mutant: a failed connection is reported and not retried. *)
ReconnectNever(o) == IF o.closed THEN Unused ELSE o

(* #scheduleReconnect; of a closed object nothing is left to do. *)
Reconnect(o) == IF o.closed THEN Unused ELSE [o EXCEPT !.timer = TRUE]

(* close(); an attempt that is under way goes on, and keeps the object. *)
Closed(o) ==
  IF ~o.connecting THEN Unused
  ELSE [o EXCEPT !.closed = TRUE, !.timer = FALSE, !.client = FALSE]

(* Mutant: the attempt does not look at #closed and the generation. *)
AcceptedAlways(o) == TRUE

(* #openConnection: the client is used unless the object was closed. *)
Accepted(o) == ~o.closed

(* connect and tools/list have succeeded. *)
Connects(i) ==
  /\ obj[i].connecting
  /\ starting' = starting \ {i}
  /\ IF Accepted(obj[i])
     THEN /\ obj' = [obj EXCEPT ![i].connecting = FALSE, ![i].client = TRUE,
                                ![i].snapshot = TRUE]
          /\ Invalidated
     ELSE /\ obj' = [obj EXCEPT ![i] = Unused]
          /\ UNCHANGED <<requested, unheard>>
  /\ UNCHANGED <<file, offers, pending, servers, recs, runtime, coord, discovery,
                 catalog, changes, events, overlap, disorder>>

(* One of them has failed, and the client is closed. *)
ConnectFails(i) ==
  /\ events < MaxEvents
  /\ events' = events + 1
  /\ obj[i].connecting
  /\ obj' = [obj EXCEPT ![i] = Reconnect([obj[i] EXCEPT !.connecting = FALSE])]
  /\ starting' = starting \ {i}
  /\ UNCHANGED <<file, offers, pending, servers, recs, runtime, coord, requested,
                 discovery, catalog, changes, ghosts>>

(* #handleDisconnect *)
Disconnects(i) ==
  /\ events < MaxEvents
  /\ events' = events + 1
  /\ obj[i].client
  /\ obj' = [obj EXCEPT ![i] = Reconnect([obj[i] EXCEPT !.client = FALSE])]
  /\ Cut(i)
  /\ UNCHANGED <<file, offers, pending, servers, starting, recs, runtime, coord, requested,
                 catalog, changes, ghosts>>

(* A connected server changes its tools and says so. *)
ToolsChange(i) ==
  /\ events < MaxEvents
  /\ events' = events + 1
  /\ obj[i].client
  /\ offers' = [offers EXCEPT ![obj[i].name] = ~@]
  /\ Invalidated
  /\ UNCHANGED <<file, pending, servers, obj, starting, recs, runtime, coord,
                 discovery, catalog, changes, overlap, disorder>>

RetryFires(i) ==
  /\ obj[i].timer
  /\ obj' = [obj EXCEPT ![i].timer = FALSE, ![i].connecting = TRUE]
  /\ UNCHANGED <<file, offers, pending, servers, starting, recs, runtime, coord, requested,
                 discovery, catalog, changes, events, ghosts>>

-----------------------------------------------------------------------------
(***************************************************************************)
(* McpExtensionRuntime.reconcile().                                        *)
(***************************************************************************)
(* An object nothing refers to any more. *)
Reusable(i) ==
  /\ obj[i] = Unused
  /\ \A n \in Names : servers[n] # i
  /\ i \notin discovery.visited

(* The objects for the names N, which are given one each. *)
Fresh(N) ==
  {f \in [N -> {i \in Objects : Reusable(i)}] : IsInjective(f) /\
     \A n \in N : \A i \in Objects : Reusable(i) /\ i < f[n] => \E m \in N : f[m] = i}

(* Mutant: a server of a known name is left as it is. *)
ChangedNever(conf) == {}

(* The servers conf no longer has, and those it changes. *)
Removed(conf) == {n \in Names : servers[n] # 0 /\ conf[n] = Off}
Changed(conf) ==
  {n \in Names : servers[n] # 0 /\ conf[n] # Off /\ obj[servers[n]].conf # conf[n]}

(* Mutant: an object that leaves #servers is not closed. *)
ReplacesOnly(N, conf, stop) ==
  \E f \in Fresh(N) :
    /\ obj' = [i \in Objects |->
         IF \E n \in N : f[n] = i
         THEN LET n == CHOOSE n \in N : f[n] = i IN Server(n, conf[n])
         ELSE obj[i]]
    /\ servers' = [n \in Names |-> IF n \in N THEN f[n]
                                   ELSE IF servers[n] \in stop THEN 0 ELSE servers[n]]

(* New objects are started for the names N, whatever #servers has for them, *)
(* and the objects in stop leave it and are closed.                         *)
Replaces(N, conf, stop) ==
  \E f \in Fresh(N) :
    /\ obj' = [i \in Objects |->
         IF \E n \in N : f[n] = i
         THEN LET n == CHOOSE n \in N : f[n] = i IN Server(n, conf[n])
         ELSE IF i \in stop THEN Closed(obj[i]) ELSE obj[i]]
    /\ servers' = [n \in Names |-> IF n \in N THEN f[n]
                                   ELSE IF servers[n] \in stop THEN 0 ELSE servers[n]]

(* reconcile(conf) has created the servers N anew and runs on: it stops the *)
(* next server, of those to remove first, and awaits its end; or it starts  *)
(* what is missing and invalidates.                                         *)
Proceeds(rest, conf, remove, restart, N) ==
  \/ \E n \in (IF remove # {} THEN remove ELSE restart) :
       /\ Replaces(N, conf, {servers[n]})
       /\ recs' = rest \cup {[conf |-> conf, remove |-> remove \ {n},
                              restart |-> restart \ {n}, stopping |-> n]}
       /\ Cut(servers[n])
       /\ UNCHANGED <<requested, unheard>>
  \/ /\ remove \cup restart = {}
     /\ Replaces(N \cup {n \in Names : conf[n] # Off /\ servers[n] = 0}, conf, {})
     /\ recs' = rest
     /\ Invalidated
     /\ UNCHANGED discovery

(* The file changes, and resolveLayeredConfig reads it. *)
Changes(conf) ==
  /\ runtime = "open"
  /\ changes < MaxChanges
  /\ changes' = changes + 1
  /\ conf # file
  /\ file' = conf
  /\ pending' = Append(pending, conf)
  /\ UNCHANGED <<offers, servers, obj, starting, recs, runtime, coord, requested, discovery,
                 catalog, events, ghosts>>

(* The watch emits a configuration that was read; reconcile() begins. *)
Emits(i) ==
  /\ pending' = RemoveAt(pending, i)
  /\ disorder' = (disorder \/ i # 1)
  /\ overlap' = (overlap \/ recs # {})
  /\ Proceeds(recs, pending[i], Removed(pending[i]), Changed(pending[i]), {})
  /\ UNCHANGED <<file, offers, starting, runtime, coord, catalog, changes, events>>

(* The connection a reconcile() awaits is closed. *)
Resumes(r) ==
  /\ Proceeds(recs \ {r}, r.conf, r.remove, r.restart,
              IF r.conf[r.stopping] = Off THEN {} ELSE {r.stopping})
  /\ UNCHANGED <<file, offers, pending, starting, runtime, coord, catalog, changes, events,
                 overlap, disorder>>

-----------------------------------------------------------------------------
(***************************************************************************)
(* The coordinator, and discover().                                        *)
(***************************************************************************)
(* runtime.start() has awaited the first connection of every server. *)
Starts ==
  /\ coord = "starting"
  /\ starting = {}
  /\ coord' = "initial"
  /\ discovery' = Discovering
  /\ UNCHANGED <<file, offers, pending, servers, obj, starting, recs, runtime, requested,
                 catalog, changes, events, ghosts>>

(* #drainRefreshes takes the next refresh. *)
Refreshes ==
  /\ coord = "on"
  /\ requested
  /\ ~discovery.on
  /\ requested' = FALSE
  /\ discovery' = Discovering
  /\ UNCHANGED <<file, offers, pending, servers, obj, starting, recs, runtime, coord,
                 catalog, changes, events, ghosts>>

(* discover() has failed: the catalog stays; at first it ends the activation. *)
Fails ==
  /\ discovery' = NoDiscovery
  /\ coord' = IF coord = "initial" THEN "failed" ELSE coord

(* discover() goes on with the next server; one that is disconnected is     *)
(* left out, unless its tools are known, which fails the discovery.         *)
Visits(i) ==
  /\ discovery.on /\ discovery.asked = 0
  /\ i \notin discovery.visited
  /\ \E n \in Names : servers[n] = i
  /\ IF obj[i].client
     THEN discovery' = [discovery EXCEPT !.asked = i, !.visited = @ \cup {i}] /\ UNCHANGED coord
     ELSE IF obj[i].snapshot
          THEN Fails
          ELSE discovery' = [discovery EXCEPT !.visited = @ \cup {i}] /\ UNCHANGED coord
  /\ UNCHANGED <<file, offers, pending, servers, obj, starting, recs, runtime, requested,
                 catalog, changes, events, ghosts>>

(* tools/list is answered. *)
Lists ==
  /\ discovery.asked # 0 /\ ~discovery.cut
  /\ discovery' = [discovery EXCEPT !.got = @ \cup {ToolsOf(discovery.asked)}, !.asked = 0]
  /\ UNCHANGED <<file, offers, pending, servers, obj, starting, recs, runtime, coord,
                 requested, catalog, changes, events, ghosts>>

(* tools/list fails, with its connection or alone: its client is closed, *)
(* which #handleDisconnect hears.                                        *)
ListFails ==
  /\ discovery.asked # 0
  /\ \/ discovery.cut /\ UNCHANGED <<events, obj>>
     \/ /\ ~discovery.cut /\ events < MaxEvents
        /\ events' = events + 1
        /\ obj' = [obj EXCEPT ![discovery.asked] = Reconnect([@ EXCEPT !.client = FALSE])]
  /\ Fails
  /\ UNCHANGED <<file, offers, pending, servers, starting, recs, runtime, requested, catalog,
                 changes, ghosts>>

(* #discoverAndCommit: two tools of one name are refused. *)
Commits ==
  /\ discovery.on /\ discovery.asked = 0
  /\ \A n \in Names : servers[n] # 0 => servers[n] \in discovery.visited
  /\ IF \E a, b \in discovery.got : a # b /\ a.name = b.name
     THEN Fails /\ UNCHANGED catalog
     ELSE /\ catalog' = discovery.got
          /\ discovery' = NoDiscovery
          /\ coord' = IF coord = "initial" THEN "subscribing" ELSE coord
  /\ UNCHANGED <<file, offers, pending, servers, obj, starting, recs, runtime, requested,
                 changes, events, ghosts>>

Subscribes ==
  /\ coord = "subscribing"
  /\ coord' = "on"
  /\ UNCHANGED <<file, offers, pending, servers, obj, starting, recs, runtime, requested,
                 discovery, catalog, changes, events, ghosts>>

-----------------------------------------------------------------------------
(***************************************************************************)
(* The end of the agent, or of an activation that failed.                  *)
(***************************************************************************)
(* disposeExtensions: the coordinator, then McpExtensionRuntime.close(), *)
(* which also ends the watch.                                            *)
Closes ==
  /\ coord \in {"on", "failed"}
  /\ coord' = "closed"
  /\ runtime' = "closing"
  /\ overlap' = (overlap \/ recs # {})
  /\ obj' = [i \in Objects |->
       IF \E n \in Names : servers[n] = i THEN Closed(obj[i]) ELSE obj[i]]
  /\ requested' = FALSE
  /\ discovery' = NoDiscovery
  /\ pending' = <<>>
  /\ catalog' = {}
  /\ UNCHANGED <<file, offers, servers, starting, recs, changes, events,
                 disorder, unheard>>

CloseEnds ==
  /\ runtime = "closing"
  /\ runtime' = "closed"
  /\ servers' = [n \in Names |-> 0]
  /\ UNCHANGED <<file, offers, pending, obj, starting, recs, coord, requested, discovery,
                 catalog, changes, events, ghosts>>

-----------------------------------------------------------------------------
Init ==
  /\ file \in Configurations
  /\ offers = [n \in Names |-> FALSE]
  /\ pending = <<>>
  /\ \E N \in {{n \in Names : file[n] # Off}} : \E f \in [N -> Objects] :
       /\ \A n \in N : f[n] <= Cardinality(N)
       /\ IsInjective(f)
       /\ servers = [n \in Names |-> IF n \in N THEN f[n] ELSE 0]
       /\ obj = [i \in Objects |->
            IF \E n \in N : f[n] = i
            THEN LET n == CHOOSE n \in N : f[n] = i IN Server(n, file[n])
            ELSE Unused]
       /\ starting = {f[n] : n \in N}
  /\ recs = {}
  /\ runtime = "open"
  /\ coord = "starting"
  /\ requested = FALSE
  /\ discovery = NoDiscovery
  /\ catalog = {}
  /\ changes = 0
  /\ events = 0
  /\ overlap = FALSE
  /\ disorder = FALSE
  /\ unheard = FALSE

ServerStep(i) ==
  Connects(i) \/ ConnectFails(i) \/ Disconnects(i) \/ ToolsChange(i) \/ RetryFires(i)

CoordinatorStep ==
  \/ Starts \/ Refreshes \/ Lists \/ ListFails \/ Commits \/ Subscribes
  \/ \E i \in Objects : Visits(i)

Next ==
  \/ \E i \in Objects : ServerStep(i)
  \/ \E conf \in Configurations : Changes(conf)
  \/ \E i \in DOMAIN pending : Emits(i)
  \/ \E r \in recs : Resumes(r)
  \/ CoordinatorStep
  \/ Closes \/ CloseEnds

Spec == Init /\ [][Next]_vars

Fairness ==
  /\ \A i \in Objects : WF_vars(Connects(i) \/ ConnectFails(i)) /\ WF_vars(RetryFires(i))
  /\ WF_vars(\E i \in DOMAIN pending : Emits(i))
  /\ WF_vars(\E r \in recs : Resumes(r))
  /\ WF_vars(CoordinatorStep)
  /\ WF_vars(CloseEnds)

FairSpec == Spec /\ Fairness

-----------------------------------------------------------------------------
(***************************************************************************)
(* Properties.                                                             *)
(***************************************************************************)
InUse == {i \in Objects : ~obj[i].closed}
Serving == {servers[n] : n \in Names} \ {0}

(* The types of the variables; start() awaits only attempts under way, a      *)
(* server is kept under its own name, and a discovery asks one it visits.     *)
TypeOK ==
  /\ file \in Configurations
  /\ offers \in [Names -> BOOLEAN]
  /\ pending \in Seq(Configurations)
  /\ servers \in [Names -> 0..MaxServers]
  /\ \A i \in Objects :
       /\ obj[i].name \in Names \cup {Off} /\ obj[i].conf \in Versions \cup {Off}
       /\ {obj[i].connecting, obj[i].closed, obj[i].client, obj[i].timer,
           obj[i].snapshot} \subseteq BOOLEAN
  /\ \A i \in starting : obj[i].connecting
  /\ runtime = "open" => \A n \in Names : servers[n] # 0 => obj[servers[n]].name = n
  /\ runtime \in {"open", "closing", "closed"}
  /\ coord \in {"starting", "initial", "subscribing", "on", "failed", "closed"}
  /\ discovery.asked # 0 => discovery.asked \in discovery.visited
  /\ discovery.visited \subseteq Objects
  /\ requested => coord = "on"

(* A server of the Session that is not closed has exactly one of a connection, *)
(* an attempt and a retry timer: however connections fail, end or are refused,  *)
(* none is forgotten and none is doubled.  A closed one has no connection and   *)
(* no timer: an attempt that close() overtakes never becomes a connection       *)
(* (connect, openConnection, handleDisconnect, scheduleReconnect and close).    *)
OneConnection ==
  \A i \in Objects :
    /\ ~obj[i].closed => obj[i].client \/ obj[i].connecting \/ obj[i].timer
    /\ obj[i].client => ~obj[i].connecting /\ ~obj[i].timer
    /\ obj[i].timer => ~obj[i].connecting
    /\ obj[i].closed => ~obj[i].client /\ ~obj[i].timer

(* As long as no reconcile() runs during another one or during close(), every *)
(* server that runs is the one the runtime knows by its name, and so the one  *)
(* close() will stop.                                                         *)
NothingLeaks == ~overlap => \A i \in InUse : servers[obj[i].name] = i

(* When every change has been read in order and reconciled, one at a time, the *)
(* servers are those of the file, each with its configuration there.           *)
FollowsConfiguration ==
  pending = <<>> /\ recs = {} /\ runtime = "open" /\ ~overlap /\ ~disorder =>
    \A n \in Names : IF file[n] = Off THEN servers[n] = 0
                     ELSE servers[n] # 0 /\ obj[servers[n]].conf = file[n]

(* When no refresh is due, the catalog of the agent holds the tools of the    *)
(* connected servers as they are now: no connection, restart, removal or      *)
(* change of tools during a discovery is lost.  Two cases are excepted that   *)
(* the code does lose: an invalidation before the subscription, and a server  *)
(* that has been connected and is not, which fails every discovery.           *)
CatalogFollows ==
  (/\ coord = "on" /\ ~requested /\ ~discovery.on /\ ~unheard /\ recs = {}
   /\ \A i \in Serving : obj[i].snapshot => obj[i].client)
  => catalog = {ToolsOf(i) : i \in {j \in Serving : obj[j].client}}

(* After close() no connection, attempt or timer is left for ever, unless a *)
(* reconcile() ran during another one or during close().                    *)
ClosedIsReleased ==
  runtime = "closed" ~> overlap \/ \A i \in Objects : obj[i] = Unused
=============================================================================
