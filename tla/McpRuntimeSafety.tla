--------------------------- MODULE McpRuntimeSafety ---------------------------
(***************************************************************************)
(* Theorems about McpRuntime: for any servers, configurations, failures    *)
(* and changes, no server is forgotten, none has two connections, and      *)
(* without overlapping reconcile() calls none runs unknown.                *)
(***************************************************************************)
EXTENDS McpRuntime, SequenceTheorems, TLAPS

ObjectSet ==
  [name : Names \cup {Off}, conf : Versions \cup {Off}, closed : BOOLEAN,
   connecting : BOOLEAN, client : BOOLEAN, timer : BOOLEAN, snapshot : BOOLEAN]

(* An object has one of a connection, an attempt and a timer, and only an *)
(* attempt once it is closed.                                             *)
Sound(o) ==
  /\ o.client => ~o.connecting /\ ~o.timer
  /\ o.timer => ~o.connecting
  /\ o.closed => ~o.client /\ ~o.timer
  /\ ~o.closed => o.name \in Names /\ (o.client \/ o.connecting \/ o.timer)

Good == {o \in ObjectSet : Sound(o)}

Tools == [name : Names, conf : Versions \cup {Off}, tools : BOOLEAN]
DiscoverySet ==
  [on : BOOLEAN, visited : SUBSET Objects, got : SUBSET Tools, asked : 0..MaxServers,
   cut : BOOLEAN]
ReconcileSet ==
  [conf : Configurations, remove : SUBSET Names, restart : SUBSET Names, stopping : Names]

ServerTypes ==
  /\ obj \in [Objects -> Good]
  /\ servers \in [Names -> 0..MaxServers]
  /\ starting \subseteq Objects
  /\ \A i \in starting : obj[i].connecting

ChangeTypes ==
  /\ file \in Configurations
  /\ offers \in [Names -> BOOLEAN]
  /\ pending \in Seq(Configurations)
  /\ recs \subseteq ReconcileSet
  /\ runtime \in {"open", "closing", "closed"}
  /\ coord \in {"starting", "initial", "subscribing", "on", "failed", "closed"}
  /\ requested => coord = "on"

(* The object a discovery has asked is connected until that is cut. *)
DiscoveryInv ==
  /\ discovery \in DiscoverySet
  /\ discovery.asked # 0 =>
       discovery.asked \in discovery.visited /\ (~discovery.cut => obj[discovery.asked].client)

(* As long as the runtime is open, what it knows by a name runs under it. *)
KnownInv ==
  runtime = "open" =>
    \A n \in Names : servers[n] # 0 => obj[servers[n]].name = n /\ ~obj[servers[n]].closed

(* A reconcile() alone has stopped a server the runtime does not know any  *)
(* more, and will stop some that it does; after close() nothing runs, and  *)
(* nothing is left that would start it.                                    *)
AloneInv ==
  /\ \A r, q \in recs : r = q
  /\ \A r \in recs : servers[r.stopping] = 0 /\ \A n \in r.remove \cup r.restart : servers[n] # 0
  /\ \A i \in InUse : servers[obj[i].name] = i
  /\ runtime # "open" => recs = {} /\ pending = <<>> /\ InUse = {}

Inv == ServerTypes /\ ChangeTypes /\ DiscoveryInv /\ KnownInv /\ (~overlap => AloneInv)

-----------------------------------------------------------------------------
(***************************************************************************)
(* What the operators on objects keep.                                     *)
(***************************************************************************)
LEMMA UnusedGood == Unused \in Good /\ Unused.closed
  BY DEF Unused, Good, ObjectSet, Sound

LEMMA ServerGood ==
  ASSUME NEW n \in Names, NEW c \in Versions \cup {Off}
  PROVE  /\ Server(n, c) \in Good /\ Server(n, c).name = n /\ ~Server(n, c).closed
         /\ Server(n, c).connecting
  BY DEF Server, Good, ObjectSet, Sound

LEMMA ClosedGood ==
  ASSUME NEW o \in Good
  PROVE  Closed(o) \in Good /\ Closed(o).closed /\ (o.connecting => Closed(o).connecting)
<1>1. CASE ~o.connecting
  BY <1>1, UnusedGood DEF Closed
<1>2. CASE o.connecting
  <2> DEFINE c == [o EXCEPT !.closed = TRUE, !.timer = FALSE, !.client = FALSE]
  <2>1. c \in ObjectSet /\ c.closed /\ ~c.timer /\ ~c.client /\ c.connecting
    BY <1>2 DEF Good, ObjectSet
  <2> HIDE DEF c
  <2>2. c \in Good
    BY <2>1 DEF Good, Sound
  <2> QED BY <1>2, <2>1, <2>2 DEF Closed, c
<1> QED BY <1>1, <1>2

LEMMA ReconnectGood ==
  ASSUME NEW o \in ObjectSet, ~o.client, ~o.connecting, ~o.closed => o.name \in Names
  PROVE  /\ Reconnect(o) \in Good /\ Reconnect(o).closed = o.closed
         /\ ~o.closed => Reconnect(o).name = o.name
<1>1. CASE o.closed
  BY <1>1, UnusedGood DEF Reconnect, Unused
<1>2. CASE ~o.closed
  <2> DEFINE c == [o EXCEPT !.timer = TRUE]
  <2>1. c \in ObjectSet /\ c.timer /\ ~c.client /\ ~c.connecting /\ c.closed = o.closed
        /\ c.name = o.name
    BY DEF ObjectSet
  <2> HIDE DEF c
  <2>2. c \in Good
    BY <1>2, <2>1 DEF Good, Sound
  <2> QED BY <1>2, <2>1, <2>2 DEF Reconnect, c
<1> QED BY <1>1, <1>2

LEMMA ZeroIsNoObject == 0 \notin Objects /\ Objects \subseteq 0..MaxServers
  BY McpAssumption DEF Objects

(* One object is started for each name of N, which was not in use, those of *)
(* stop are closed, and the others and what a discovery has visited are left *)
(* alone.                                                                    *)
Replaced(N, stop) ==
  /\ obj' \in [Objects -> Good] /\ servers' \in [Names -> 0..MaxServers]
  /\ \A i \in Objects : obj[i].connecting => obj'[i].connecting
  /\ \A i \in discovery.visited : i \notin stop => obj'[i] = obj[i]
  /\ \A n \in N : servers'[n] # 0 /\ obj'[servers'[n]].name = n /\ ~obj'[servers'[n]].closed
  /\ \A n \in Names \ N :
       /\ servers'[n] = IF servers[n] \in stop THEN 0 ELSE servers[n]
       /\ servers'[n] # 0 => obj'[servers'[n]] = obj[servers[n]]
  /\ \A i \in Objects : ~obj'[i].closed =>
       \/ obj'[i].name \in N /\ servers'[obj'[i].name] = i
       \/ obj'[i] = obj[i] /\ i \notin stop

LEMMA ReplacesKeeps ==
  ASSUME Inv, NEW N \in SUBSET Names, NEW conf \in Configurations, NEW stop,
         Replaces(N, conf, stop)
  PROVE  Replaced(N, stop)
<1>1. PICK f \in Fresh(N) :
        /\ obj' = [i \in Objects |->
             IF \E n \in N : f[n] = i
             THEN LET n == CHOOSE n \in N : f[n] = i IN Server(n, conf[n])
             ELSE IF i \in stop THEN Closed(obj[i]) ELSE obj[i]]
        /\ servers' = [n \in Names |-> IF n \in N THEN f[n]
                                       ELSE IF servers[n] \in stop THEN 0 ELSE servers[n]]
  BY DEF Replaces
<1>2. f \in [N -> Objects] /\ (\A n \in N : Reusable(f[n]))
      /\ (\A m, n \in N : f[m] = f[n] => m = n)
  BY DEF Fresh, IsInjective
<1>3. \A n \in N : f[n] \in Objects /\ obj[f[n]] = Unused /\ f[n] \notin discovery.visited
                 /\ \A m \in Names : servers[m] # f[n]
  BY <1>2 DEF Reusable
<1>4. \A n \in Names : conf[n] \in Versions \cup {Off}
  BY McpAssumption
<1>5. ASSUME NEW n \in N
      PROVE  obj'[f[n]] = Server(n, conf[n]) /\ servers'[n] = f[n]
  <2>1. (CHOOSE m \in N : f[m] = f[n]) = n
    BY <1>2
  <2> QED BY <1>1, <1>2, <2>1
<1>6. ASSUME NEW i \in Objects, \A n \in N : f[n] # i
      PROVE  obj'[i] = IF i \in stop THEN Closed(obj[i]) ELSE obj[i]
  BY <1>1, <1>6
<1>7. ASSUME NEW i \in Objects
      PROVE  obj'[i] \in Good /\ (obj[i].connecting => obj'[i].connecting)
  <2>1. obj[i] \in Good
    BY DEF Inv, ServerTypes
  <2>2. CASE \E n \in N : f[n] = i
    BY <2>2, <1>4, <1>5, ServerGood
  <2>3. CASE \A n \in N : f[n] # i
    BY <2>1, <2>3, <1>6, ClosedGood
  <2> QED BY <2>2, <2>3
<1>8. obj' \in [Objects -> Good]
  BY <1>1, <1>7
<1>9. servers' \in [Names -> 0..MaxServers]
  <2>1. \A n \in Names : servers[n] \in 0..MaxServers /\ 0 \in 0..MaxServers
    BY McpAssumption DEF Inv, ServerTypes
  <2>2. \A n \in N : f[n] \in 0..MaxServers
    BY <1>2, ZeroIsNoObject
  <2> QED BY <1>1, <2>1, <2>2
<1>10. ASSUME NEW n \in N
       PROVE  servers'[n] # 0 /\ obj'[servers'[n]].name = n /\ ~obj'[servers'[n]].closed
  BY <1>2, <1>4, <1>5, ServerGood, ZeroIsNoObject
<1>11. ASSUME NEW n \in Names \ N
       PROVE  /\ servers'[n] = IF servers[n] \in stop THEN 0 ELSE servers[n]
              /\ servers'[n] # 0 => obj'[servers'[n]] = obj[servers[n]]
  <2>1. servers'[n] = IF servers[n] \in stop THEN 0 ELSE servers[n]
    BY <1>1
  <2>2. ASSUME servers'[n] # 0 PROVE obj'[servers'[n]] = obj[servers[n]]
    <3>1. servers'[n] = servers[n] /\ servers[n] \notin stop /\ servers[n] \in Objects
      BY <2>1, <2>2 DEF Inv, ServerTypes, Objects
    <3> QED BY <1>3, <1>6, <3>1
  <2> QED BY <2>1, <2>2
<1>12. \A i \in discovery.visited : i \notin stop => obj'[i] = obj[i]
  BY <1>3, <1>6 DEF Inv, DiscoveryInv, DiscoverySet
<1>13. ASSUME NEW i \in Objects, ~obj'[i].closed
       PROVE  \/ obj'[i].name \in N /\ servers'[obj'[i].name] = i
              \/ obj'[i] = obj[i] /\ i \notin stop
  <2>1. CASE \E n \in N : f[n] = i
    BY <2>1, <1>4, <1>5, ServerGood
  <2>2. CASE \A n \in N : f[n] # i
    BY <2>2, <1>6, <1>13, ClosedGood DEF Inv, ServerTypes
  <2> QED BY <2>1, <2>2
<1> QED BY <1>7, <1>8, <1>9, <1>10, <1>11, <1>12, <1>13 DEF Replaced

-----------------------------------------------------------------------------
(***************************************************************************)
(* reconcile().                                                            *)
(***************************************************************************)
(* What a reconcile() that is about to proceed knows, when it is alone. *)
AloneBefore(rest, remove, restart, N) ==
  /\ rest = {} /\ runtime = "open"
  /\ \A n \in N : servers[n] = 0
  /\ \A n \in remove \cup restart : servers[n] # 0
  /\ \A i \in InUse : servers[obj[i].name] = i

LEMMA ProceedsTypes ==
  ASSUME Inv, NEW rest, rest \subseteq ReconcileSet, NEW conf \in Configurations,
         NEW remove \in SUBSET Names, NEW restart \in SUBSET Names, NEW N \in SUBSET Names,
         Proceeds(rest, conf, remove, restart, N),
         UNCHANGED <<starting, runtime, coord>>
  PROVE  ServerTypes' /\ recs' \subseteq ReconcileSet /\ (requested' => coord' = "on")
         /\ DiscoveryInv' /\ KnownInv'
<1>1. ASSUME NEW M \in SUBSET Names, NEW stop, Replaces(M, conf, stop)
      PROVE  ServerTypes' /\ KnownInv'
  <2>1. Replaced(M, stop)
    BY <1>1, ReplacesKeeps
  <2>2. ServerTypes'
    BY <2>1 DEF Replaced, Inv, ServerTypes
  <2>3. ASSUME runtime = "open", NEW n \in Names, servers'[n] # 0
        PROVE  obj'[servers'[n]].name = n /\ ~obj'[servers'[n]].closed
    BY <2>1, <2>3 DEF Replaced, Inv, KnownInv
  <2> QED BY <2>2, <2>3 DEF KnownInv
<1>2. CASE \E n \in (IF remove # {} THEN remove ELSE restart) :
             /\ Replaces(N, conf, {servers[n]})
             /\ recs' = rest \cup {[conf |-> conf, remove |-> remove \ {n},
                                    restart |-> restart \ {n}, stopping |-> n]}
             /\ Cut(servers[n])
             /\ UNCHANGED <<requested, unheard>>
  <2>1. PICK n \in remove \cup restart :
             /\ Replaces(N, conf, {servers[n]})
             /\ recs' = rest \cup {[conf |-> conf, remove |-> remove \ {n},
                                    restart |-> restart \ {n}, stopping |-> n]}
             /\ Cut(servers[n])
             /\ UNCHANGED <<requested, unheard>>
    BY <1>2
  <2>2. recs' \subseteq ReconcileSet
    BY <2>1 DEF ReconcileSet
  <2>3. requested' => coord' = "on"
    BY <2>1 DEF Inv, ChangeTypes
  <2>4. DiscoveryInv'
    <3>1. discovery' = [discovery EXCEPT
            !.cut = @ \/ (discovery.asked # 0 /\ discovery.asked = servers[n])]
      BY <2>1 DEF Cut
    <3>2. discovery' \in DiscoverySet /\ discovery'.asked = discovery.asked
          /\ discovery'.visited = discovery.visited
          /\ (~discovery'.cut => ~discovery.cut /\
               (discovery.asked = 0 \/ discovery.asked # servers[n]))
      BY <3>1 DEF Inv, DiscoveryInv, DiscoverySet
    <3>3. ASSUME discovery.asked # 0, ~discovery'.cut PROVE obj'[discovery.asked].client
      <4>1. Replaced(N, {servers[n]})
        BY <2>1, ReplacesKeeps
      <4> QED BY <3>2, <3>3, <4>1 DEF Replaced, Inv, DiscoveryInv
    <3> QED BY <3>2, <3>3 DEF DiscoveryInv, Inv
  <2> QED BY <1>1, <2>1, <2>2, <2>3, <2>4
<1>3. CASE /\ remove \cup restart = {}
           /\ Replaces(N \cup {n \in Names : conf[n] # Off /\ servers[n] = 0}, conf, {})
           /\ recs' = rest
           /\ Invalidated
           /\ UNCHANGED discovery
  <2> DEFINE M == N \cup {n \in Names : conf[n] # Off /\ servers[n] = 0}
  <2>1. M \in SUBSET Names /\ Replaces(M, conf, {})
    BY <1>3
  <2> HIDE DEF M
  <2>2. requested' => coord' = "on"
    BY <1>3 DEF Invalidated, Inv, ChangeTypes
  <2>3. DiscoveryInv'
    <3>1. Replaced(M, {})
      BY <2>1, ReplacesKeeps
    <3> QED BY <1>3, <3>1 DEF Replaced, Inv, DiscoveryInv
  <2> QED BY <1>1, <1>3, <2>1, <2>2, <2>3
<1> QED BY <1>2, <1>3 DEF Proceeds

LEMMA ProceedsAlone ==
  ASSUME Inv, NEW rest, NEW conf \in Configurations,
         NEW remove \in SUBSET Names, NEW restart \in SUBSET Names, NEW N \in SUBSET Names,
         Proceeds(rest, conf, remove, restart, N), UNCHANGED runtime,
         AloneBefore(rest, remove, restart, N)
  PROVE  AloneInv'
<1> USE DEF AloneBefore
<1>1. ASSUME NEW M \in SUBSET Names, \A n \in M : servers[n] = 0,
             NEW stop, 0 \notin stop, Replaces(M, conf, stop)
      PROVE  \A i \in InUse' : servers'[obj'[i].name] = i
  <2> TAKE i \in InUse'
  <2>0. Replaced(M, stop)
    BY <1>1, ReplacesKeeps
  <2>1. i \in Objects /\ ~obj'[i].closed
    BY DEF InUse
  <2>2. CASE obj'[i].name \in M /\ servers'[obj'[i].name] = i
    BY <2>2
  <2>3. CASE obj'[i] = obj[i] /\ i \notin stop
    <3>1. servers[obj[i].name] = i /\ obj[i].name \in Names
      BY <2>1, <2>3 DEF InUse, Inv, ServerTypes, Good, Sound
    <3>2. obj[i].name \notin M
      BY <1>1, <2>1, <3>1, ZeroIsNoObject
    <3> QED BY <2>0, <2>3, <3>1, <3>2 DEF Replaced
  <2> QED BY <2>0, <2>1, <2>2, <2>3 DEF Replaced
<1>2. CASE \E n \in (IF remove # {} THEN remove ELSE restart) :
             /\ Replaces(N, conf, {servers[n]})
             /\ recs' = rest \cup {[conf |-> conf, remove |-> remove \ {n},
                                    restart |-> restart \ {n}, stopping |-> n]}
  <2>1. PICK n \in remove \cup restart :
             /\ Replaces(N, conf, {servers[n]})
             /\ recs' = {[conf |-> conf, remove |-> remove \ {n},
                          restart |-> restart \ {n}, stopping |-> n]}
    BY <1>2
  <2>2. n \in Names /\ servers[n] # 0 /\ n \notin N
    BY <2>1
  <2>0. Replaced(N, {servers[n]})
    BY <2>1, ReplacesKeeps
  <2>3. servers'[n] = 0
    BY <2>0, <2>2 DEF Replaced
  <2>4. ASSUME NEW m \in (remove \cup restart) \ {n} PROVE servers'[m] # 0
    <3>1. servers[m] # 0 /\ servers[m] # servers[n]
      BY <2>2, <2>4 DEF Inv, KnownInv
    <3> QED BY <2>0, <2>4, <3>1 DEF Replaced
  <2>5. \A i \in InUse' : servers'[obj'[i].name] = i
    BY <1>1, <2>1, <2>2
  <2> QED BY <2>1, <2>3, <2>4, <2>5 DEF AloneInv
<1>3. CASE /\ Replaces(N \cup {n \in Names : conf[n] # Off /\ servers[n] = 0}, conf, {})
           /\ recs' = rest
  <2> DEFINE M == N \cup {n \in Names : conf[n] # Off /\ servers[n] = 0}
  <2>1. M \in SUBSET Names /\ Replaces(M, conf, {}) /\ \A n \in M : servers[n] = 0
    BY <1>3
  <2> HIDE DEF M
  <2> QED BY <1>1, <1>3, <2>1 DEF AloneInv
<1> QED BY <1>2, <1>3 DEF Proceeds

LEMMA EmitsInv ==
  ASSUME Inv, NEW i \in DOMAIN pending, Emits(i)
  PROVE  Inv'
<1>1. i \in 1..Len(pending) /\ pending[i] \in Configurations /\ pending \in Seq(Configurations)
  BY DEF Inv, ChangeTypes
<1>2. Removed(pending[i]) \in SUBSET Names /\ Changed(pending[i]) \in SUBSET Names
      /\ {} \in SUBSET Names
  BY DEF Removed, Changed
<1>3. Proceeds(recs, pending[i], Removed(pending[i]), Changed(pending[i]), {})
      /\ UNCHANGED <<file, offers, starting, runtime, coord>>
  BY DEF Emits
<1>4. pending' \in Seq(Configurations)
  <2>1. SubSeq(pending, 1, i - 1) \in Seq(Configurations)
        /\ SubSeq(pending, i + 1, Len(pending)) \in Seq(Configurations)
    BY <1>1, SubSeqProperties, ElementOfSeq
  <2> QED BY <2>1, ConcatProperties DEF Emits, RemoveAt
<1>5. recs \subseteq ReconcileSet
  BY DEF Inv, ChangeTypes
<1>6. ServerTypes' /\ recs' \subseteq ReconcileSet /\ (requested' => coord' = "on")
      /\ DiscoveryInv' /\ KnownInv'
  BY <1>1, <1>2, <1>3, <1>5, ProceedsTypes
<1>7. ChangeTypes'
  BY <1>3, <1>4, <1>6 DEF Inv, ChangeTypes
<1>8. ASSUME ~overlap' PROVE AloneInv'
  <2>1. recs = {} /\ AloneInv
    BY <1>8 DEF Emits, Inv
  <2>2. runtime = "open"
    BY <1>1, <2>1 DEF AloneInv
  <2>3. AloneBefore(recs, Removed(pending[i]), Changed(pending[i]), {})
    BY <2>1, <2>2 DEF AloneBefore, AloneInv, Removed, Changed
  <2> QED BY <1>1, <1>2, <1>3, <2>3, ProceedsAlone
<1> QED BY <1>6, <1>7, <1>8 DEF Inv

LEMMA ResumesInv ==
  ASSUME Inv, NEW r \in recs, Resumes(r)
  PROVE  Inv'
<1> DEFINE N == IF r.conf[r.stopping] = Off THEN {} ELSE {r.stopping}
<1>1. r \in ReconcileSet /\ recs \ {r} \subseteq ReconcileSet
  BY DEF Inv, ChangeTypes
<1>2. r.conf \in Configurations /\ r.remove \in SUBSET Names /\ r.restart \in SUBSET Names
      /\ r.stopping \in Names /\ N \in SUBSET Names
  BY <1>1 DEF ReconcileSet
<1>3. Proceeds(recs \ {r}, r.conf, r.remove, r.restart, N)
      /\ UNCHANGED <<file, offers, pending, starting, runtime, coord, overlap>>
  BY DEF Resumes
<1>4. N \subseteq {r.stopping}
  OBVIOUS
<1> HIDE DEF N
<1>5. ServerTypes' /\ recs' \subseteq ReconcileSet /\ (requested' => coord' = "on")
      /\ DiscoveryInv' /\ KnownInv'
  BY <1>1, <1>2, <1>3, ProceedsTypes
<1>6. ChangeTypes'
  BY <1>3, <1>5 DEF Inv, ChangeTypes
<1>7. ASSUME ~overlap' PROVE AloneInv'
  <2>1. AloneInv
    BY <1>3, <1>7 DEF Inv
  <2>2. recs \ {r} = {} /\ runtime = "open"
    BY <2>1 DEF AloneInv
  <2>3. AloneBefore(recs \ {r}, r.remove, r.restart, N)
    BY <1>4, <2>1, <2>2 DEF AloneBefore, AloneInv
  <2> QED BY <1>2, <1>3, <2>3, ProceedsAlone
<1> QED BY <1>5, <1>6, <1>7 DEF Inv

-----------------------------------------------------------------------------
(***************************************************************************)
(* One object changes.                                                     *)
(***************************************************************************)
LEMMA OneObject ==
  ASSUME Inv, NEW i \in Objects, NEW o \in Good, obj' = [obj EXCEPT ![i] = o],
         o.closed = obj[i].closed, ~o.closed => o.name = obj[i].name,
         UNCHANGED <<servers, runtime, recs, pending>>
  PROVE  KnownInv' /\ (AloneInv => AloneInv')
<1>1. KnownInv'
  BY DEF Inv, ServerTypes, KnownInv, Objects
<1>2. \A j \in Objects : /\ obj'[j].closed = obj[j].closed
                        /\ ~obj[j].closed => obj'[j].name = obj[j].name
  BY DEF Inv, ServerTypes
<1>3. InUse' = InUse
  BY <1>2 DEF InUse
<1>4. ASSUME AloneInv PROVE AloneInv'
  BY <1>2, <1>3, <1>4 DEF AloneInv, InUse
<1> QED BY <1>1, <1>4

LEMMA ConnectsInv ==
  ASSUME Inv, NEW i \in Objects, Connects(i)
  PROVE  Inv'
<1>1. obj[i] \in Good /\ obj[i].connecting /\ ~obj[i].client /\ ~obj[i].timer
      /\ starting' = starting \ {i}
  BY DEF Inv, ServerTypes, Good, Sound, Connects
<1>2. PICK o \in Good : /\ obj' = [obj EXCEPT ![i] = o] /\ o.closed = obj[i].closed
                        /\ ~o.closed => o.name = obj[i].name
  <2>1. CASE obj[i].closed
    BY <2>1, UnusedGood DEF Connects, Accepted
  <2>2. CASE ~obj[i].closed
    <3> DEFINE o == [obj[i] EXCEPT !.connecting = FALSE, !.client = TRUE, !.snapshot = TRUE]
    <3>1. o \in ObjectSet /\ o.client /\ ~o.connecting /\ ~o.timer /\ ~o.closed
          /\ o.name = obj[i].name /\ o.name \in Names
      BY <1>1, <2>2 DEF Good, ObjectSet, Sound
    <3>2. obj' = [obj EXCEPT ![i] = o]
      BY <1>1, <2>2 DEF Connects, Accepted, Inv, ServerTypes
    <3>3. o.closed = obj[i].closed
      BY <1>1, <2>2 DEF Good, ObjectSet
    <3> HIDE DEF o
    <3>4. o \in Good
      BY <3>1 DEF Good, Sound
    <3> QED BY <3>1, <3>2, <3>3, <3>4
  <2> QED BY <2>1, <2>2
<1>3. UNCHANGED <<file, offers, pending, servers, recs, runtime, coord, discovery, overlap>>
      /\ (requested' => coord' = "on")
  BY DEF Connects, Invalidated, Inv, ChangeTypes
<1>4. ServerTypes'
  BY <1>1, <1>2, <1>3 DEF Inv, ServerTypes
<1>5. ChangeTypes'
  BY <1>3 DEF Inv, ChangeTypes
<1>6. DiscoveryInv'
  BY <1>1, <1>2, <1>3 DEF Inv, DiscoveryInv, ServerTypes
<1>7. KnownInv' /\ (AloneInv => AloneInv')
  BY <1>2, <1>3, OneObject
<1> QED BY <1>3, <1>4, <1>5, <1>6, <1>7 DEF Inv

LEMMA LosesInv ==
  ASSUME Inv, NEW i \in Objects, ConnectFails(i) \/ Disconnects(i)
  PROVE  Inv'
<1>1. obj[i] \in Good
  BY DEF Inv, ServerTypes
<1>2. PICK o \in Good : /\ obj' = [obj EXCEPT ![i] = o] /\ o.closed = obj[i].closed
                        /\ ~o.closed => o.name = obj[i].name
  <2>1. CASE ConnectFails(i)
    <3> DEFINE b == [obj[i] EXCEPT !.connecting = FALSE]
    <3>1. b \in ObjectSet /\ ~b.client /\ ~b.connecting /\ b.closed = obj[i].closed
          /\ b.name = obj[i].name /\ (~b.closed => b.name \in Names)
      BY <1>1, <2>1 DEF ConnectFails, Good, ObjectSet, Sound
    <3>2. obj' = [obj EXCEPT ![i] = Reconnect(b)]
      BY <2>1 DEF ConnectFails
    <3> HIDE DEF b
    <3> QED BY <3>1, <3>2, ReconnectGood
  <2>2. CASE Disconnects(i)
    <3> DEFINE b == [obj[i] EXCEPT !.client = FALSE]
    <3>1. b \in ObjectSet /\ ~b.client /\ ~b.connecting /\ b.closed = obj[i].closed
          /\ b.name = obj[i].name /\ (~b.closed => b.name \in Names)
      BY <1>1, <2>2 DEF Disconnects, Good, ObjectSet, Sound
    <3>2. obj' = [obj EXCEPT ![i] = Reconnect(b)]
      BY <2>2 DEF Disconnects
    <3> HIDE DEF b
    <3> QED BY <3>1, <3>2, ReconnectGood
  <2> QED BY <2>1, <2>2
<1>3. UNCHANGED <<file, offers, pending, servers, recs, runtime, coord, requested, overlap>>
  BY DEF ConnectFails, Disconnects, ghosts
<1>4. ServerTypes'
  <2>1. CASE ConnectFails(i)
    BY <1>2, <1>3, <2>1 DEF ConnectFails, Inv, ServerTypes
  <2>2. CASE Disconnects(i)
    <3>1. starting' = starting /\ ~obj[i].connecting
      BY <1>1, <2>2 DEF Disconnects, Good, Sound
    <3> QED BY <1>2, <1>3, <3>1 DEF Inv, ServerTypes
  <2> QED BY <2>1, <2>2
<1>5. ChangeTypes'
  BY <1>3 DEF Inv, ChangeTypes
<1>6. DiscoveryInv'
  <2>1. CASE ConnectFails(i)
    <3>1. ~obj[i].client /\ discovery' = discovery
      BY <1>1, <2>1 DEF ConnectFails, Good, Sound
    <3> QED BY <1>2, <3>1 DEF Inv, DiscoveryInv, ServerTypes
  <2>2. CASE Disconnects(i)
    <3>1. discovery' \in DiscoverySet /\ discovery'.asked = discovery.asked
          /\ discovery'.visited = discovery.visited
          /\ (~discovery'.cut => ~discovery.cut /\ (discovery.asked = 0 \/ discovery.asked # i))
      BY <2>2 DEF Disconnects, Cut, Inv, DiscoveryInv, DiscoverySet
    <3> QED BY <1>2, <3>1 DEF Inv, DiscoveryInv, ServerTypes
  <2> QED BY <2>1, <2>2
<1>7. KnownInv' /\ (AloneInv => AloneInv')
  BY <1>2, <1>3, OneObject
<1> QED BY <1>3, <1>4, <1>5, <1>6, <1>7 DEF Inv

LEMMA RetryInv ==
  ASSUME Inv, NEW i \in Objects, RetryFires(i)
  PROVE  Inv'
<1>1. obj[i] \in Good /\ obj[i].timer /\ ~obj[i].client /\ ~obj[i].closed
  BY DEF Inv, ServerTypes, Good, Sound, RetryFires
<1> DEFINE o == [obj[i] EXCEPT !.timer = FALSE, !.connecting = TRUE]
<1>2. o \in ObjectSet /\ ~o.client /\ o.connecting /\ ~o.timer /\ ~o.closed
      /\ o.closed = obj[i].closed /\ o.name = obj[i].name /\ o.name \in Names
  BY <1>1 DEF Good, ObjectSet, Sound
<1>3. obj' = [obj EXCEPT ![i] = o]
  BY <1>1 DEF RetryFires, Inv, ServerTypes
<1> HIDE DEF o
<1>4. o \in Good
  BY <1>2 DEF Good, Sound
<1>5. UNCHANGED <<file, offers, pending, servers, starting, recs, runtime, coord, requested,
                  discovery, overlap>>
  BY DEF RetryFires, ghosts
<1>6. ServerTypes' /\ ChangeTypes' /\ DiscoveryInv'
  BY <1>1, <1>2, <1>3, <1>4, <1>5 DEF Inv, ServerTypes, ChangeTypes, DiscoveryInv
<1>7. KnownInv' /\ (AloneInv => AloneInv')
  BY <1>1, <1>2, <1>3, <1>4, <1>5, OneObject
<1> QED BY <1>5, <1>6, <1>7 DEF Inv

LEMMA ToolsChangeInv ==
  ASSUME Inv, NEW i \in Objects, ToolsChange(i)
  PROVE  Inv'
<1>1. UNCHANGED <<file, pending, servers, obj, starting, recs, runtime, coord, discovery, overlap>>
  BY DEF ToolsChange
<1>2. obj[i] \in Good /\ obj[i].name \in Names
  BY DEF ToolsChange, Inv, ServerTypes, Good, Sound
<1>3. offers' \in [Names -> BOOLEAN]
  BY <1>2 DEF ToolsChange, Inv, ChangeTypes
<1>4. requested' => coord' = "on"
  BY <1>1 DEF ToolsChange, Invalidated, Inv, ChangeTypes
<1> QED BY <1>1, <1>3, <1>4
  DEF Inv, ServerTypes, ChangeTypes, DiscoveryInv, KnownInv, AloneInv, InUse

-----------------------------------------------------------------------------
(***************************************************************************)
(* The coordinator, the file and the end.                                  *)
(***************************************************************************)
LEMMA NoDiscoveryTypes ==
  /\ NoDiscovery \in DiscoverySet /\ NoDiscovery.asked = 0
  /\ Discovering \in DiscoverySet /\ Discovering.asked = 0
<1>1. NoDiscovery \in DiscoverySet /\ NoDiscovery.asked = 0
  BY McpAssumption DEF NoDiscovery, DiscoverySet
<1>2. [NoDiscovery EXCEPT !.on = TRUE] \in DiscoverySet
      /\ [NoDiscovery EXCEPT !.on = TRUE].asked = 0
  BY <1>1 DEF DiscoverySet
<1> QED BY <1>1, <1>2 DEF Discovering

(* A step that leaves the servers and reconcile() alone. *)
LEMMA ServersAlone ==
  ASSUME Inv, UNCHANGED <<file, offers, pending, servers, obj, starting, recs, runtime, overlap>>
  PROVE  ServerTypes' /\ KnownInv' /\ (~overlap' => AloneInv')
  BY DEF Inv, ServerTypes, KnownInv, AloneInv, InUse

LEMMA VisitsInv ==
  ASSUME Inv, NEW i \in Objects, Visits(i)
  PROVE  Inv'
<1>1. UNCHANGED <<file, offers, pending, servers, obj, starting, recs, runtime, requested, overlap>>
  BY DEF Visits, ghosts
<1>2. ChangeTypes'
  BY <1>1 DEF Visits, Fails, Inv, ChangeTypes
<1>3. DiscoveryInv'
  <2>1. i \in 0..MaxServers /\ i \in Objects
    BY ZeroIsNoObject
  <2>2. CASE obj[i].client
    <3>1. discovery' = [discovery EXCEPT !.asked = i, !.visited = @ \cup {i}]
      BY <2>2 DEF Visits
    <3>2. discovery' \in DiscoverySet /\ discovery'.asked = i /\ i \in discovery'.visited
      BY <2>1, <3>1 DEF Inv, DiscoveryInv, DiscoverySet
    <3> QED BY <1>1, <2>2, <3>2 DEF DiscoveryInv
  <2>3. CASE ~obj[i].client /\ obj[i].snapshot
    BY <2>3, NoDiscoveryTypes DEF Visits, Fails, DiscoveryInv
  <2>4. CASE ~obj[i].client /\ ~obj[i].snapshot
    <3>1. discovery' = [discovery EXCEPT !.visited = @ \cup {i}] /\ discovery.asked = 0
      BY <2>4 DEF Visits
    <3>2. discovery' \in DiscoverySet /\ discovery'.asked = 0
      BY <2>1, <3>1 DEF Inv, DiscoveryInv, DiscoverySet
    <3> QED BY <3>2 DEF DiscoveryInv
  <2> QED BY <2>2, <2>3, <2>4
<1> QED BY <1>1, <1>2, <1>3, ServersAlone DEF Inv

LEMMA ListsInv ==
  ASSUME Inv, Lists
  PROVE  Inv'
<1>1. UNCHANGED <<file, offers, pending, servers, obj, starting, recs, runtime, coord,
                  requested, overlap>>
  BY DEF Lists, ghosts
<1>2. ToolsOf(discovery.asked) \in Tools
  <2>1. discovery.asked \in Objects /\ obj[discovery.asked].client
    BY DEF Lists, Inv, DiscoveryInv, DiscoverySet
  <2>2. obj[discovery.asked] \in ObjectSet /\ obj[discovery.asked].name \in Names
    BY <2>1 DEF Inv, ServerTypes, Good, Sound
  <2> QED BY <2>2 DEF ToolsOf, Tools, ObjectSet, Inv, ChangeTypes
<1>3. discovery' = [discovery EXCEPT !.got = @ \cup {ToolsOf(discovery.asked)}, !.asked = 0]
  BY DEF Lists
<1>4. discovery' \in DiscoverySet /\ discovery'.asked = 0
  <2> DEFINE tools == ToolsOf(discovery.asked)
  <2> HIDE DEF tools
  <2>1. discovery' = [discovery EXCEPT !.got = @ \cup {tools}, !.asked = 0] /\ tools \in Tools
    BY <1>2, <1>3 DEF tools
  <2>2. 0 \in 0..MaxServers
    BY McpAssumption
  <2> QED BY <2>1, <2>2 DEF Inv, DiscoveryInv, DiscoverySet
<1> QED BY <1>1, <1>4, ServersAlone DEF Inv, ChangeTypes, DiscoveryInv

LEMMA ListFailsInv ==
  ASSUME Inv, ListFails
  PROVE  Inv'
<1>1. UNCHANGED <<file, offers, pending, servers, starting, recs, runtime, requested, overlap>>
      /\ discovery' = NoDiscovery
  BY DEF ListFails, Fails, ghosts
<1>2. ChangeTypes' /\ DiscoveryInv'
  BY <1>1, NoDiscoveryTypes DEF ListFails, Fails, Inv, ChangeTypes, DiscoveryInv
<1>3. CASE obj' = obj
  BY <1>1, <1>2, <1>3, ServersAlone DEF Inv
<1>4. CASE ~discovery.cut /\ obj' = [obj EXCEPT ![discovery.asked] =
                                       Reconnect([@ EXCEPT !.client = FALSE])]
  <2> DEFINE i == discovery.asked
  <2> DEFINE b == [obj[i] EXCEPT !.client = FALSE]
  <2>1. i \in Objects /\ obj[i] \in Good /\ obj[i].client
    BY <1>4 DEF ListFails, Inv, DiscoveryInv, DiscoverySet, ServerTypes
  <2>2. b \in ObjectSet /\ ~b.client /\ ~b.connecting /\ b.closed = obj[i].closed
        /\ b.name = obj[i].name /\ b.name \in Names /\ ~obj[i].connecting
    BY <2>1 DEF Good, ObjectSet, Sound
  <2>3. obj' = [obj EXCEPT ![i] = Reconnect(b)]
    BY <1>4
  <2> HIDE DEF b, i
  <2>4. PICK o \in Good : /\ obj' = [obj EXCEPT ![i] = o] /\ o.closed = obj[i].closed
                          /\ ~o.closed => o.name = obj[i].name
    BY <2>2, <2>3, ReconnectGood
  <2>5. ServerTypes'
    BY <1>1, <2>1, <2>2, <2>4 DEF Inv, ServerTypes
  <2>6. KnownInv' /\ (AloneInv => AloneInv')
    BY <1>1, <2>1, <2>4, OneObject
  <2> QED BY <1>1, <1>2, <2>5, <2>6 DEF Inv
<1> QED BY <1>3, <1>4 DEF ListFails

LEMMA CommitsInv ==
  ASSUME Inv, Starts \/ Refreshes \/ Commits \/ Subscribes
  PROVE  Inv'
<1>1. UNCHANGED <<file, offers, pending, servers, obj, starting, recs, runtime, overlap>>
  BY DEF Starts, Refreshes, Commits, Fails, Subscribes, ghosts
<1>2. ChangeTypes'
  BY <1>1 DEF Starts, Refreshes, Commits, Fails, Subscribes, Inv, ChangeTypes
<1>3. discovery' \in {NoDiscovery, Discovering, discovery}
  BY DEF Starts, Refreshes, Commits, Fails, Subscribes
<1>4. DiscoveryInv'
  BY <1>1, <1>3, NoDiscoveryTypes DEF Inv, DiscoveryInv
<1> QED BY <1>1, <1>2, <1>4, ServersAlone DEF Inv

LEMMA ChangesInv ==
  ASSUME Inv, NEW conf \in Configurations, Changes(conf)
  PROVE  Inv'
<1>1. UNCHANGED <<offers, servers, obj, starting, recs, runtime, coord, requested, discovery,
                  overlap>> /\ runtime = "open" /\ file' = conf
  BY DEF Changes, ghosts
<1>2. pending' \in Seq(Configurations)
  BY AppendProperties DEF Changes, Inv, ChangeTypes
<1> QED BY <1>1, <1>2
  DEF Inv, ServerTypes, ChangeTypes, DiscoveryInv, KnownInv, AloneInv, InUse

LEMMA ClosesInv ==
  ASSUME Inv, Closes
  PROVE  Inv'
<1>1. UNCHANGED <<file, offers, servers, starting, recs>>
      /\ runtime' = "closing" /\ coord' = "closed" /\ ~requested' /\ pending' = <<>>
      /\ discovery' = NoDiscovery
      /\ obj' = [i \in Objects |->
           IF \E n \in Names : servers[n] = i THEN Closed(obj[i]) ELSE obj[i]]
  BY DEF Closes
<1>2. ServerTypes'
  <2>1. \A i \in Objects : obj'[i] \in Good /\ (obj[i].connecting => obj'[i].connecting)
    BY <1>1, ClosedGood DEF Inv, ServerTypes
  <2> QED BY <1>1, <2>1 DEF Inv, ServerTypes
<1>3. ChangeTypes' /\ DiscoveryInv' /\ KnownInv'
  BY <1>1, NoDiscoveryTypes, EmptySeq DEF Inv, ChangeTypes, DiscoveryInv, KnownInv
<1>4. ASSUME ~overlap' PROVE AloneInv'
  <2>1. recs = {} /\ AloneInv
    BY <1>4 DEF Closes, Inv
  <2>2. ASSUME NEW i \in Objects, ~obj'[i].closed PROVE FALSE
    <3>1. (\A n \in Names : servers[n] # i) /\ obj'[i] = obj[i]
      BY <1>1, <2>2, ClosedGood DEF Inv, ServerTypes
    <3>2. servers[obj[i].name] = i /\ obj[i].name \in Names
      BY <2>1, <2>2, <3>1 DEF AloneInv, InUse, Inv, ServerTypes, Good, Sound
    <3> QED BY <3>1, <3>2
  <2>3. InUse' = {}
    BY <2>2 DEF InUse
  <2> QED BY <1>1, <2>1, <2>3 DEF AloneInv
<1> QED BY <1>2, <1>3, <1>4 DEF Inv

LEMMA CloseEndsInv ==
  ASSUME Inv, CloseEnds
  PROVE  Inv'
<1>1. UNCHANGED <<file, offers, pending, obj, starting, recs, coord, requested, discovery, overlap>>
      /\ runtime = "closing" /\ runtime' = "closed" /\ servers' = [n \in Names |-> 0]
  BY DEF CloseEnds, ghosts
<1>2. ServerTypes'
  BY <1>1, McpAssumption DEF Inv, ServerTypes
<1>3. ChangeTypes' /\ DiscoveryInv' /\ KnownInv'
  BY <1>1 DEF Inv, ChangeTypes, DiscoveryInv, KnownInv
<1>4. ASSUME AloneInv PROVE AloneInv'
  BY <1>1, <1>4 DEF AloneInv, InUse
<1> QED BY <1>1, <1>2, <1>3, <1>4 DEF Inv

LEMMA InitInv == Init => Inv
<1> SUFFICES ASSUME Init PROVE Inv
  OBVIOUS
<1>1. PICK N \in {{n \in Names : file[n] # Off}} : \E f \in [N -> Objects] :
       /\ IsInjective(f)
       /\ servers = [n \in Names |-> IF n \in N THEN f[n] ELSE 0]
       /\ obj = [i \in Objects |->
            IF \E n \in N : f[n] = i
            THEN LET n == CHOOSE n \in N : f[n] = i IN Server(n, file[n])
            ELSE Unused]
       /\ starting = {f[n] : n \in N}
  BY Zenon DEF Init
<1>2. PICK f \in [N -> Objects] :
       /\ IsInjective(f)
       /\ servers = [n \in Names |-> IF n \in N THEN f[n] ELSE 0]
       /\ obj = [i \in Objects |->
            IF \E n \in N : f[n] = i
            THEN LET n == CHOOSE n \in N : f[n] = i IN Server(n, file[n])
            ELSE Unused]
       /\ starting = {f[n] : n \in N}
  BY <1>1, Zenon
<1>3. N \subseteq Names
  OBVIOUS
<1>4. file \in Configurations /\ \A n \in Names : file[n] \in Versions \cup {Off}
  BY McpAssumption DEF Init
<1>5. ASSUME NEW n \in N PROVE f[n] \in Objects /\ obj[f[n]] = Server(n, file[n]) /\ servers[n] = f[n]
  <2>1. (CHOOSE m \in N : f[m] = f[n]) = n
    BY <1>2 DEF IsInjective
  <2> QED BY <1>2, <1>3, <2>1
<1>6. ASSUME NEW i \in Objects, \A n \in N : f[n] # i PROVE obj[i] = Unused
  BY <1>2, <1>6
<1>7. \A i \in Objects : obj[i] \in Good
  BY <1>3, <1>4, <1>5, <1>6, ServerGood, UnusedGood
<1>8. ServerTypes
  <2>1. servers \in [Names -> 0..MaxServers]
    <3>1. \A n \in N : f[n] \in 0..MaxServers
      BY ZeroIsNoObject
    <3>2. 0 \in 0..MaxServers
      BY McpAssumption
    <3> QED BY <1>2, <3>1, <3>2
  <2>2. starting \subseteq Objects /\ \A i \in starting : obj[i].connecting
    BY <1>2, <1>3, <1>4, <1>5, ServerGood
  <2> QED BY <1>2, <1>7, <2>1, <2>2 DEF ServerTypes
<1>9. ChangeTypes /\ DiscoveryInv
  BY <1>4, NoDiscoveryTypes, EmptySeq DEF Init, ChangeTypes, DiscoveryInv
<1>10. ASSUME NEW n \in Names, servers[n] # 0
      PROVE  obj[servers[n]].name = n /\ ~obj[servers[n]].closed
  BY <1>2, <1>3, <1>4, <1>5, <1>10, ServerGood
<1>11. \A i \in InUse : servers[obj[i].name] = i
  BY <1>3, <1>4, <1>5, <1>6, ServerGood, UnusedGood DEF InUse
<1>12. KnownInv /\ AloneInv
  BY <1>10, <1>11 DEF Init, KnownInv, AloneInv
<1> QED BY <1>8, <1>9, <1>12 DEF Inv

LEMMA InvStep ==
  ASSUME Inv, [Next]_vars
  PROVE  Inv'
<1>1. ASSUME NEW i \in Objects, ServerStep(i) PROVE Inv'
  BY <1>1, ConnectsInv, LosesInv, ToolsChangeInv, RetryInv DEF ServerStep
<1>2. ASSUME NEW conf \in Configurations, Changes(conf) PROVE Inv'
  BY <1>2, ChangesInv
<1>3. ASSUME NEW i \in DOMAIN pending, Emits(i) PROVE Inv'
  BY <1>3, EmitsInv
<1>4. ASSUME NEW r \in recs, Resumes(r) PROVE Inv'
  BY <1>4, ResumesInv
<1>5. CASE CoordinatorStep
  BY <1>5, CommitsInv, ListsInv, ListFailsInv, VisitsInv DEF CoordinatorStep
<1>6. CASE Closes \/ CloseEnds
  BY <1>6, ClosesInv, CloseEndsInv
<1>7. CASE UNCHANGED vars
  BY <1>7 DEF vars, Inv, ServerTypes, ChangeTypes, DiscoveryInv, KnownInv, AloneInv, InUse
<1> QED BY <1>1, <1>2, <1>3, <1>4, <1>5, <1>6, <1>7 DEF Next

LEMMA SpecInv == Spec => []Inv
<1>1. Init => Inv
  BY InitInv
<1>2. Inv /\ [Next]_vars => Inv'
  BY InvStep
<1> QED BY <1>1, <1>2, PTL DEF Spec

(***************************************************************************)
(* However connections fail, end or are refused, a server that is not      *)
(* closed has exactly one of a connection, an attempt and a retry timer,   *)
(* and a closed one neither a connection nor a timer, also when close()    *)
(* overtakes an attempt (ManagedMcpServer).                                *)
(***************************************************************************)
THEOREM OneConnectionEach == Spec => []OneConnection
<1>1. Inv => OneConnection
  BY DEF Inv, ServerTypes, OneConnection, Good, Sound
<1> QED BY <1>1, SpecInv, PTL

(***************************************************************************)
(* A server runs that the runtime does not know by its name only if a      *)
(* reconcile() ran during another one or during close(), for any servers   *)
(* and changes (McpExtensionRuntime).                                      *)
(***************************************************************************)
THEOREM OverlapAloneLeaks == Spec => []NothingLeaks
<1>1. Inv => NothingLeaks
  BY DEF Inv, AloneInv, NothingLeaks
<1> QED BY <1>1, SpecInv, PTL

(***************************************************************************)
(* Every reachable state is type correct: start() awaits only attempts     *)
(* under way, a server is kept under its own name, and only a coordinator  *)
(* that is on has a refresh due.                                           *)
(***************************************************************************)
THEOREM McpTypesCorrect == Spec => []TypeOK
<1>1. Inv => TypeOK
  <2> SUFFICES ASSUME Inv PROVE TypeOK
    OBVIOUS
  <2> USE DEF Inv, ServerTypes, ChangeTypes
  <2>1. ASSUME NEW i \in Objects
        PROVE  /\ obj[i].name \in Names \cup {Off} /\ obj[i].conf \in Versions \cup {Off}
               /\ {obj[i].connecting, obj[i].closed, obj[i].client, obj[i].timer,
                   obj[i].snapshot} \subseteq BOOLEAN
    BY DEF Good, ObjectSet
  <2>2. runtime = "open" => \A n \in Names : servers[n] # 0 => obj[servers[n]].name = n
    BY DEF KnownInv
  <2>3. /\ discovery.asked # 0 => discovery.asked \in discovery.visited
        /\ discovery.visited \subseteq Objects
    BY DEF DiscoveryInv, DiscoverySet
  <2> QED BY <2>1, <2>2, <2>3 DEF TypeOK
<1> QED BY <1>1, SpecInv, PTL

-----------------------------------------------------------------------------
(***************************************************************************)
(* The configuration.  A reconcile() alone has done its work for every     *)
(* name it will not stop, so that its end leaves the servers of its        *)
(* configuration; what was read last, and is not yet reconciled, is the    *)
(* file.                                                                   *)
(***************************************************************************)
Follows(conf) ==
  \A n \in Names : IF conf[n] = Off THEN servers[n] = 0
                   ELSE servers[n] # 0 /\ obj[servers[n]].conf = conf[n]

(* remove and restart are what is left to do for conf. *)
LeftToDo(conf, remove, restart) ==
  /\ \A n \in remove : conf[n] = Off
  /\ \A n \in restart : conf[n] # Off
  /\ \A n \in Names \ (remove \cup restart) :
       servers[n] # 0 => conf[n] # Off /\ obj[servers[n]].conf = conf[n]

FollowInv ==
  runtime = "open" /\ ~overlap /\ ~disorder =>
    /\ pending # <<>> => pending[Len(pending)] = file
    /\ pending = <<>> => \A r \in recs : r.conf = file
    /\ pending = <<>> /\ recs = {} => Follows(file)
    /\ \A r \in recs : LeftToDo(r.conf, r.remove, r.restart)

(* What an object in use is stays. *)
Kept ==
  \A i \in Objects : ~obj[i].closed => obj'[i].name = obj[i].name /\ obj'[i].conf = obj[i].conf

LEMMA FollowsOnly ==
  ASSUME Inv, FollowInv, Kept,
         UNCHANGED <<file, pending, servers, recs, runtime, overlap, disorder>>
  PROVE  FollowInv'
<1> SUFFICES ASSUME runtime = "open", ~overlap, ~disorder PROVE FollowInv'
  BY DEF FollowInv
<1>1. \A n \in Names : servers[n] # 0 => obj'[servers'[n]].conf = obj[servers[n]].conf
  BY DEF Kept, Inv, ServerTypes, KnownInv, Objects
<1>2. Follows(file) => Follows(file)'
  BY <1>1 DEF Follows
<1>3. ASSUME NEW r \in recs PROVE LeftToDo(r.conf, r.remove, r.restart)'
  <2>1. LeftToDo(r.conf, r.remove, r.restart)
    BY DEF FollowInv
  <2> QED BY <1>1, <2>1 DEF LeftToDo
<1>4. (\A r \in recs : LeftToDo(r.conf, r.remove, r.restart))'
  BY <1>3
<1> QED BY <1>2, <1>4 DEF FollowInv

LEMMA ServerIs ==
  ASSUME NEW n \in Names, NEW c \in Versions \cup {Off}
  PROVE  Server(n, c).conf = c /\ ~Server(n, c).client
  BY DEF Server

(* The new objects run what conf says, and the old ones what they did, or *)
(* nothing; none of them gets a connection.                               *)
ReplacedFor(N, conf) ==
  /\ \A n \in N : obj'[servers'[n]].conf = conf[n]
  /\ \A i \in Objects : obj'[i].client => obj'[i] = obj[i]

LEMMA ReplacesConf ==
  ASSUME Inv, NEW N \in SUBSET Names, NEW conf \in Configurations, NEW stop,
         Replaces(N, conf, stop)
  PROVE  ReplacedFor(N, conf)
<1>1. PICK f \in Fresh(N) :
        /\ obj' = [i \in Objects |->
             IF \E n \in N : f[n] = i
             THEN LET n == CHOOSE n \in N : f[n] = i IN Server(n, conf[n])
             ELSE IF i \in stop THEN Closed(obj[i]) ELSE obj[i]]
        /\ servers' = [n \in Names |-> IF n \in N THEN f[n]
                                       ELSE IF servers[n] \in stop THEN 0 ELSE servers[n]]
  BY DEF Replaces
<1>2. f \in [N -> Objects] /\ (\A m, n \in N : f[m] = f[n] => m = n)
  BY DEF Fresh, IsInjective
<1>3. ASSUME NEW n \in N
      PROVE  obj'[f[n]] = Server(n, conf[n]) /\ servers'[n] = f[n]
  <2>1. (CHOOSE m \in N : f[m] = f[n]) = n
    BY <1>2
  <2> QED BY <1>1, <1>2, <2>1
<1>4. \A n \in N : obj'[f[n]].conf = conf[n] /\ ~obj'[f[n]].client /\ servers'[n] = f[n]
  <2>1. \A n \in N : conf[n] \in Versions \cup {Off}
    BY McpAssumption
  <2> QED BY <1>3, <2>1, ServerIs
<1>5. ASSUME NEW i \in Objects, obj'[i].client PROVE obj'[i] = obj[i]
  <2>1. \A n \in N : ~obj'[f[n]].client
    BY <1>4
  <2>2. CASE \A n \in N : f[n] # i
    <3>1. obj'[i] = IF i \in stop THEN Closed(obj[i]) ELSE obj[i]
      BY <1>1, <2>2
    <3>2. obj[i] \in Good
      BY DEF Inv, ServerTypes
    <3>3. Closed(obj[i]) \in Good /\ Closed(obj[i]).closed
      BY <3>2, ClosedGood
    <3>4. ~Closed(obj[i]).client
      BY <3>3 DEF Good, Sound
    <3> QED BY <1>5, <3>1, <3>4
  <2> QED BY <1>5, <2>1, <2>2
<1> QED BY <1>4, <1>5 DEF ReplacedFor

(* A reconcile() alone ends with the servers of its configuration, or has *)
(* less left to do for it.                                                *)
LEMMA ProceedsFollows ==
  ASSUME Inv, NEW rest, NEW conf \in Configurations,
         NEW remove \in SUBSET Names, NEW restart \in SUBSET Names,
         NEW N \in SUBSET Names, \A n \in N : conf[n] # Off,
         Proceeds(rest, conf, remove, restart, N),
         AloneBefore(rest, remove, restart, N), LeftToDo(conf, remove, restart)
  PROVE  \/ recs' = {} /\ Follows(conf)'
         \/ /\ recs' # {}
            /\ \A r \in recs' : r.conf = conf /\ LeftToDo(r.conf, r.remove, r.restart)'
<1> USE DEF AloneBefore
<1>1. CASE \E n \in (IF remove # {} THEN remove ELSE restart) :
             /\ Replaces(N, conf, {servers[n]})
             /\ recs' = rest \cup {[conf |-> conf, remove |-> remove \ {n},
                                    restart |-> restart \ {n}, stopping |-> n]}
  <2>1. PICK n \in remove \cup restart :
             /\ Replaces(N, conf, {servers[n]})
             /\ recs' = {[conf |-> conf, remove |-> remove \ {n},
                          restart |-> restart \ {n}, stopping |-> n]}
    BY <1>1
  <2>2. n \in Names /\ servers[n] # 0 /\ n \notin N
    BY <2>1
  <2>3. Replaced(N, {servers[n]}) /\ ReplacedFor(N, conf)
    BY <2>1, ReplacesKeeps, ReplacesConf
  <2>4. ASSUME NEW m \in Names \ ((remove \ {n}) \cup (restart \ {n})), servers'[m] # 0
        PROVE  conf[m] # Off /\ obj'[servers'[m]].conf = conf[m]
    <3>1. CASE m = n
      BY <2>2, <2>3, <2>4, <3>1 DEF Replaced
    <3>2. CASE m \in N
      BY <2>3, <3>2 DEF ReplacedFor
    <3>3. CASE m # n /\ m \notin N
      <4>1. servers[m] # 0 /\ obj'[servers'[m]] = obj[servers[m]]
        BY <2>3, <2>4, <3>3 DEF Replaced
      <4> QED BY <2>4, <3>3, <4>1 DEF LeftToDo
    <3> QED BY <3>1, <3>2, <3>3
  <2>5. LeftToDo(conf, remove \ {n}, restart \ {n})'
    BY <2>4 DEF LeftToDo
  <2> QED BY <2>1, <2>5
<1>2. CASE /\ remove \cup restart = {}
           /\ Replaces(N \cup {n \in Names : conf[n] # Off /\ servers[n] = 0}, conf, {})
           /\ recs' = rest
  <2> DEFINE M == N \cup {n \in Names : conf[n] # Off /\ servers[n] = 0}
  <2>1. M \in SUBSET Names /\ Replaces(M, conf, {})
    BY <1>2
  <2>2. \A n \in M : conf[n] # Off
    OBVIOUS
  <2>3. \A n \in Names \ M : conf[n] # Off => servers[n] # 0
    OBVIOUS
  <2>4. PICK S : S = M
    OBVIOUS
  <2> HIDE DEF M
  <2>5. Replaced(S, {}) /\ ReplacedFor(S, conf)
    BY <2>1, <2>4, ReplacesKeeps, ReplacesConf
  <2>6. ASSUME NEW n \in Names
        PROVE  IF conf[n] = Off THEN servers'[n] = 0
               ELSE servers'[n] # 0 /\ obj'[servers'[n]].conf = conf[n]
    <3>1. CASE n \in S
      BY <2>2, <2>4, <2>5, <3>1 DEF Replaced, ReplacedFor
    <3>2. CASE n \notin S
      <4>1. servers'[n] = servers[n] /\ (servers'[n] # 0 => obj'[servers'[n]] = obj[servers[n]])
        BY <2>5, <3>2 DEF Replaced
      <4>2. servers[n] # 0 => conf[n] # Off /\ obj[servers[n]].conf = conf[n]
        BY <1>2 DEF LeftToDo
      <4> QED BY <2>3, <2>4, <3>2, <4>1, <4>2
    <3> QED BY <3>1, <3>2
  <2> QED BY <1>2, <2>6 DEF Follows
<1> QED BY <1>1, <1>2 DEF Proceeds

LEMMA EmitsFollows ==
  ASSUME Inv, FollowInv, NEW i \in DOMAIN pending, Emits(i)
  PROVE  FollowInv'
<1> SUFFICES ASSUME runtime' = "open", ~overlap', ~disorder' PROVE FollowInv'
  BY DEF FollowInv
<1>1. /\ i = 1 /\ ~overlap /\ ~disorder /\ recs = {} /\ runtime = "open"
      /\ UNCHANGED <<file, runtime>>
  BY DEF Emits
<1>2. pending \in Seq(Configurations) /\ Len(pending) \in Nat /\ Len(pending) >= 1
      /\ pending # <<>> /\ pending[1] \in Configurations
  BY <1>1 DEF Inv, ChangeTypes
<1>3. PICK c : c = pending[1]
  OBVIOUS
<1>4. Proceeds(recs, c, Removed(c), Changed(c), {})
  BY <1>1, <1>3 DEF Emits
<1>5. Removed(c) \in SUBSET Names /\ Changed(c) \in SUBSET Names /\ LeftToDo(c, Removed(c), Changed(c))
  BY DEF Removed, Changed, LeftToDo
<1>6. AloneBefore(recs, Removed(c), Changed(c), {})
  BY <1>1 DEF AloneBefore, AloneInv, Removed, Changed, Inv
<1>7. \/ recs' = {} /\ Follows(c)'
      \/ recs' # {} /\ \A r \in recs' : r.conf = c /\ LeftToDo(r.conf, r.remove, r.restart)'
  BY <1>2, <1>3, <1>4, <1>5, <1>6, ProceedsFollows
<1>8. \/ pending' = <<>> /\ c = file
      \/ pending' # <<>> /\ pending'[Len(pending')] = file
  <2>1. pending[Len(pending)] = file
    BY <1>1, <1>2 DEF FollowInv
  <2>2. pending' = SubSeq(pending, 1, 0) \o SubSeq(pending, 2, Len(pending))
    BY <1>1 DEF Emits, RemoveAt
  <2>3. SubSeq(pending, 2, Len(pending)) \in Seq(Configurations)
    BY <1>2, SubSeqProperties
  <2>4. SubSeq(pending, 1, 0) = <<>>
    BY SubSeqEmpty
  <2>5. pending' = SubSeq(pending, 2, Len(pending))
    BY <2>2, <2>3, <2>4, ConcatEmptySeq
  <2>6. PICK k \in Nat : k = Len(pending) /\ k >= 1
    BY <1>2
  <2>7. CASE k = 1
    BY <1>3, <2>1, <2>5, <2>6, <2>7, SubSeqEmpty
  <2>8. CASE k > 1
    <3>1. \A j \in 2..k : pending[j] \in Configurations
      BY <1>2, <2>6
    <3>2. Len(pending') = k - 1
      BY <2>5, <2>6, <2>8, <3>1, SubSeqProperties
    <3>3. \A j \in 1..k - 1 : pending'[j] = pending[2 + j - 1]
      <4>1. 2 \in Int /\ k \in Int /\ k - 2 + 1 = k - 1
        BY <2>6
      <4> QED BY <2>5, <2>6, <3>1, <4>1, SubSeqProperties
    <3>4. k - 1 \in 1..k - 1 /\ 2 + (k - 1) - 1 = k
      BY <2>6, <2>8
    <3>5. pending'[Len(pending')] = file
      BY <2>1, <2>6, <3>2, <3>3, <3>4
    <3>6. pending' # <<>>
      BY <2>6, <2>8, <3>2
    <3> QED BY <3>5, <3>6
  <2>9. k = 1 \/ k > 1
    BY <2>6
  <2> QED BY <2>7, <2>8, <2>9
<1>9. \A r \in recs' : LeftToDo(r.conf, r.remove, r.restart)'
  BY <1>7
<1>10. (\A r \in recs : LeftToDo(r.conf, r.remove, r.restart))'
  BY <1>9
<1> QED BY <1>1, <1>7, <1>8, <1>10 DEF FollowInv

LEMMA ResumesFollows ==
  ASSUME Inv, FollowInv, NEW r \in recs, Resumes(r)
  PROVE  FollowInv'
<1> SUFFICES ASSUME runtime' = "open", ~overlap', ~disorder' PROVE FollowInv'
  BY DEF FollowInv
<1> DEFINE N == IF r.conf[r.stopping] = Off THEN {} ELSE {r.stopping}
<1>1. UNCHANGED <<file, pending, runtime, overlap, disorder>>
      /\ Proceeds(recs \ {r}, r.conf, r.remove, r.restart, N)
  BY DEF Resumes
<1>2. r \in ReconcileSet /\ AloneInv
  BY <1>1 DEF Inv, ChangeTypes
<1>3. r.conf \in Configurations /\ r.remove \in SUBSET Names /\ r.restart \in SUBSET Names
      /\ r.stopping \in Names /\ N \in SUBSET Names /\ N \subseteq {r.stopping}
  BY <1>2 DEF ReconcileSet
<1>4. \A n \in N : r.conf[n] # Off
  OBVIOUS
<1> HIDE DEF N
<1>5. AloneBefore(recs \ {r}, r.remove, r.restart, N)
  BY <1>1, <1>2, <1>3 DEF AloneBefore, AloneInv
<1>6. LeftToDo(r.conf, r.remove, r.restart)
  BY <1>1 DEF FollowInv
<1>7. PICK c : c = r.conf
  OBVIOUS
<1>8. \/ recs' = {} /\ Follows(c)'
      \/ recs' # {} /\ \A q \in recs' : q.conf = c /\ LeftToDo(q.conf, q.remove, q.restart)'
  BY <1>1, <1>3, <1>4, <1>5, <1>6, <1>7, ProceedsFollows
<1>9. pending = <<>> => c = file
  BY <1>1, <1>7 DEF FollowInv
<1>10. pending # <<>> => pending[Len(pending)] = file
  BY <1>1 DEF FollowInv
<1>11. (\A q \in recs : LeftToDo(q.conf, q.remove, q.restart))'
  BY <1>8
<1> QED BY <1>1, <1>8, <1>9, <1>10, <1>11 DEF FollowInv

(***************************************************************************)
(* What the steps of one object leave of it.                               *)
(***************************************************************************)
SameServer(i) == obj'[i].name = obj[i].name /\ obj'[i].conf = obj[i].conf
SameLooks(i) ==
  SameServer(i) /\ obj'[i].client = obj[i].client /\ obj'[i].snapshot = obj[i].snapshot
OthersSame(i) == \A j \in Objects : j # i => obj'[j] = obj[j]

LEMMA ReconnectIs ==
  ASSUME NEW o \in ObjectSet
  PROVE  /\ o.closed => ~Reconnect(o).client
         /\ ~o.closed => /\ Reconnect(o).name = o.name /\ Reconnect(o).conf = o.conf
                         /\ Reconnect(o).client = o.client
                         /\ Reconnect(o).snapshot = o.snapshot
  BY DEF Reconnect, Unused, ObjectSet

LEMMA ConnectsMakes ==
  ASSUME Inv, NEW i \in Objects, Connects(i)
  PROVE  /\ OthersSame(i)
         /\ obj[i].closed => ~obj'[i].client
         /\ ~obj[i].closed => SameServer(i) /\ obj'[i].client /\ obj'[i].snapshot
<1>1. OthersSame(i)
  BY DEF Connects, Inv, ServerTypes, OthersSame
<1>2. CASE obj[i].closed
  BY <1>1, <1>2 DEF Connects, Accepted, Inv, ServerTypes, Unused
<1>3. CASE ~obj[i].closed
  <2> DEFINE o == [obj[i] EXCEPT !.connecting = FALSE, !.client = TRUE, !.snapshot = TRUE]
  <2>1. obj'[i] = o
    BY <1>3 DEF Connects, Accepted, Inv, ServerTypes
  <2>2. o.client /\ o.snapshot /\ o.name = obj[i].name /\ o.conf = obj[i].conf
    BY DEF Inv, ServerTypes, Good, ObjectSet
  <2> HIDE DEF o
  <2> QED BY <1>1, <1>3, <2>1, <2>2 DEF SameServer
<1> QED BY <1>1, <1>2, <1>3

LEMMA ConnectFailsKeeps ==
  ASSUME Inv, NEW i \in Objects, ConnectFails(i)
  PROVE  /\ OthersSame(i)
         /\ obj[i].closed => ~obj'[i].client
         /\ ~obj[i].closed => SameLooks(i)
<1>1. OthersSame(i)
  BY DEF ConnectFails, Inv, ServerTypes, OthersSame
<1> DEFINE b == [obj[i] EXCEPT !.connecting = FALSE]
<1>2. obj[i] \in ObjectSet
  BY DEF Inv, ServerTypes, Good
<1>3. /\ b \in ObjectSet /\ b.closed = obj[i].closed /\ b.name = obj[i].name
      /\ b.conf = obj[i].conf /\ b.client = obj[i].client /\ b.snapshot = obj[i].snapshot
  BY <1>2 DEF ObjectSet
<1>4. obj'[i] = Reconnect(b)
  BY DEF ConnectFails, Inv, ServerTypes
<1> HIDE DEF b
<1> QED BY <1>1, <1>3, <1>4, ReconnectIs DEF SameLooks, SameServer

(* The loss of a connection, to Disconnects and ListFails. *)
LEMMA LosesClient ==
  ASSUME Inv, NEW i \in Objects, obj[i].client,
         obj' = [obj EXCEPT ![i] = Reconnect([obj[i] EXCEPT !.client = FALSE])]
  PROVE  OthersSame(i) /\ SameServer(i) /\ obj'[i].snapshot = obj[i].snapshot /\ ~obj'[i].client
<1>1. OthersSame(i)
  BY DEF Inv, ServerTypes, OthersSame
<1> DEFINE b == [obj[i] EXCEPT !.client = FALSE]
<1>2. obj[i] \in ObjectSet /\ ~obj[i].closed
  BY DEF Inv, ServerTypes, Good, Sound
<1>3. /\ b \in ObjectSet /\ b.closed = obj[i].closed /\ b.name = obj[i].name
      /\ b.conf = obj[i].conf /\ ~b.client /\ b.snapshot = obj[i].snapshot
  BY <1>2 DEF ObjectSet
<1>4. obj'[i] = Reconnect(b)
  BY DEF Inv, ServerTypes
<1> HIDE DEF b
<1> QED BY <1>1, <1>2, <1>3, <1>4, ReconnectIs DEF SameServer

LEMMA RetryKeeps ==
  ASSUME Inv, NEW i \in Objects, RetryFires(i)
  PROVE  OthersSame(i) /\ SameLooks(i)
<1>1. OthersSame(i)
  BY DEF RetryFires, Inv, ServerTypes, OthersSame
<1> DEFINE o == [obj[i] EXCEPT !.timer = FALSE, !.connecting = TRUE]
<1>2. /\ o.name = obj[i].name /\ o.conf = obj[i].conf /\ o.client = obj[i].client
      /\ o.snapshot = obj[i].snapshot
  BY DEF Inv, ServerTypes, Good, ObjectSet
<1>3. obj'[i] = o
  BY DEF RetryFires, Inv, ServerTypes
<1> HIDE DEF o
<1> QED BY <1>1, <1>2, <1>3 DEF SameLooks, SameServer

(* A failed tools/list leaves the objects, or one loses its connection. *)
LEMMA ListFailsLoses ==
  ASSUME Inv, ListFails
  PROVE  \/ discovery.cut /\ obj' = obj
         \/ \E i \in Objects :
              /\ i = discovery.asked /\ obj[i].client /\ OthersSame(i) /\ SameServer(i)
              /\ obj'[i].snapshot = obj[i].snapshot /\ ~obj'[i].client
<1>1. CASE ~discovery.cut /\ obj' = [obj EXCEPT ![discovery.asked] =
                                       Reconnect([@ EXCEPT !.client = FALSE])]
  <2>1. PICK i : i = discovery.asked
    OBVIOUS
  <2>2. i \in Objects /\ obj[i].client
    BY <1>1, <2>1 DEF ListFails, Inv, DiscoveryInv, DiscoverySet
  <2>3. obj' = [obj EXCEPT ![i] = Reconnect([obj[i] EXCEPT !.client = FALSE])]
    BY <1>1, <2>1, <2>2
  <2> QED BY <2>1, <2>2, <2>3, LosesClient
<1>2. CASE discovery.cut /\ obj' = obj
  BY <1>2
<1> QED BY <1>1, <1>2 DEF ListFails

LEMMA StepKeeps ==
  ASSUME Inv, CoordinatorStep \/ \E i \in Objects : ServerStep(i)
  PROVE  Kept /\ UNCHANGED <<file, pending, servers, recs, runtime, overlap, disorder>>
<1>1. UNCHANGED <<file, pending, servers, recs, runtime, overlap, disorder>>
  BY DEF CoordinatorStep, Starts, Refreshes, Lists, ListFails, Commits, Subscribes, Visits,
         Fails, ServerStep, Connects, ConnectFails, Disconnects, ToolsChange, RetryFires, ghosts
<1>2. ASSUME NEW i \in Objects, ServerStep(i) PROVE Kept
  <2>1. CASE Connects(i)
    BY <2>1, ConnectsMakes DEF Kept, OthersSame, SameServer
  <2>2. CASE ConnectFails(i)
    BY <2>2, ConnectFailsKeeps DEF Kept, OthersSame, SameLooks, SameServer
  <2>3. CASE Disconnects(i)
    BY <2>3, LosesClient DEF Disconnects, Kept, OthersSame, SameServer
  <2>4. CASE RetryFires(i)
    BY <2>4, RetryKeeps DEF Kept, OthersSame, SameLooks, SameServer
  <2>5. CASE ToolsChange(i)
    BY <2>5 DEF ToolsChange, Kept
  <2> QED BY <1>2, <2>1, <2>2, <2>3, <2>4, <2>5 DEF ServerStep
<1>3. ASSUME CoordinatorStep PROVE Kept
  <2>1. CASE ListFails
    BY <2>1, ListFailsLoses DEF Kept, OthersSame, SameServer
  <2>2. CASE UNCHANGED obj
    BY <2>2 DEF Kept
  <2> QED BY <1>3, <2>1, <2>2
    DEF CoordinatorStep, Starts, Refreshes, Lists, Commits, Subscribes, Visits
<1> QED BY <1>1, <1>2, <1>3

LEMMA InitFollows == Init => FollowInv
<1> SUFFICES ASSUME Init PROVE FollowInv
  OBVIOUS
<1>1. PICK N \in {{n \in Names : file[n] # Off}} : \E f \in [N -> Objects] :
       /\ IsInjective(f)
       /\ servers = [n \in Names |-> IF n \in N THEN f[n] ELSE 0]
       /\ obj = [i \in Objects |->
            IF \E n \in N : f[n] = i
            THEN LET n == CHOOSE n \in N : f[n] = i IN Server(n, file[n])
            ELSE Unused]
  BY Zenon DEF Init
<1>2. PICK f \in [N -> Objects] :
       /\ IsInjective(f)
       /\ servers = [n \in Names |-> IF n \in N THEN f[n] ELSE 0]
       /\ obj = [i \in Objects |->
            IF \E n \in N : f[n] = i
            THEN LET n == CHOOSE n \in N : f[n] = i IN Server(n, file[n])
            ELSE Unused]
  BY <1>1, Zenon
<1>3. N \subseteq Names /\ \A n \in Names : n \in N <=> file[n] # Off
  OBVIOUS
<1>4. \A n \in Names : file[n] \in Versions \cup {Off}
  BY McpAssumption DEF Init
<1>5. ASSUME NEW n \in N
      PROVE  f[n] \in Objects /\ obj[f[n]] = Server(n, file[n]) /\ servers[n] = f[n]
  <2>1. (CHOOSE m \in N : f[m] = f[n]) = n
    BY <1>2 DEF IsInjective
  <2> QED BY <1>2, <1>3, <2>1
<1>6. ASSUME NEW n \in Names
      PROVE  IF file[n] = Off THEN servers[n] = 0
             ELSE servers[n] # 0 /\ obj[servers[n]].conf = file[n]
  <2>1. CASE n \in N
    BY <1>3, <1>4, <1>5, <2>1, ServerIs, ZeroIsNoObject
  <2>2. CASE n \notin N
    BY <1>2, <1>3, <2>2
  <2> QED BY <2>1, <2>2
<1>7. Follows(file)
  BY <1>6 DEF Follows
<1> QED BY <1>7 DEF Init, FollowInv

LEMMA FollowStep ==
  ASSUME Inv, FollowInv, [Next]_vars
  PROVE  FollowInv'
<1>1. CASE CoordinatorStep \/ \E i \in Objects : ServerStep(i)
  BY <1>1, StepKeeps, FollowsOnly
<1>2. ASSUME NEW conf \in Configurations, Changes(conf) PROVE FollowInv'
  <2>1. /\ UNCHANGED <<servers, obj, recs, runtime, overlap, disorder>>
        /\ file' = conf /\ pending' = Append(pending, conf)
    BY <1>2 DEF Changes, ghosts
  <2>2. pending' # <<>> /\ pending'[Len(pending')] = conf
    BY <2>1, AppendProperties DEF Inv, ChangeTypes
  <2>3. FollowInv => FollowInv'
    BY <2>1, <2>2 DEF FollowInv, Follows, LeftToDo
  <2> QED BY <2>3
<1>3. CASE \E i \in DOMAIN pending : Emits(i)
  BY <1>3, EmitsFollows
<1>4. CASE \E r \in recs : Resumes(r)
  BY <1>4, ResumesFollows
<1>5. CASE Closes \/ CloseEnds
  BY <1>5 DEF Closes, CloseEnds, FollowInv
<1>6. CASE UNCHANGED vars
  BY <1>6 DEF vars, FollowInv, Follows, LeftToDo
<1> QED BY <1>1, <1>2, <1>3, <1>4, <1>5, <1>6 DEF Next

LEMMA SpecFollows == Spec => []FollowInv
<1>1. Init => FollowInv
  BY InitFollows
<1>2. Inv /\ FollowInv /\ [Next]_vars => FollowInv'
  BY FollowStep
<1> QED BY <1>1, <1>2, SpecInv, PTL DEF Spec

(***************************************************************************)
(* When every change of the file has been read in order and reconciled,    *)
(* one at a time, the servers are those of the file, each with the         *)
(* configuration it has there: for any servers, however many changes come  *)
(* while a reconcile() awaits the end of a connection                      *)
(* (McpExtensionRuntime.reconcile).                                        *)
(***************************************************************************)
THEOREM RuntimeFollowsFile == Spec => []FollowsConfiguration
<1>1. FollowInv => FollowsConfiguration
  BY DEF FollowInv, Follows, FollowsConfiguration
<1> QED BY <1>1, SpecFollows, PTL

-----------------------------------------------------------------------------
(***************************************************************************)
(* The catalog.  While nothing is due, a discovery has collected the       *)
(* connected servers it has visited as they are now, and without one the   *)
(* catalog is of all of them.                                              *)
(***************************************************************************)
CoordInv ==
  /\ coord = "closed" <=> runtime # "open"
  /\ \A i \in Objects : obj[i].client => obj[i].snapshot
  /\ discovery.on => coord \in {"initial", "on"}
  /\ coord = "initial" => discovery.on

Unfaithful == \E i \in Serving : obj[i].snapshot /\ ~obj[i].client
Connected(S) == {ToolsOf(i) : i \in {j \in S : obj[j].client}}

Settled ==
  /\ coord \in {"initial", "subscribing", "on"}
  /\ ~requested /\ ~unheard /\ recs = {} /\ ~Unfaithful

Current ==
  IF discovery.on
  THEN /\ discovery.visited \subseteq Serving /\ ~discovery.cut
       /\ discovery.got = Connected(discovery.visited \ {discovery.asked})
  ELSE catalog = Connected(Serving)

CatalogInv == Settled => Current

All == Inv /\ CoordInv /\ CatalogInv

LEMMA ServingIs == ASSUME Inv PROVE Serving \subseteq Objects
  BY DEF Inv, ServerTypes, Serving, Objects

(* What serves an open runtime is not closed, and the names tell it apart. *)
LEMMA ServingKnown ==
  ASSUME All, Settled
  PROVE  /\ \A i \in Serving : ~obj[i].closed
         /\ \A i, j \in Serving : obj[i].name = obj[j].name => i = j
<1>1. runtime = "open"
  BY DEF All, CoordInv, Settled
<1>2. \A n \in Names : servers[n] # 0 => obj[servers[n]].name = n /\ ~obj[servers[n]].closed
  BY <1>1 DEF All, Inv, KnownInv
<1> QED BY <1>2 DEF Serving

(* A step the coordinator hears leaves a refresh due. *)
LEMMA HeardIsDue ==
  ASSUME All, Invalidated, UNCHANGED coord
  PROVE  ~Settled'
<1>1. coord = "on" => runtime = "open"
  BY DEF All, CoordInv
<1> QED BY <1>1 DEF Invalidated, Settled

(* A step that changes nothing of what serves changes nothing at all. *)
LEMMA CatalogKept ==
  ASSUME All, UNCHANGED <<servers, offers, recs, coord, requested, unheard, catalog>>,
         \A i \in Serving : SameLooks(i),
         discovery'.on = discovery.on, discovery'.visited = discovery.visited,
         discovery'.got = discovery.got, discovery'.asked = discovery.asked,
         discovery.on /\ discovery.visited \subseteq Serving => discovery'.cut = discovery.cut
  PROVE  CatalogInv'
<1>1. Serving' = Serving
  BY DEF Serving
<1>2. Settled' => Settled
  BY <1>1 DEF Settled, Unfaithful, SameLooks
<1>3. \A i \in Serving : ToolsOf(i)' = ToolsOf(i)
  BY DEF ToolsOf, SameLooks, SameServer
<1>4. ASSUME NEW S \in SUBSET Serving PROVE Connected(S)' = Connected(S)
  BY <1>3 DEF Connected, SameLooks
<1>5. Current => Current'
  <2>1. CASE discovery.on
    <3>1. PICK S : S = discovery.visited \ {discovery.asked}
      OBVIOUS
    <3>2. S \subseteq Serving => Connected(S)' = Connected(S)
      BY <1>4
    <3> QED BY <1>1, <2>1, <3>1, <3>2 DEF Current
  <2>2. CASE ~discovery.on
    <3>1. PICK S : S = Serving
      OBVIOUS
    <3>2. Connected(S)' = Connected(S)
      BY <1>4, <3>1
    <3> QED BY <1>1, <2>2, <3>1, <3>2 DEF Current
  <2> QED BY <2>1, <2>2
<1> QED BY <1>2, <1>5 DEF All, CatalogInv

LEMMA ServerStepCatalog ==
  ASSUME All, NEW i \in Objects, ServerStep(i)
  PROVE  CatalogInv'
<1> SUFFICES ASSUME Settled' PROVE CatalogInv'
  BY DEF CatalogInv
<1>1. Inv /\ (\A j \in Objects : obj[j].client => obj[j].snapshot) /\ Serving \subseteq Objects
  BY ServingIs DEF All, CoordInv
<1>2. CASE Connects(i)
  <2>1. obj[i].closed
    BY <1>2, HeardIsDue DEF Connects, Accepted
  <2>2. OthersSame(i) /\ UNCHANGED <<servers, recs, coord, offers, discovery, catalog,
                                     requested, unheard, runtime>>
    BY <1>1, <1>2, <2>1, ConnectsMakes DEF Connects, Accepted
  <2>3. i \notin Serving
    <3>1. \A n \in Names : servers[n] # 0 => ~obj[servers[n]].closed
      BY <1>1, <2>2 DEF All, CoordInv, Settled, Inv, KnownInv
    <3> QED BY <2>1, <3>1 DEF Serving
  <2>4. \A j \in Serving : SameLooks(j)
    BY <1>1, <2>2, <2>3 DEF OthersSame, SameLooks, SameServer
  <2> QED BY <2>2, <2>4, CatalogKept
<1>3. CASE ConnectFails(i)
  <2>1. UNCHANGED <<servers, recs, coord, offers, discovery, catalog, requested, unheard, runtime>>
    BY <1>3 DEF ConnectFails, ghosts
  <2>2. \A n \in Names : servers[n] # 0 => ~obj[servers[n]].closed
    BY <1>1, <2>1 DEF All, CoordInv, Settled, Inv, KnownInv
  <2>3. \A j \in Serving : SameLooks(j)
    BY <1>1, <1>3, <2>2, ConnectFailsKeeps DEF Serving, OthersSame, SameLooks, SameServer
  <2> QED BY <2>1, <2>3, CatalogKept
<1>4. CASE Disconnects(i)
  <2>1. UNCHANGED <<servers, recs, coord, offers, catalog, requested, unheard>> /\ Cut(i)
    BY <1>4 DEF Disconnects, ghosts
  <2>2. OthersSame(i) /\ obj'[i].snapshot /\ ~obj'[i].client
    BY <1>1, <1>4, LosesClient DEF Disconnects
  <2>3. i \notin Serving
    BY <2>1, <2>2 DEF Settled, Unfaithful, Serving
  <2>4. \A j \in Serving : SameLooks(j)
    BY <1>1, <2>2, <2>3 DEF OthersSame, SameLooks, SameServer
  <2>5. /\ discovery'.on = discovery.on /\ discovery'.visited = discovery.visited
        /\ discovery'.got = discovery.got /\ discovery'.asked = discovery.asked
        /\ discovery.asked # i => discovery'.cut = discovery.cut
    BY <1>1, <2>1 DEF Cut, Inv, DiscoveryInv, DiscoverySet
  <2>6. discovery.visited \subseteq Serving => discovery.asked # i
    BY <1>1, <2>3, ZeroIsNoObject DEF Inv, DiscoveryInv
  <2> QED BY <2>1, <2>4, <2>5, <2>6, CatalogKept
<1>5. CASE ToolsChange(i)
  BY <1>5, HeardIsDue DEF ToolsChange
<1>6. CASE RetryFires(i)
  <2>1. UNCHANGED <<servers, recs, coord, offers, discovery, catalog, requested, unheard>>
    BY <1>6 DEF RetryFires, ghosts
  <2>2. \A j \in Serving : SameLooks(j)
    BY <1>1, <1>6, RetryKeeps DEF OthersSame, SameLooks, SameServer
  <2> QED BY <2>1, <2>2, CatalogKept
<1> QED BY <1>2, <1>3, <1>4, <1>5, <1>6 DEF ServerStep

(* The start of a discovery, of any kind. *)
LEMMA DiscoveringCurrent ==
  ASSUME discovery' = Discovering
  PROVE  Current'
<1>1. /\ discovery'.on /\ discovery'.visited = {} /\ discovery'.got = {} /\ ~discovery'.cut
  BY DEF Discovering, NoDiscovery
<1>2. Connected(discovery.visited \ {discovery.asked})' = {}
  BY <1>1 DEF Connected
<1> QED BY <1>1, <1>2 DEF Current

(* A step of the coordinator, which leaves the servers. *)
ServersStay == UNCHANGED <<servers, offers, recs, requested, unheard, obj>>

LEMMA SettledBefore ==
  ASSUME All, ServersStay, Settled', coord' = coord \/ coord \in {"initial", "subscribing", "on"}
  PROVE  Settled /\ Current /\ Serving' = Serving
         /\ \A S : Connected(S)' = Connected(S)
<1>1. Serving' = Serving
  BY DEF Serving, ServersStay
<1>2. Settled
  BY <1>1 DEF Settled, Unfaithful, ServersStay
<1>3. \A S : Connected(S)' = Connected(S)
  BY DEF Connected, ToolsOf, ServersStay
<1> QED BY <1>1, <1>2, <1>3 DEF All, CatalogInv

LEMMA VisitsCatalog ==
  ASSUME All, NEW i \in Objects, Visits(i)
  PROVE  CatalogInv'
<1> SUFFICES ASSUME Settled' PROVE Current'
  BY DEF CatalogInv
<1>1. /\ ServersStay /\ discovery.on /\ discovery.asked = 0 /\ i \notin discovery.visited
      /\ i # 0 /\ coord \in {"initial", "on"} /\ UNCHANGED catalog
  BY ZeroIsNoObject DEF Visits, ghosts, ServersStay, All, CoordInv
<1>2. i \in Serving
  BY <1>1 DEF Visits, Serving
<1>3. Settled /\ Current /\ Serving' = Serving /\ (\A S : Connected(S)' = Connected(S))
  BY <1>1, SettledBefore
<1>4. /\ discovery.visited \subseteq Serving /\ ~discovery.cut /\ 0 \notin discovery.visited
      /\ discovery.got = Connected(discovery.visited)
  <2>1. 0 \notin discovery.visited
    BY ZeroIsNoObject DEF All, Inv, DiscoveryInv, DiscoverySet
  <2>2. discovery.visited \ {discovery.asked} = discovery.visited
    BY <1>1, <2>1
  <2> QED BY <1>1, <1>3, <2>1, <2>2 DEF Current
<1>5. CASE obj[i].client
  <2>1. discovery' = [discovery EXCEPT !.asked = i, !.visited = @ \cup {i}]
    BY <1>5 DEF Visits
  <2>2. /\ discovery'.on /\ ~discovery'.cut /\ discovery'.got = discovery.got
        /\ discovery'.asked = i /\ discovery'.visited = discovery.visited \cup {i}
    BY <1>1, <1>4, <2>1 DEF All, Inv, DiscoveryInv, DiscoverySet
  <2>3. discovery'.visited \ {discovery'.asked} = discovery.visited
    BY <1>1, <2>2
  <2> QED BY <1>2, <1>3, <1>4, <2>2, <2>3 DEF Current
<1>6. CASE ~obj[i].client
  <2>1. ~obj[i].snapshot
    BY <1>2, <1>3, <1>6 DEF Settled, Unfaithful
  <2>2. discovery' = [discovery EXCEPT !.visited = @ \cup {i}]
    BY <1>6, <2>1 DEF Visits
  <2>3. /\ discovery'.on /\ ~discovery'.cut /\ discovery'.got = discovery.got
        /\ discovery'.asked = 0 /\ discovery'.visited = discovery.visited \cup {i}
    BY <1>1, <1>4, <2>2 DEF All, Inv, DiscoveryInv, DiscoverySet
  <2>4. discovery'.visited \ {discovery'.asked} = discovery.visited \cup {i}
    BY <1>1, <1>4, <2>3
  <2>5. Connected(discovery.visited \cup {i}) = Connected(discovery.visited)
    BY <1>6 DEF Connected
  <2> QED BY <1>2, <1>3, <1>4, <2>3, <2>4, <2>5 DEF Current
<1> QED BY <1>5, <1>6

LEMMA ListsCatalog ==
  ASSUME All, Lists
  PROVE  CatalogInv'
<1> SUFFICES ASSUME Settled' PROVE Current'
  BY DEF CatalogInv
<1>1. ServersStay /\ UNCHANGED <<coord, catalog>> /\ discovery.asked # 0 /\ ~discovery.cut
  BY DEF Lists, ghosts, ServersStay
<1>2. Settled /\ Current /\ Serving' = Serving /\ (\A S : Connected(S)' = Connected(S))
  BY <1>1, SettledBefore
<1>3. /\ discovery.asked \in discovery.visited /\ discovery.visited \subseteq Objects
      /\ obj[discovery.asked].client
  BY <1>1 DEF All, Inv, DiscoveryInv, DiscoverySet
<1>4. PICK i, tools : i = discovery.asked /\ tools = ToolsOf(i)
  OBVIOUS
<1>5. discovery' = [discovery EXCEPT !.got = @ \cup {tools}, !.asked = 0]
  BY <1>4 DEF Lists
<1>6. /\ discovery'.on = discovery.on /\ discovery'.cut = discovery.cut /\ discovery'.asked = 0
      /\ discovery'.got = discovery.got \cup {tools} /\ discovery'.visited = discovery.visited
  BY <1>5 DEF All, Inv, DiscoveryInv, DiscoverySet
<1>7. CASE discovery.on
  <2>1. discovery'.visited \ {discovery'.asked} = discovery.visited
    BY <1>3, <1>6, ZeroIsNoObject
  <2>2. Connected(discovery.visited) = Connected(discovery.visited \ {i}) \cup {tools}
    BY <1>3, <1>4 DEF Connected
  <2> QED BY <1>1, <1>2, <1>4, <1>6, <1>7, <2>1, <2>2 DEF Current
<1>8. CASE ~discovery.on
  BY <1>1, <1>2, <1>6, <1>8 DEF Current
<1> QED BY <1>7, <1>8

LEMMA ListFailsCatalog ==
  ASSUME All, ListFails
  PROVE  CatalogInv'
<1> SUFFICES ASSUME Settled' PROVE Current'
  BY DEF CatalogInv
<1>1. /\ UNCHANGED <<servers, offers, recs, requested, unheard, catalog>>
      /\ discovery' = NoDiscovery /\ coord' = coord /\ coord # "initial"
  BY DEF ListFails, Fails, ghosts, Settled
<1>2. ~discovery'.on
  BY <1>1 DEF NoDiscovery
<1>3. CASE discovery.cut /\ obj' = obj
  <2>1. Settled /\ Current /\ Serving' = Serving /\ (\A S : Connected(S)' = Connected(S))
    BY <1>1, <1>3, SettledBefore DEF ServersStay
  <2> QED BY <1>1, <1>2, <1>3, <2>1 DEF Current
<1>4. ASSUME NEW i \in Objects, i = discovery.asked, obj[i].client, OthersSame(i),
             obj'[i].snapshot = obj[i].snapshot, ~obj'[i].client
      PROVE  Current'
  <2>1. obj'[i].snapshot /\ Serving' = Serving
    BY <1>1, <1>4 DEF All, CoordInv, Serving
  <2>2. i \notin Serving
    BY <1>4, <2>1 DEF Settled, Unfaithful
  <2>3. \A j \in Serving : obj'[j] = obj[j]
    BY <1>4, <2>2, ServingIs DEF OthersSame, All
  <2>4. Settled
    BY <1>1, <2>1, <2>3 DEF Settled, Unfaithful
  <2>5. ~discovery.on
    BY <1>4, <2>2, <2>4, ZeroIsNoObject DEF All, CatalogInv, Current, Inv, DiscoveryInv
  <2>6. PICK S : S = Serving
    OBVIOUS
  <2>7. Connected(S)' = Connected(S)
    BY <1>1, <2>3, <2>6 DEF Connected, ToolsOf
  <2> QED BY <1>1, <1>2, <2>1, <2>4, <2>5, <2>6, <2>7 DEF All, CatalogInv, Current
<1> QED BY <1>3, <1>4, ListFailsLoses DEF All

LEMMA CommitsCatalog ==
  ASSUME All, Commits
  PROVE  CatalogInv'
<1> SUFFICES ASSUME Settled' PROVE Current'
  BY DEF CatalogInv
<1>1. /\ ServersStay /\ discovery.on /\ discovery.asked = 0 /\ coord \in {"initial", "on"}
      /\ \A n \in Names : servers[n] # 0 => servers[n] \in discovery.visited
  BY DEF Commits, Fails, ghosts, ServersStay, All, CoordInv
<1>2. Settled /\ Current /\ Serving' = Serving /\ (\A S : Connected(S)' = Connected(S))
  BY <1>1, SettledBefore
<1>3. discovery.got = Connected(Serving)
  <2>1. 0 \notin discovery.visited /\ discovery.visited \subseteq Serving
    BY <1>1, <1>2, ZeroIsNoObject DEF Current, All, Inv, DiscoveryInv, DiscoverySet
  <2>2. Serving \subseteq discovery.visited
    BY <1>1 DEF Serving
  <2>3. discovery.visited \ {discovery.asked} = Serving
    BY <1>1, <2>1, <2>2
  <2> QED BY <1>1, <1>2, <2>3 DEF Current
<1>4. ASSUME NEW a \in discovery.got, NEW b \in discovery.got, a.name = b.name PROVE a = b
  <2>1. PICK i \in Serving, j \in Serving : a = ToolsOf(i) /\ b = ToolsOf(j)
    BY <1>3 DEF Connected
  <2>2. a.name = obj[i].name /\ b.name = obj[j].name
    BY <2>1 DEF ToolsOf
  <2>3. i = j
    BY <1>2, <1>4, <2>2, ServingKnown
  <2> QED BY <2>1, <2>3
<1>5. catalog' = discovery.got /\ discovery' = NoDiscovery
  BY <1>4 DEF Commits
<1> QED BY <1>2, <1>3, <1>5 DEF Current, NoDiscovery

LEMMA CoordinatorCatalog ==
  ASSUME All, CoordinatorStep
  PROVE  CatalogInv'
<1>1. CASE Starts \/ Refreshes
  BY <1>1, DiscoveringCurrent DEF Starts, Refreshes, CatalogInv
<1>2. CASE Subscribes
  <2>1. ServersStay /\ UNCHANGED <<discovery, catalog>> /\ coord = "subscribing"
    BY <1>2 DEF Subscribes, ghosts, ServersStay
  <2>2. ASSUME Settled' PROVE Current'
    <3>1. Settled /\ Current /\ Serving' = Serving /\ (\A S : Connected(S)' = Connected(S))
      BY <2>1, <2>2, SettledBefore
    <3> QED BY <2>1, <3>1 DEF Current
  <2> QED BY <2>2 DEF CatalogInv
<1> QED BY <1>1, <1>2, VisitsCatalog, ListsCatalog, ListFailsCatalog, CommitsCatalog
  DEF CoordinatorStep

(* A reconcile() that goes on leaves itself under way or a refresh due, and *)
(* no object has a connection that had none.                                *)
LEMMA ProceedsCatalog ==
  ASSUME All, NEW rest, NEW conf \in Configurations,
         NEW remove \in SUBSET Names, NEW restart \in SUBSET Names, NEW N \in SUBSET Names,
         Proceeds(rest, conf, remove, restart, N), UNCHANGED <<coord, runtime>>
  PROVE  CatalogInv' /\ CoordInv'
<1>0. Inv
  BY DEF All
<1>1. PICK M \in SUBSET Names : \E stop : Replaces(M, conf, stop)
  <2>1. CASE \E n \in (IF remove # {} THEN remove ELSE restart) : Replaces(N, conf, {servers[n]})
    BY <2>1
  <2>2. CASE Replaces(N \cup {n \in Names : conf[n] # Off /\ servers[n] = 0}, conf, {})
    <3>1. N \cup {n \in Names : conf[n] # Off /\ servers[n] = 0} \in SUBSET Names
      OBVIOUS
    <3> QED BY <2>2, <3>1
  <2> QED BY <2>1, <2>2 DEF Proceeds
<1>2. \A i \in Objects : obj'[i].client => obj'[i].snapshot
  BY <1>0, <1>1, ReplacesConf DEF ReplacedFor, All, CoordInv
<1>3. discovery'.on = discovery.on
  BY <1>0 DEF Proceeds, Cut, Inv, DiscoveryInv, DiscoverySet
<1>4. CoordInv'
  BY <1>2, <1>3 DEF All, CoordInv
<1>5. ~Settled'
  <2>1. CASE \E n \in (IF remove # {} THEN remove ELSE restart) :
               recs' = rest \cup {[conf |-> conf, remove |-> remove \ {n},
                                   restart |-> restart \ {n}, stopping |-> n]}
    BY <2>1 DEF Settled
  <2>2. CASE Invalidated
    BY <2>2, HeardIsDue
  <2> QED BY <2>1, <2>2 DEF Proceeds
<1> QED BY <1>4, <1>5 DEF CatalogInv

LEMMA ReconcileCatalog ==
  ASSUME All, (\E i \in DOMAIN pending : Emits(i)) \/ (\E r \in recs : Resumes(r))
  PROVE  CatalogInv' /\ CoordInv'
<1>0. Inv
  BY DEF All
<1>1. ASSUME NEW i \in DOMAIN pending, Emits(i) PROVE CatalogInv' /\ CoordInv'
  <2>1. pending[i] \in Configurations
    BY <1>0 DEF Inv, ChangeTypes
  <2>2. Removed(pending[i]) \in SUBSET Names /\ Changed(pending[i]) \in SUBSET Names
        /\ {} \in SUBSET Names
    BY DEF Removed, Changed
  <2>3. Proceeds(recs, pending[i], Removed(pending[i]), Changed(pending[i]), {})
        /\ UNCHANGED <<coord, runtime>>
    BY <1>1 DEF Emits
  <2> QED BY <2>1, <2>2, <2>3, ProceedsCatalog
<1>2. ASSUME NEW r \in recs, Resumes(r) PROVE CatalogInv' /\ CoordInv'
  <2> DEFINE N == IF r.conf[r.stopping] = Off THEN {} ELSE {r.stopping}
  <2>1. r.conf \in Configurations /\ r.remove \in SUBSET Names /\ r.restart \in SUBSET Names
        /\ N \in SUBSET Names
    BY <1>0 DEF Inv, ChangeTypes, ReconcileSet
  <2>2. Proceeds(recs \ {r}, r.conf, r.remove, r.restart, N) /\ UNCHANGED <<coord, runtime>>
    BY <1>2 DEF Resumes
  <2> HIDE DEF N
  <2> QED BY <2>1, <2>2, ProceedsCatalog
<1> QED BY <1>1, <1>2

LEMMA CoordStep ==
  ASSUME All, CoordinatorStep \/ \E i \in Objects : ServerStep(i)
  PROVE  CoordInv'
<1>0. Inv /\ CoordInv
  BY DEF All
<1>1. ASSUME NEW i \in Objects, ServerStep(i) PROVE CoordInv'
  <2>1. UNCHANGED <<coord, runtime>>
    BY <1>1 DEF ServerStep, Connects, ConnectFails, Disconnects, ToolsChange, RetryFires, ghosts
  <2>2. discovery'.on = discovery.on
    BY <1>0, <1>1 DEF ServerStep, Connects, ConnectFails, Disconnects, ToolsChange, RetryFires,
                      Cut, Inv, DiscoveryInv, DiscoverySet
  <2>3. \A j \in Objects : obj'[j].client => obj'[j].snapshot
    <3>1. CASE Connects(i)
      BY <1>0, <3>1, ConnectsMakes DEF CoordInv, OthersSame
    <3>2. CASE ConnectFails(i)
      BY <1>0, <3>2, ConnectFailsKeeps DEF CoordInv, OthersSame, SameLooks
    <3>3. CASE Disconnects(i)
      BY <1>0, <3>3, LosesClient DEF Disconnects, CoordInv, OthersSame
    <3>4. CASE RetryFires(i)
      BY <1>0, <3>4, RetryKeeps DEF CoordInv, OthersSame, SameLooks
    <3>5. CASE ToolsChange(i)
      BY <1>0, <3>5 DEF ToolsChange, CoordInv
    <3> QED BY <1>1, <3>1, <3>2, <3>3, <3>4, <3>5 DEF ServerStep
  <2> QED BY <1>0, <2>1, <2>2, <2>3 DEF CoordInv
<1>2. ASSUME CoordinatorStep PROVE CoordInv'
  <2>1. runtime' = runtime
    BY <1>2 DEF CoordinatorStep, Starts, Refreshes, Lists, ListFails, Commits, Subscribes, Visits,
                ghosts
  <2>2. \A j \in Objects : obj'[j].client => obj'[j].snapshot
    <3>1. CASE ListFails
      BY <1>0, <3>1, ListFailsLoses DEF CoordInv, OthersSame
    <3>2. CASE UNCHANGED obj
      BY <1>0, <3>2 DEF CoordInv
    <3> QED BY <1>2, <3>1, <3>2
      DEF CoordinatorStep, Starts, Refreshes, Lists, Commits, Subscribes, Visits
  <2>3. /\ coord' = "closed" <=> coord = "closed"
        /\ discovery'.on => coord' \in {"initial", "on"}
        /\ coord' = "initial" => discovery'.on
    <3>1. CASE Starts \/ Refreshes
      BY <3>1 DEF Starts, Refreshes, Discovering, NoDiscovery
    <3>2. CASE Lists
      <4>1. discovery'.on = discovery.on /\ coord' = coord
        BY <1>0, <3>2 DEF Lists, Inv, DiscoveryInv, DiscoverySet
      <4> QED BY <1>0, <4>1 DEF CoordInv
    <3>3. CASE ListFails \/ Commits
      BY <3>3 DEF ListFails, Commits, Fails, NoDiscovery
    <3>4. CASE Subscribes
      BY <1>0, <3>4 DEF Subscribes, CoordInv
    <3>5. ASSUME NEW i \in Objects, Visits(i)
          PROVE  /\ coord' = "closed" <=> coord = "closed"
                 /\ discovery'.on => coord' \in {"initial", "on"}
                 /\ coord' = "initial" => discovery'.on
      <4>1. CASE Fails
        BY <4>1 DEF Fails, NoDiscovery
      <4>2. CASE discovery'.on = discovery.on /\ coord' = coord
        BY <1>0, <4>2 DEF CoordInv
      <4> QED BY <1>0, <3>5, <4>1, <4>2 DEF Visits, Inv, DiscoveryInv, DiscoverySet
    <3> QED BY <1>2, <3>1, <3>2, <3>3, <3>4, <3>5 DEF CoordinatorStep
  <2> QED BY <1>0, <2>1, <2>2, <2>3 DEF CoordInv
<1> QED BY <1>1, <1>2

LEMMA EndsCatalog ==
  ASSUME All, Closes \/ CloseEnds
  PROVE  CatalogInv' /\ CoordInv'
<1>0. Inv /\ CoordInv
  BY DEF All
<1>1. CASE Closes
  <2>1. coord' = "closed" /\ runtime' = "closing" /\ ~discovery'.on
    BY <1>1 DEF Closes, NoDiscovery
  <2>2. \A i \in Objects : obj'[i].client => obj'[i].snapshot
    <3> TAKE i \in Objects
    <3>1. obj[i] \in Good /\ (obj[i].client => obj[i].snapshot)
      BY <1>0 DEF Inv, ServerTypes, CoordInv
    <3>2. ~Closed(obj[i]).client
      BY <3>1, ClosedGood DEF Good, Sound
    <3>3. obj'[i] = obj[i] \/ obj'[i] = Closed(obj[i])
      BY <1>1 DEF Closes
    <3> QED BY <3>1, <3>2, <3>3
  <2> QED BY <2>1, <2>2 DEF CatalogInv, Settled, CoordInv
<1>2. CASE CloseEnds
  BY <1>0, <1>2 DEF CloseEnds, CatalogInv, Settled, CoordInv
<1> QED BY <1>1, <1>2

LEMMA CatalogStep ==
  ASSUME All, [Next]_vars
  PROVE  CatalogInv' /\ CoordInv'
<1>1. CASE CoordinatorStep \/ \E i \in Objects : ServerStep(i)
  BY <1>1, CoordStep, CoordinatorCatalog, ServerStepCatalog
<1>2. ASSUME NEW conf \in Configurations, Changes(conf) PROVE CatalogInv' /\ CoordInv'
  <2>1. UNCHANGED <<offers, servers, obj, recs, runtime, coord, requested, discovery, catalog,
                    unheard>>
    BY <1>2 DEF Changes, ghosts
  <2>2. CoordInv'
    BY <2>1 DEF All, CoordInv
  <2> QED BY <2>1, <2>2, CatalogKept DEF SameLooks, SameServer
<1>3. CASE (\E i \in DOMAIN pending : Emits(i)) \/ (\E r \in recs : Resumes(r))
  BY <1>3, ReconcileCatalog
<1>4. CASE Closes \/ CloseEnds
  BY <1>4, EndsCatalog
<1>5. CASE UNCHANGED vars
  <2>1. CoordInv'
    BY <1>5 DEF vars, All, CoordInv
  <2> QED BY <1>5, <2>1, CatalogKept DEF vars, SameLooks, SameServer
<1> QED BY <1>1, <1>2, <1>3, <1>4, <1>5 DEF Next

LEMMA SpecAll == Spec => []All
<1>1. Init => All
  <2> SUFFICES ASSUME Init PROVE All
    OBVIOUS
  <2>1. Inv
    BY InitInv
  <2>2. \A i \in Objects : ~obj[i].client
    <3>1. PICK N \in {{n \in Names : file[n] # Off}} : \E f \in [N -> Objects] :
            /\ IsInjective(f)
            /\ obj = [i \in Objects |->
                 IF \E n \in N : f[n] = i
                 THEN LET n == CHOOSE n \in N : f[n] = i IN Server(n, file[n])
                 ELSE Unused]
      BY Zenon DEF Init
    <3>2. PICK f \in [N -> Objects] :
            /\ IsInjective(f)
            /\ obj = [i \in Objects |->
                 IF \E n \in N : f[n] = i
                 THEN LET n == CHOOSE n \in N : f[n] = i IN Server(n, file[n])
                 ELSE Unused]
      BY <3>1, Zenon
    <3>3. \A n \in N : n \in Names /\ file[n] \in Versions \cup {Off}
      BY McpAssumption DEF Init
    <3>4. ASSUME NEW i \in Objects PROVE ~obj[i].client
      <4>1. CASE \A n \in N : f[n] # i
        BY <3>2, <4>1 DEF Unused
      <4>2. CASE \E n \in N : f[n] = i
        <5>1. \E n \in N : obj[i] = Server(n, file[n])
          BY <3>2, <4>2
        <5> QED BY <3>3, <5>1, ServerIs
      <4> QED BY <4>1, <4>2
    <3> QED BY <3>4
  <2>3. CoordInv /\ ~Settled
    BY <2>2 DEF Init, CoordInv, Settled, NoDiscovery
  <2> QED BY <2>1, <2>3 DEF All, CatalogInv
<1>2. All /\ [Next]_vars => All'
  BY InvStep, CatalogStep DEF All
<1> QED BY <1>1, <1>2, PTL DEF Spec

(***************************************************************************)
(* When no refresh is due, the catalog of the agent holds the tools of the *)
(* connected servers as they are now: no connection, restart, removal or   *)
(* change of tools during a discovery is lost, for any servers, except     *)
(* before the subscription and while a server that has been connected is   *)
(* not (refreshDynamicTools and discover).                                 *)
(***************************************************************************)
THEOREM CatalogIsCurrent == Spec => []CatalogFollows
<1>1. All => CatalogFollows
  BY DEF All, CatalogInv, Settled, Current, Unfaithful, Connected, CatalogFollows
<1> QED BY <1>1, SpecAll, PTL
=============================================================================
