------------------------- MODULE AcpConnectionSafety -------------------------
(***************************************************************************)
(* Theorems about AcpConnection: for any Sessions, connections, updates,   *)
(* commands and broken sockets, a Session is controlled by a connection    *)
(* that holds it, no answer of the user waits behind a cancel that waits   *)
(* for it, a run that awaits the user is waited for, and no answer reaches *)
(* another question than the one the user was shown.                       *)
(***************************************************************************)
EXTENDS AcpConnection, FiniteSetTheorems, SequenceTheorems, TLAPS

Whys == {"open", "rebuild", "navigate", "command"}
RequestTypes == {"resume", "prompt", "navigate", "cancel", "close"}

(* What the client writes. *)
Requests == {m \in [type : RequestTypes, s : Sessions, gen : Nat, why : Whys] :
               m.type = "resume" \/ m.why = "command"}
Answers == [type : {"answer"}, id : Nat, s : Sessions, n : Updates, late : BOOLEAN,
            allow : BOOLEAN]
InLines == Requests \cup Answers

(* What the Server writes: notifications, responses and its own requests. *)
Notifications == [type : {"update"}, s : Sessions, n : Updates, idle : BOOLEAN]
Responses ==
  [type : {"replayed"}, s : Sessions, n : Updates, idle : BOOLEAN, why : Whys, gen : Nat]
    \cup [type : {"refused"}, s : Sessions, why : Whys, gen : Nat]
    \cup [type : {"navigated"}, s : Sessions, gen : Nat]
AskLines == [type : {"ask"}, id : Nat, s : Sessions, n : Updates]
OutLines == Notifications \cup Responses \cup AskLines

Steps == {"free", "snapshot", "replay", "waiting", "reply"}
Handlers == [req : {"none", "resume", "cancel", "close"}, s : Sessions \cup {"none"},
             why : Whys \cup {"none"}, gen : Nat, step : Steps, n : Updates, idle : BOOLEAN,
             batch : Seq(Notifications \cup Responses)]
Asks == [id : Nat, s : Sessions, n : Updates]
Prompts == [id : Nat, s : Sessions, n : Updates, gen : Nat, late : BOOLEAN]

Losses == {"discarded", "overtaken", "outlived", "emptied", "detached"}

HostTypes ==
  /\ seq \in [Sessions -> Updates]
  /\ turn \in [Sessions -> Turns]
  /\ unheard \in SUBSET Sessions
  /\ owner \in [Sessions -> 0..MaxConnections]
  /\ missed \in [Sessions -> SUBSET Losses]

ServerTypes ==
  /\ link \in [Connections -> {"unused", "up", "down", "gone"}]
  /\ inbox \in [Connections -> Seq(InLines)]
  /\ wire \in [Connections -> Seq(OutLines)]
  /\ handler \in [Connections -> Handlers]
  /\ outbound \in [Connections -> Seq(Notifications)]
  /\ attached \in [Connections -> SUBSET Sessions]
  /\ asks \in [Connections -> SUBSET Asks]
  /\ nextId \in [Connections -> Nat]

ClientTypes ==
  /\ bound \in Connections
  /\ alive \in BOOLEAN
  /\ recon \in {"none", "connecting", "rebuilding"}
  /\ rebuilding \in Sessions \cup {"none"}
  /\ rebuilt \in SUBSET Sessions
  /\ view \in [Sessions -> {"none", "opening", "open"}]
  /\ gen \in [Sessions -> Nat]
  /\ status \in [Sessions -> {"ok", "reconnecting", "restart_failed"}]
  /\ seen \in [Sessions -> SUBSET Updates]
  /\ shown \in [Sessions -> Updates]
  /\ prompts \in SUBSET Prompts
  /\ IsFiniteSet(prompts)

Types == HostTypes /\ ServerTypes /\ ClientTypes

(* A Session that is not idle has room for the update that will end it, and *)
(* one that asks for that of the answer besides.                            *)
RoomInv ==
  \A s \in Sessions :
    /\ turn[s] # "idle" => seq[s] + 1 <= MaxUpdates
    /\ turn[s] = "asking" => seq[s] + 2 <= MaxUpdates

(* Only while a request is handled are notifications held back, and each    *)
(* kind of wait is that of the request it belongs to.                       *)
HandlerInv ==
  \A k \in Connections :
    /\ outbound[k] # <<>> => Handling(k)
    /\ Handling(k) => handler[k].s \in Sessions /\ handler[k].why \in Whys
    /\ handler[k].step = "free" => handler[k] = Free

(* The Desktop uses the newest connection, and the others are closed. *)
LinkInv ==
  /\ \A k \in Connections :
       /\ link[k] = "up" => k = bound /\ alive
       /\ k > bound <=> link[k] = "unused"
       /\ link[k] \in {"unused", "gone"} =>
            inbox[k] = <<>> /\ handler[k] = Free /\ attached[k] = {}
       /\ asks[k] # {} => link[k] = "up"

(* A Session is held by the one connection that controls it. *)
LeaseInv == \A s \in Sessions, k \in Connections : s \in attached[k] <=> owner[s] = k

(* No two questions of a connection have the same id. *)
IdInv ==
  \A k \in Connections : \A a \in asks[k] :
    a.id < nextId[k] /\ \A b \in asks[k] : b.id = a.id => b = a

Inv == Types /\ RoomInv /\ HandlerInv /\ LinkInv /\ LeaseInv /\ IdInv

-----------------------------------------------------------------------------
(***************************************************************************)
(* Facts about the operators.                                              *)
(***************************************************************************)
LEMMA Numbers ==
  /\ MaxUpdates \in Nat /\ MaxConnections \in Nat /\ MaxConnections > 0
  /\ Connections \subseteq Nat \ {0} /\ 1 \in Connections /\ Connections \subseteq 1..MaxConnections
  /\ 0 \in Updates /\ Updates \subseteq Nat
  BY AcpAssumption DEF Connections, Updates

(* SetToSeq lists every element of a finite set, and no other. *)
LEMMA Listed ==
  ASSUME NEW S, IsFiniteSet(S)
  PROVE  /\ SetToSeq(S) \in Seq(S)
         /\ \A x \in S : \E i \in DOMAIN SetToSeq(S) : SetToSeq(S)[i] = x
<1> DEFINE n == Cardinality(S)
<1>1. n \in Nat
  BY FS_CardinalityType
<1>2. ExistsBijection(1..n, S)
  BY FS_CardinalityType
<1>3. \E f \in [1..n -> S] : IsInjective(f)
  BY <1>2 DEF ExistsBijection, Bijection, Injection, IsInjective
<1>4. SetToSeq(S) \in [1..n -> S] /\ IsInjective(SetToSeq(S))
  BY <1>3 DEF SetToSeq
<1>5. SetToSeq(S) \in Injection(1..n, S)
  BY <1>4 DEF Injection, IsInjective
<1>6. Cardinality(1..n) = n
  BY <1>1, FS_Interval
<1>7. SetToSeq(S) \in Surjection(1..n, S)
  BY <1>5, <1>6, FS_Injection
<1> QED BY <1>1, <1>4, <1>7 DEF Surjection

(* The withdrawn prompts are each answered. *)
LEMMA CancelledLines ==
  ASSUME Types, NEW P \in SUBSET prompts
  PROVE  /\ Cancelled(P) \in Seq(Answers)
         /\ \A i \in DOMAIN Cancelled(P) : \E p \in P : Cancelled(P)[i] = Answer(p, FALSE)
         /\ \A p \in P : \E i \in DOMAIN Cancelled(P) : Cancelled(P)[i] = Answer(p, FALSE)
<1> DEFINE S == {Answer(p, FALSE) : p \in P}
<1>1. IsFiniteSet(P)
  <2>1. IsFiniteSet(prompts)
    BY DEF Types, ClientTypes
  <2> QED BY <2>1, FS_Subset
<1>2. IsFiniteSet(S)
  <2> DEFINE f == [p \in P |-> Answer(p, FALSE)]
  <2>1. f \in [P -> S]
    OBVIOUS
  <2>2. f \in Surjection(P, S)
    BY <2>1 DEF Surjection
  <2> HIDE DEF f, S
  <2> QED BY <1>1, <2>2, FS_Surjection
<1>3. S \subseteq Answers
  <2>1. ASSUME NEW p \in P PROVE Answer(p, FALSE) \in Answers
    <3>1. p \in Prompts
      BY DEF Types, ClientTypes
    <3> QED BY <3>1 DEF Prompts, Answer, Answers
  <2> QED BY <2>1
<1>4. SetToSeq(S) \in Seq(S) /\ \A x \in S : \E i \in DOMAIN SetToSeq(S) : SetToSeq(S)[i] = x
  BY <1>2, Listed
<1>5. Cancelled(P) = SetToSeq(S)
  BY DEF Cancelled
<1> HIDE DEF S
<1>6. SetToSeq(S) \in Seq(Answers)
  BY <1>3, <1>4
<1>7. \A i \in DOMAIN SetToSeq(S) : SetToSeq(S)[i] \in S
  BY <1>4
<1> QED BY <1>4, <1>5, <1>6, <1>7 DEF S

LEMMA NoLines ==
  ASSUME NEW S
  PROVE  <<>> \in Seq(S)
  OBVIOUS

LEMMA WrittenLines ==
  ASSUME ServerTypes, NEW k \in Connections, NEW lines \in Seq(InLines), Written(k, lines)
  PROVE  inbox' \in [Connections -> Seq(InLines)]
<1>1. inbox[k] \o lines \in Seq(InLines)
  BY DEF ServerTypes
<1> QED BY <1>1 DEF Written, ServerTypes

LEMMA UpdateLine ==
  ASSUME NEW s \in Sessions, NEW n \in Updates, NEW t
  PROVE  /\ Update(s, n, t) \in Notifications
         /\ <<Update(s, n, t)>> \in Seq(Notifications) /\ Len(<<Update(s, n, t)>>) = 1
<1>1. (t = "idle") \in BOOLEAN
  OBVIOUS
<1>2. Update(s, n, t) \in Notifications
  BY <1>1 DEF Update, Notifications
<1> QED BY <1>2

(* What a Session publishes keeps the types, and is only held back while a *)
(* request is handled.                                                     *)
LEMMA Published ==
  ASSUME HostTypes, ServerTypes, HandlerInv, NEW s \in Sessions,
         NEW updates \in Seq(Notifications), NEW requests \in Seq(AskLines),
         Publish(s, updates, requests), seq[s] + Len(updates) <= MaxUpdates, UNCHANGED handler
  PROVE  /\ seq' \in [Sessions -> Updates]
         /\ outbound' \in [Connections -> Seq(Notifications)]
         /\ wire' \in [Connections -> Seq(OutLines)]
         /\ missed' \in [Sessions -> SUBSET Losses]
         /\ \A k \in Connections : outbound'[k] # <<>> => Handling(k)'
         /\ seq' = [seq EXCEPT ![s] = @ + Len(updates)]
<1>1. seq' = [seq EXCEPT ![s] = @ + Len(updates)]
  BY DEF Publish
<1>2. seq[s] + Len(updates) \in Updates
  <2>1. Len(updates) \in Nat /\ seq[s] \in Updates
    BY DEF HostTypes
  <2> QED BY <2>1, AcpAssumption DEF Updates
<1>3. seq' \in [Sessions -> Updates]
  BY <1>1, <1>2 DEF HostTypes
<1>4. ASSUME NEW k \in Connections
      PROVE  outbound[k] \o updates \in Seq(Notifications)
  BY DEF ServerTypes
<1>5. outbound' \in [Connections -> Seq(Notifications)]
  BY <1>4 DEF Publish, ServerTypes
<1>6. ASSUME NEW k \in Connections
      PROVE  /\ wire[k] \in Seq(OutLines) /\ wire[k] \o requests \o updates \in Seq(OutLines)
             /\ wire[k] \o requests \o <<>> \in Seq(OutLines)
  <2>1. wire[k] \in Seq(OutLines)
    BY DEF ServerTypes
  <2>2. requests \in Seq(OutLines) /\ updates \in Seq(OutLines)
    BY DEF OutLines
  <2> QED BY <2>1, <2>2
<1>7. wire' \in [Connections -> Seq(OutLines)]
  BY <1>6 DEF Publish
<1>8. missed' \in [Sessions -> SUBSET Losses]
  BY DEF Publish, HostTypes, Losses
<1>9. ASSUME NEW k \in Connections, outbound'[k] # <<>> PROVE Handling(k)'
  <2>1. outbound[k] # <<>> \/ Handling(k)
    BY <1>9 DEF Publish
  <2>2. Handling(k)
    BY <2>1 DEF HandlerInv
  <2> QED BY <2>2 DEF Handling
<1> QED BY <1>1, <1>3, <1>5, <1>7, <1>8, <1>9

LEMMA InitInv == Init => Inv
<1> SUFFICES ASSUME Init PROVE Inv
  OBVIOUS
<1> USE Numbers DEF Init
<1>1. Free \in Handlers
  BY DEF Free, Handlers, Steps
<1>2. HostTypes /\ RoomInv
  BY DEF HostTypes, RoomInv, Turns
<1>3. ServerTypes
  BY <1>1 DEF ServerTypes
<1>4. ClientTypes
  BY FS_EmptySet DEF ClientTypes
<1>5. HandlerInv
  BY DEF HandlerInv, Handling, Free
<1>6. LinkInv
  BY DEF LinkInv, Connections
<1>7. LeaseInv /\ IdInv
  BY DEF LeaseInv, IdInv
<1> QED BY <1>2, <1>3, <1>4, <1>5, <1>6, <1>7 DEF Inv, Types

-----------------------------------------------------------------------------
(***************************************************************************)
(* What the Sessions do by themselves.                                     *)
(***************************************************************************)
LEMMA RunStartsInv ==
  ASSUME Inv, NEW s \in Sessions, RunStarts(s)
  PROVE  Inv'
<1> USE DEF Inv, Types, RunStarts, serverVars, clientVars
<1>1. HostTypes' /\ RoomInv'
  BY DEF HostTypes, RoomInv, Turns
<1>2. ServerTypes' /\ ClientTypes'
  BY DEF ServerTypes, ClientTypes
<1>3. HandlerInv' /\ LinkInv' /\ LeaseInv' /\ IdInv'
  BY DEF HandlerInv, Handling, LinkInv, LeaseInv, IdInv
<1> QED BY <1>1, <1>2, <1>3

(* One update of s, with what is asked before it. *)
LEMMA PublishInv ==
  ASSUME Inv, NEW s \in Sessions, NEW t \in Turns, NEW requests \in Seq(AskLines),
         seq[s] + 1 <= MaxUpdates,
         t # "idle" => seq[s] + 2 <= MaxUpdates,
         t = "asking" => seq[s] + 3 <= MaxUpdates,
         turn' = [turn EXCEPT ![s] = t],
         Publish(s, <<Update(s, seq[s] + 1, t)>>, requests),
         unheard' \in SUBSET Sessions,
         UNCHANGED <<owner, link, handler, attached, clientVars>>
  PROVE  /\ HostTypes' /\ RoomInv' /\ ClientTypes' /\ HandlerInv' /\ LeaseInv'
         /\ outbound' \in [Connections -> Seq(Notifications)]
         /\ wire' \in [Connections -> Seq(OutLines)]
<1> USE DEF Inv, Types
<1>1. seq[s] \in Nat /\ seq[s] + 1 \in Updates
  BY Numbers DEF HostTypes, Updates
<1>2. /\ <<Update(s, seq[s] + 1, t)>> \in Seq(Notifications)
      /\ Len(<<Update(s, seq[s] + 1, t)>>) = 1
  BY <1>1, UpdateLine
<1>3. /\ seq' \in [Sessions -> Updates]
      /\ outbound' \in [Connections -> Seq(Notifications)]
      /\ wire' \in [Connections -> Seq(OutLines)]
      /\ missed' \in [Sessions -> SUBSET Losses]
      /\ \A k \in Connections : outbound'[k] # <<>> => Handling(k)'
      /\ seq' = [seq EXCEPT ![s] = @ + 1]
  BY <1>2, Published
<1>4. HostTypes'
  BY <1>3 DEF HostTypes
<1>5. RoomInv'
  BY <1>1, <1>3, Numbers DEF RoomInv, HostTypes
<1>6. ClientTypes' /\ LeaseInv'
  BY DEF ClientTypes, clientVars, LeaseInv
<1>7. HandlerInv'
  BY <1>3 DEF HandlerInv, Handling
<1> QED BY <1>3, <1>4, <1>5, <1>6, <1>7

LEMMA RunAppendsInv ==
  ASSUME Inv, NEW s \in Sessions, RunAppends(s)
  PROVE  Inv'
<1> USE DEF Inv, Types
<1>1. seq[s] \in Nat /\ seq[s] + 2 <= MaxUpdates /\ seq[s] + 1 <= MaxUpdates
  BY AcpAssumption DEF HostTypes, RunAppends, Updates
<1>2. /\ HostTypes' /\ RoomInv' /\ ClientTypes' /\ HandlerInv' /\ LeaseInv'
      /\ outbound' \in [Connections -> Seq(Notifications)]
      /\ wire' \in [Connections -> Seq(OutLines)]
  <2>1. "running" \in Turns /\ <<>> \in Seq(AskLines) /\ unheard' \in SUBSET Sessions
    BY DEF Turns, RunAppends, HostTypes
  <2> QED BY <1>1, <2>1, PublishInv DEF RunAppends, PublishTurn
<1>3. ServerTypes' /\ LinkInv' /\ IdInv'
  BY <1>2 DEF RunAppends, ServerTypes, LinkInv, IdInv, clientVars
<1> QED BY <1>2, <1>3

LEMMA RunEndsInv ==
  ASSUME Inv, NEW s \in Sessions, RunEnds(s)
  PROVE  Inv'
<1> USE DEF Inv, Types
<1>1. seq[s] + 1 <= MaxUpdates
  BY DEF RoomInv, RunEnds
<1>2. /\ HostTypes' /\ RoomInv' /\ ClientTypes' /\ HandlerInv' /\ LeaseInv'
      /\ outbound' \in [Connections -> Seq(Notifications)]
      /\ wire' \in [Connections -> Seq(OutLines)]
  <2>1. "idle" \in Turns /\ <<>> \in Seq(AskLines) /\ unheard' \in SUBSET Sessions
    BY DEF Turns, RunEnds, HostTypes
  <2> QED BY <1>1, <2>1, PublishInv DEF RunEnds, PublishTurn
<1>3. ServerTypes' /\ LinkInv' /\ IdInv'
  BY <1>2 DEF RunEnds, ServerTypes, LinkInv, IdInv, clientVars
<1> QED BY <1>2, <1>3

LEMMA RunAsksInv ==
  ASSUME Inv, NEW s \in Sessions, RunAsks(s)
  PROVE  Inv'
<1> USE DEF Inv, Types
<1>1. seq[s] \in Nat /\ seq[s] + 3 <= MaxUpdates /\ seq[s] + 2 <= MaxUpdates
      /\ seq[s] + 1 <= MaxUpdates /\ seq[s] + 1 \in Updates
  BY Numbers DEF HostTypes, RunAsks, Updates
<1>2. PICK k \in Connections :
        /\ s \in attached[k]
        /\ link[k] = "up"
        /\ asks' = [asks EXCEPT ![k] = @ \cup {[id |-> nextId[k], s |-> s, n |-> seq[s] + 1]}]
        /\ nextId' = [nextId EXCEPT ![k] = @ + 1]
        /\ turn' = [turn EXCEPT ![s] = "asking"]
        /\ Publish(s, <<Update(s, seq[s] + 1, "asking")>>,
             <<[type |-> "ask", id |-> nextId[k], s |-> s, n |-> seq[s] + 1]>>)
  BY DEF RunAsks
<1>3. [type |-> "ask", id |-> nextId[k], s |-> s, n |-> seq[s] + 1] \in AskLines
      /\ [id |-> nextId[k], s |-> s, n |-> seq[s] + 1] \in Asks
  BY <1>1 DEF AskLines, Asks, ServerTypes
<1>4. /\ HostTypes' /\ RoomInv' /\ ClientTypes' /\ HandlerInv' /\ LeaseInv'
      /\ outbound' \in [Connections -> Seq(Notifications)]
      /\ wire' \in [Connections -> Seq(OutLines)]
  <2>1. "asking" \in Turns /\ unheard' \in SUBSET Sessions
        /\ <<[type |-> "ask", id |-> nextId[k], s |-> s, n |-> seq[s] + 1]>> \in Seq(AskLines)
    BY <1>3 DEF Turns, RunAsks, HostTypes
  <2>2. UNCHANGED <<owner, link, handler, attached, clientVars>>
    BY DEF RunAsks
  <2> QED BY <1>1, <1>2, <2>1, <2>2, PublishInv
<1>5. ServerTypes'
  <2>1. asks' \in [Connections -> SUBSET Asks] /\ nextId' \in [Connections -> Nat]
    BY <1>2, <1>3 DEF ServerTypes
  <2>2. UNCHANGED <<link, inbox, handler, attached>>
    BY DEF RunAsks
  <2> QED BY <1>4, <2>1, <2>2 DEF ServerTypes
<1>6. LinkInv'
  BY <1>2 DEF RunAsks, LinkInv, clientVars, ServerTypes
<1>7. IdInv'
  <2>1. nextId[k] \in Nat /\ \A a \in asks[k] : a.id \in Nat /\ a.id < nextId[k]
    BY DEF IdInv, ServerTypes, Asks
  <2>2. [id |-> nextId[k], s |-> s, n |-> seq[s] + 1].id = nextId[k]
    OBVIOUS
  <2> QED BY <1>2, <2>1, <2>2 DEF IdInv, ServerTypes
<1> QED BY <1>4, <1>5, <1>6, <1>7

-----------------------------------------------------------------------------
(***************************************************************************)
(* The lines of a connection.                                              *)
(***************************************************************************)
(* A line that is handled comes from a socket that was in use. *)
LEMMA TakenLine ==
  ASSUME Inv, NEW k \in Connections, inbox[k] # <<>>, handler[k] = Free,
         inbox' = [inbox EXCEPT ![k] = Tail(@)]
  PROVE  /\ Head(inbox[k]) \in InLines
         /\ inbox' \in [Connections -> Seq(InLines)]
         /\ link[k] \in {"up", "down"}
         /\ outbound[k] = <<>>
         /\ Free.step = "free"
<1> USE DEF Inv, Types, ServerTypes
<1>1. inbox[k] \in Seq(InLines)
  OBVIOUS
<1>2. Head(inbox[k]) \in InLines /\ Tail(inbox[k]) \in Seq(InLines)
  BY <1>1
<1>3. inbox' \in [Connections -> Seq(InLines)]
  BY <1>2
<1>4. link[k] \in {"up", "down"}
  BY DEF LinkInv
<1>5. Free.step = "free"
  BY DEF Free
<1>6. outbound[k] = <<>>
  BY <1>5 DEF HandlerInv, Handling
<1> QED BY <1>2, <1>3, <1>4, <1>5, <1>6

LEMMA TakenRequest ==
  ASSUME Inv, NEW k \in Connections, NEW type \in RequestTypes, Takes(k, type)
  PROVE  /\ Head(inbox[k]) \in Requests /\ Head(inbox[k]).s \in Sessions
         /\ Head(inbox[k]).why \in Whys /\ Head(inbox[k]).gen \in Nat
         /\ inbox' \in [Connections -> Seq(InLines)]
         /\ link[k] \in {"up", "down"} /\ handler[k] = Free /\ outbound[k] = <<>>
<1>1. /\ Head(inbox[k]) \in InLines
      /\ inbox' \in [Connections -> Seq(InLines)]
      /\ link[k] \in {"up", "down"} /\ handler[k] = Free /\ outbound[k] = <<>>
  BY TakenLine DEF Takes
<1>2. Head(inbox[k]).type = type
  BY DEF Takes
<1>3. Head(inbox[k]) \notin Answers
  BY <1>2 DEF Answers, RequestTypes
<1>4. Head(inbox[k]) \in Requests
  BY <1>1, <1>3 DEF InLines
<1> QED BY <1>1, <1>4 DEF Requests

(* A handler that waits, and one that has its response. *)
LEMMA Waiting ==
  ASSUME Inv, NEW k \in Connections, NEW req \in {"resume", "cancel", "close"},
         NEW s \in Sessions, NEW step \in {"snapshot", "waiting"},
         Waits(k, req, s, step), Head(inbox[k]) \in Requests, UNCHANGED outbound
  PROVE  /\ handler' \in [Connections -> Handlers] /\ HandlerInv'
         /\ handler'[k].step = step /\ handler'[k].s = s /\ handler'[k].req = req
         /\ \A j \in Connections \ {k} : handler'[j] = handler[j]
<1> DEFINE g == [Free EXCEPT !.req = req, !.s = s]
           h == [g EXCEPT !.step = step, !.why = Head(inbox[k]).why, !.gen = Head(inbox[k]).gen]
<1>0. Head(inbox[k]).why \in Whys /\ Head(inbox[k]).gen \in Nat
  BY DEF Requests
<1>1. /\ h.step = step /\ h.s = s /\ h.req = req /\ h.why = Head(inbox[k]).why
      /\ h \in Handlers
  <2>0. Free \in Handlers
    BY Numbers DEF Free, Handlers, Steps
  <2>1. g \in Handlers /\ g.s = s /\ g.req = req
    <3> DEFINE f == Free
    <3>1. [f EXCEPT !.req = req, !.s = s] \in Handlers
          /\ [f EXCEPT !.req = req, !.s = s].s = s /\ [f EXCEPT !.req = req, !.s = s].req = req
      <4>1. f \in Handlers
        BY <2>0
      <4> HIDE DEF f
      <4> QED BY <4>1 DEF Handlers
    <3> QED BY <3>1
  <2> HIDE DEF g
  <2> QED BY <1>0, <2>1 DEF Handlers, Steps
<1>2. handler' = [handler EXCEPT ![k] = h]
  BY DEF Waits
<1> HIDE DEF h
<1>3. handler' \in [Connections -> Handlers] /\ handler'[k] = h
      /\ \A j \in Connections \ {k} : handler'[j] = handler[j]
  BY <1>1, <1>2 DEF Inv, Types, ServerTypes
<1>4. HandlerInv'
  BY <1>0, <1>1, <1>3 DEF Inv, HandlerInv, Handling
<1> QED BY <1>1, <1>3, <1>4

LEMMA Responding ==
  ASSUME Inv, NEW k \in Connections, NEW messages \in Seq(Notifications \cup Responses),
         Respond(k, messages),
         outbound' = outbound \/ outbound' = [outbound EXCEPT ![k] = <<>>],
         outbound'[k] = <<>>
  PROVE  /\ handler' \in [Connections -> Handlers] /\ HandlerInv'
         /\ outbound' \in [Connections -> Seq(Notifications)]
         /\ handler'[k].step = "reply" /\ handler'[k].batch = messages
         /\ \A j \in Connections \ {k} : handler'[j] = handler[j]
<1> DEFINE h == [Free EXCEPT !.step = "reply", !.batch = messages]
<1>1. h.step = "reply" /\ h.batch = messages /\ h \in Handlers
  BY Numbers DEF Free, Handlers, Steps
<1>2. handler' = [handler EXCEPT ![k] = h]
  BY DEF Respond
<1> HIDE DEF h
<1>3. handler' \in [Connections -> Handlers] /\ handler'[k] = h
      /\ \A j \in Connections \ {k} : handler'[j] = handler[j]
  BY <1>1, <1>2 DEF Inv, Types, ServerTypes
<1>4. outbound' \in [Connections -> Seq(Notifications)]
      /\ \A j \in Connections \ {k} : outbound'[j] = outbound[j]
  BY NoLines DEF Inv, Types, ServerTypes
<1>5. HandlerInv'
  BY <1>1, <1>3, <1>4 DEF Inv, HandlerInv, Handling
<1> QED BY <1>1, <1>3, <1>4, <1>5

-----------------------------------------------------------------------------
(***************************************************************************)
(* The handlers of the Server.                                             *)
(***************************************************************************)
LEMMA TakeAnswerInv ==
  ASSUME Inv, NEW k \in Connections, TakeAnswer(k)
  PROVE  Inv'
<1> DEFINE m == Head(inbox[k])
           of == {a \in asks[k] : a.id = m.id}
<1>1. /\ inbox' \in [Connections -> Seq(InLines)] /\ link[k] \in {"up", "down"}
  BY TakenLine DEF TakeAnswer
<1>2. asks' = [asks EXCEPT ![k] = @ \ of]
  BY DEF TakeAnswer
<1>3. asks' \in [Connections -> SUBSET Asks] /\ \A j \in Connections : asks'[j] \subseteq asks[j]
  BY <1>2 DEF Inv, Types, ServerTypes
<1>4. UNCHANGED <<unheard, owner, link, handler, attached, nextId, clientVars, commands, faults>>
      /\ inbox' = [inbox EXCEPT ![k] = Tail(@)]
  BY DEF TakeAnswer
<1>5. /\ HostTypes' /\ RoomInv' /\ ClientTypes' /\ HandlerInv' /\ LeaseInv'
      /\ outbound' \in [Connections -> Seq(Notifications)]
      /\ wire' \in [Connections -> Seq(OutLines)]
  <2>1. CASE \E a \in of : Asked(a)
    <3>1. PICK a \in of : PublishTurn(a.s, "running")
      BY <2>1 DEF TakeAnswer
    <3>2. PICK b \in of : Asked(b)
      BY <2>1
    <3>3. a = b /\ a.s \in Sessions /\ turn[a.s] = "asking"
      BY <3>2 DEF Inv, IdInv, Types, ServerTypes, Asks, Asked
    <3>4. seq[a.s] \in Nat /\ seq[a.s] + 2 <= MaxUpdates /\ seq[a.s] + 1 <= MaxUpdates
      BY <3>3, Numbers DEF Inv, RoomInv, Types, HostTypes, Updates
    <3>5. "running" \in Turns /\ <<>> \in Seq(AskLines) /\ unheard' \in SUBSET Sessions
      BY <1>4, NoLines DEF Turns, Inv, Types, HostTypes
    <3> HIDE DEF of
    <3> QED BY <1>4, <3>1, <3>3, <3>4, <3>5, PublishInv DEF PublishTurn
  <2>2. CASE UNCHANGED <<seq, turn, outbound, wire, missed>>
    BY <1>4, <2>2 DEF Inv, Types, HostTypes, RoomInv, ClientTypes, clientVars, HandlerInv, Handling,
                      LeaseInv, ServerTypes
  <2> QED BY <2>1, <2>2 DEF TakeAnswer
<1>6. ServerTypes'
  BY <1>1, <1>3, <1>4, <1>5 DEF Inv, Types, ServerTypes
<1>7. LinkInv'
  BY <1>1, <1>3, <1>4 DEF Inv, Types, ServerTypes, LinkInv, clientVars
<1>8. IdInv'
  BY <1>3, <1>4 DEF Inv, IdInv
<1> QED BY <1>5, <1>6, <1>7, <1>8 DEF Inv, Types

LEMMA RefusedLine ==
  ASSUME NEW m, m.s \in Sessions, m.why \in Whys, m.gen \in Nat
  PROVE  Refused(m) \in Responses /\ <<Refused(m)>> \in Seq(Notifications \cup Responses)
<1>1. Refused(m) \in Responses
  BY DEF Refused, Responses
<1> QED BY <1>1

LEMMA TakeResumeInv ==
  ASSUME Inv, NEW k \in Connections, TakeResume(k)
  PROVE  Inv'
<1>a. PICK m : m = Head(inbox[k])
  OBVIOUS
<1>b. PICK s : s = m.s
  OBVIOUS
<1>1. /\ m \in Requests /\ s \in Sessions /\ m.why \in Whys /\ m.gen \in Nat
      /\ inbox' \in [Connections -> Seq(InLines)]
      /\ link[k] \in {"up", "down"} /\ outbound[k] = <<>>
  <2>1. "resume" \in RequestTypes /\ Takes(k, "resume")
    BY DEF RequestTypes, TakeResume
  <2> QED BY <1>a, <1>b, <2>1, TakenRequest
<1>2. UNCHANGED <<seq, turn, unheard, link, wire, outbound, asks, nextId, clientVars>>
      /\ inbox' = [inbox EXCEPT ![k] = Tail(@)]
  BY DEF TakeResume, Takes
<1>3. \/ /\ owner[s] \in {0, k} /\ owner' = [owner EXCEPT ![s] = k]
         /\ attached' = [attached EXCEPT ![k] = @ \cup {s}]
         /\ Waits(k, "resume", s, "snapshot")
         /\ UNCHANGED missed
      \/ /\ Respond(k, <<Refused(m)>>)
         /\ missed' = [missed EXCEPT ![s] = @ \cup StaysEmpty(m)]
         /\ UNCHANGED <<owner, attached>>
  BY <1>a, <1>b DEF TakeResume
<1>4. /\ handler' \in [Connections -> Handlers] /\ HandlerInv'
      /\ \A j \in Connections \ {k} : handler'[j] = handler[j]
  <2>1. CASE Waits(k, "resume", s, "snapshot")
    BY <1>1, <1>2, <1>a, <2>1, Waiting
  <2>2. CASE Respond(k, <<Refused(m)>>)
    <3>1. <<Refused(m)>> \in Seq(Notifications \cup Responses)
      BY <1>1, <1>b, RefusedLine
    <3> QED BY <1>1, <1>2, <2>2, <3>1, Responding
  <2> QED BY <1>3, <2>1, <2>2
<1>5. /\ attached' \in [Connections -> SUBSET Sessions]
      /\ owner' \in [Sessions -> 0..MaxConnections]
      /\ \A j \in Connections \ {k} : attached'[j] = attached[j]
      /\ LeaseInv'
  <2>1. CASE owner[s] \in {0, k} /\ owner' = [owner EXCEPT ![s] = k]
             /\ attached' = [attached EXCEPT ![k] = @ \cup {s}]
    <3>1. k \in 0..MaxConnections /\ k # 0 /\ \A j \in Connections : j # 0
      BY AcpAssumption DEF Connections
    <3> QED BY <1>1, <2>1, <3>1 DEF Inv, Types, HostTypes, ServerTypes, LeaseInv
  <2>2. CASE UNCHANGED <<owner, attached>>
    BY <2>2 DEF Inv, Types, HostTypes, ServerTypes, LeaseInv
  <2> QED BY <1>3, <2>1, <2>2
<1>6. missed' \in [Sessions -> SUBSET Losses]
  BY <1>1, <1>3 DEF Inv, Types, HostTypes, StaysEmpty, Losses
<1>7. HostTypes' /\ RoomInv' /\ ClientTypes' /\ IdInv'
  BY <1>2, <1>5, <1>6 DEF Inv, Types, HostTypes, RoomInv, ClientTypes, clientVars, IdInv
<1>8. ServerTypes'
  BY <1>1, <1>2, <1>4, <1>5 DEF Inv, Types, ServerTypes
<1>9. LinkInv'
  BY <1>1, <1>2, <1>4, <1>5 DEF Inv, Types, ServerTypes, LinkInv, clientVars
<1> QED BY <1>4, <1>5, <1>7, <1>8, <1>9 DEF Inv, Types

LEMMA ResumeReadsInv ==
  ASSUME Inv, NEW k \in Connections, ResumeReads(k)
  PROVE  Inv'
<1> DEFINE s == handler[k].s
           h == [handler[k] EXCEPT !.step = "replay", !.n = seq[s], !.idle = turn[s] = "idle"]
<1>1. handler[k].step = "snapshot" /\ handler[k] \in Handlers /\ s \in Sessions
      /\ handler[k].why \in Whys
  BY DEF ResumeReads, At, Inv, Types, ServerTypes, HandlerInv, Handling
<1>2. h \in Handlers /\ h.step = "replay" /\ h.s = s /\ h.why = handler[k].why
  <2>1. seq[s] \in Updates /\ (turn[s] = "idle") \in BOOLEAN
    BY <1>1 DEF Inv, Types, HostTypes
  <2> HIDE DEF s
  <2> DEFINE f == handler[k]
  <2>2. f \in Handlers
    BY <1>1
  <2>3. [f EXCEPT !.step = "replay", !.n = seq[s], !.idle = turn[s] = "idle"] \in Handlers
        /\ [f EXCEPT !.step = "replay", !.n = seq[s], !.idle = turn[s] = "idle"].step = "replay"
        /\ [f EXCEPT !.step = "replay", !.n = seq[s], !.idle = turn[s] = "idle"].s = f.s
        /\ [f EXCEPT !.step = "replay", !.n = seq[s], !.idle = turn[s] = "idle"].why = f.why
    <3> HIDE DEF f
    <3> QED BY <2>1, <2>2 DEF Handlers, Steps
  <2> QED BY <2>3 DEF s
<1>3. handler' = [handler EXCEPT ![k] = h]
  BY DEF ResumeReads, Inv, Types, ServerTypes
<1> HIDE DEF h
<1>4. handler' \in [Connections -> Handlers] /\ handler'[k] = h
      /\ \A j \in Connections \ {k} : handler'[j] = handler[j]
  BY <1>2, <1>3 DEF Inv, Types, ServerTypes
<1>5. UNCHANGED <<hostVars, link, inbox, wire, outbound, attached, asks, nextId, clientVars>>
  BY DEF ResumeReads
<1>6. HandlerInv'
  BY <1>1, <1>2, <1>4, <1>5 DEF Inv, HandlerInv, Handling
<1>7. missed' \in [Sessions -> SUBSET Losses]
  BY DEF ResumeReads, Inv, Types, HostTypes
<1>8. HostTypes' /\ ServerTypes' /\ ClientTypes' /\ RoomInv' /\ IdInv' /\ LeaseInv'
  BY <1>4, <1>5, <1>7 DEF Inv, Types, HostTypes, ServerTypes, ClientTypes, hostVars, clientVars,
                          RoomInv, IdInv, LeaseInv
<1>9. LinkInv'
  <2>1. link[k] \notin {"unused", "gone"}
    BY <1>1 DEF Inv, LinkInv, Free
  <2> QED BY <1>4, <1>5, <2>1 DEF Inv, LinkInv, clientVars
<1> QED BY <1>6, <1>8, <1>9 DEF Inv, Types

(* A Session that is detached had its run go on without an answer. *)
LEMMA ResumeFailsInv ==
  ASSUME Inv, NEW k \in Connections, ResumeFails(k), handler[k].s \in attached[k]
  PROVE  Inv'
<1>a. PICK s : s = handler[k].s
  OBVIOUS
<1>1. handler[k].step = "snapshot" /\ handler[k] \in Handlers /\ s \in Sessions
      /\ handler[k].why \in Whys
  BY <1>a DEF ResumeFails, At, Inv, Types, ServerTypes, HandlerInv, Handling
<1>2. Respond(k, <<Refused(handler[k])>> \o outbound[k])
      /\ <<Refused(handler[k])>> \o outbound[k] \in Seq(Notifications \cup Responses)
  <2>1. handler[k].gen \in Nat
    BY <1>1 DEF Handlers
  <2>2. <<Refused(handler[k])>> \in Seq(Notifications \cup Responses)
    BY <1>1, <1>a, <2>1, RefusedLine
  <2>3. outbound[k] \in Seq(Notifications \cup Responses)
    BY DEF Inv, Types, ServerTypes
  <2> QED BY <2>2, <2>3 DEF ResumeFails
<1>3. outbound' = [outbound EXCEPT ![k] = <<>>] /\ outbound'[k] = <<>>
  BY DEF ResumeFails, Inv, Types, ServerTypes
<1>4. /\ handler' \in [Connections -> Handlers] /\ HandlerInv'
      /\ outbound' \in [Connections -> Seq(Notifications)]
      /\ \A j \in Connections \ {k} : handler'[j] = handler[j]
  BY <1>2, <1>3, Responding
<1>5. UNCHANGED <<unheard, link, inbox, wire, asks, nextId, clientVars>>
  BY DEF ResumeFails
<1>6. \/ /\ missed' = [missed EXCEPT ![s] = @ \cup StaysEmpty(handler[k])]
         /\ UNCHANGED <<seq, turn, owner, attached>>
      \/ /\ owner' = [owner EXCEPT ![s] = 0]
         /\ attached' = [attached EXCEPT ![k] = @ \ {s}]
         /\ turn' = [turn EXCEPT ![s] = IF turn[s] = "asking" THEN "running" ELSE @]
         /\ seq' = [seq EXCEPT ![s] = IF turn[s] = "asking" THEN @ + 1 ELSE @]
         /\ missed' = [missed EXCEPT ![s] = @ \cup {"detached"}]
  BY <1>a DEF ResumeFails
<1>7. missed' \in [Sessions -> SUBSET Losses]
  BY <1>1, <1>6 DEF Inv, Types, HostTypes, StaysEmpty, Losses
<1>8. /\ attached' \in [Connections -> SUBSET Sessions]
      /\ owner' \in [Sessions -> 0..MaxConnections]
      /\ \A j \in Connections \ {k} : attached'[j] = attached[j]
      /\ attached'[k] \subseteq attached[k]
      /\ LeaseInv'
  <2>1. CASE UNCHANGED <<owner, attached>>
    BY <2>1 DEF Inv, Types, HostTypes, ServerTypes, LeaseInv
  <2>2. CASE owner' = [owner EXCEPT ![s] = 0] /\ attached' = [attached EXCEPT ![k] = @ \ {s}]
    <3>1. 0 \in 0..MaxConnections /\ \A j \in Connections : j # 0
      BY AcpAssumption DEF Connections
    <3>2. s \in attached[k]
      BY <1>a
    <3>3. owner[s] = k
      BY <1>1, <3>2 DEF Inv, LeaseInv
    <3> QED BY <1>1, <2>2, <3>1, <3>3 DEF Inv, Types, HostTypes, ServerTypes, LeaseInv
  <2> QED BY <1>6, <2>1, <2>2
<1>9. /\ seq' \in [Sessions -> Updates] /\ turn' \in [Sessions -> Turns] /\ RoomInv'
  <2>1. CASE UNCHANGED <<seq, turn>>
    BY <2>1 DEF Inv, Types, HostTypes, RoomInv
  <2>2. CASE /\ turn' = [turn EXCEPT ![s] = IF turn[s] = "asking" THEN "running" ELSE @]
             /\ seq' = [seq EXCEPT ![s] = IF turn[s] = "asking" THEN @ + 1 ELSE @]
    <3>1. seq \in [Sessions -> Updates] /\ turn \in [Sessions -> Turns] /\ "running" \in Turns
      BY DEF Inv, Types, HostTypes, Turns
    <3>2. seq[s] \in Nat /\ (turn[s] = "asking" => seq[s] + 1 \in Updates /\ seq[s] + 2 <= MaxUpdates)
      <4>1. seq[s] \in Nat /\ (turn[s] = "asking" => seq[s] + 2 <= MaxUpdates)
        BY <1>1, <3>1, Numbers DEF Inv, RoomInv
      <4> QED BY <4>1, Numbers DEF Updates
    <3>3. seq' \in [Sessions -> Updates] /\ turn' \in [Sessions -> Turns]
      BY <1>1, <2>2, <3>1, <3>2
    <3>4. ASSUME NEW r \in Sessions
          PROVE  /\ turn'[r] # "idle" => seq'[r] + 1 <= MaxUpdates
                 /\ turn'[r] = "asking" => seq'[r] + 2 <= MaxUpdates
      <4>1. /\ turn[r] # "idle" => seq[r] + 1 <= MaxUpdates
            /\ turn[r] = "asking" => seq[r] + 2 <= MaxUpdates
        BY DEF Inv, RoomInv
      <4>2. CASE r = s
        BY <1>1, <2>2, <3>1, <3>2, <4>1, <4>2, Numbers
      <4>3. CASE r # s
        BY <2>2, <3>1, <4>1, <4>3
      <4> QED BY <4>2, <4>3
    <3> QED BY <3>3, <3>4 DEF RoomInv
  <2> QED BY <1>6, <2>1, <2>2
<1>10. HostTypes' /\ ServerTypes' /\ ClientTypes' /\ IdInv'
  BY <1>4, <1>5, <1>7, <1>8, <1>9 DEF Inv, Types, HostTypes, ServerTypes, ClientTypes, clientVars,
                                      IdInv
<1>11. LinkInv'
  <2>1. link[k] \notin {"unused", "gone"}
    BY <1>1 DEF Inv, LinkInv, Free
  <2> QED BY <1>4, <1>5, <1>8, <2>1 DEF Inv, LinkInv, clientVars
<1> QED BY <1>4, <1>8, <1>9, <1>10, <1>11 DEF Inv, Types

LEMMA ResumeReplaysInv ==
  ASSUME Inv, NEW k \in Connections, ResumeReplays(k)
  PROVE  Inv'
<1> DEFINE m == [type |-> "replayed", s |-> handler[k].s, n |-> handler[k].n,
                 idle |-> handler[k].idle, why |-> handler[k].why, gen |-> handler[k].gen]
<1>1. handler[k].step = "replay" /\ handler[k] \in Handlers /\ handler[k].s \in Sessions
      /\ handler[k].why \in Whys
  BY DEF ResumeReplays, At, Inv, Types, ServerTypes, HandlerInv, Handling
<1>2. <<m>> \in Seq(Notifications \cup Responses)
  <2>1. handler[k].n \in Updates /\ handler[k].idle \in BOOLEAN /\ handler[k].gen \in Nat
    BY <1>1 DEF Handlers
  <2>2. m \in Responses
    BY <1>1, <2>1 DEF Responses
  <2> HIDE DEF m
  <2> QED BY <2>2
<1>3. outbound' = [outbound EXCEPT ![k] = <<>>] /\ outbound'[k] = <<>>
  BY DEF ResumeReplays, Inv, Types, ServerTypes
<1>4. Respond(k, <<m>>)
  BY DEF ResumeReplays
<1> HIDE DEF m
<1>5. /\ handler' \in [Connections -> Handlers] /\ HandlerInv'
      /\ outbound' \in [Connections -> Seq(Notifications)]
      /\ \A j \in Connections \ {k} : handler'[j] = handler[j]
  BY <1>2, <1>3, <1>4, Responding
<1>6. UNCHANGED <<hostVars, link, inbox, wire, attached, asks, nextId, clientVars>>
  BY DEF ResumeReplays
<1>7. missed' \in [Sessions -> SUBSET Losses]
  BY DEF ResumeReplays, Inv, Types, HostTypes, Losses
<1>8. HostTypes' /\ ServerTypes' /\ ClientTypes' /\ RoomInv' /\ IdInv' /\ LeaseInv'
  BY <1>5, <1>6, <1>7 DEF Inv, Types, HostTypes, ServerTypes, ClientTypes, hostVars, clientVars,
                          RoomInv, IdInv, LeaseInv
<1>9. LinkInv'
  <2>1. link[k] \notin {"unused", "gone"}
    BY <1>1 DEF Inv, LinkInv, Free
  <2> QED BY <1>5, <1>6, <2>1 DEF Inv, LinkInv, clientVars
<1> QED BY <1>5, <1>8, <1>9 DEF Inv, Types

LEMMA ReplyInv ==
  ASSUME Inv, NEW k \in Connections, Reply(k)
  PROVE  Inv'
<1>1. Free \in Handlers /\ Free.step = "free"
  BY Numbers DEF Free, Handlers, Steps
<1>2. handler' \in [Connections -> Handlers] /\ handler'[k] = Free /\ handler[k].step = "reply"
      /\ \A j \in Connections \ {k} : handler'[j] = handler[j]
  BY <1>1 DEF Reply, Inv, Types, ServerTypes
<1>3. wire' \in [Connections -> Seq(OutLines)]
  <2>1. handler[k].batch \in Seq(Notifications \cup Responses)
    BY DEF Inv, Types, ServerTypes, Handlers
  <2>2. handler[k].batch \in Seq(OutLines)
    BY <2>1 DEF OutLines
  <2>3. wire[k] \o handler[k].batch \in Seq(OutLines)
    BY <2>2 DEF Inv, Types, ServerTypes
  <2> QED BY <2>3 DEF Reply, Inv, Types, ServerTypes
<1>4. UNCHANGED <<hostVars, link, inbox, outbound, attached, asks, nextId, clientVars, missed>>
  BY DEF Reply
<1>5. HandlerInv'
  BY <1>1, <1>2, <1>4 DEF Inv, HandlerInv, Handling
<1>6. HostTypes' /\ ServerTypes' /\ ClientTypes' /\ RoomInv' /\ IdInv' /\ LeaseInv'
  BY <1>2, <1>3, <1>4 DEF Inv, Types, HostTypes, ServerTypes, ClientTypes, hostVars, clientVars,
                          RoomInv, IdInv, LeaseInv
<1>7. LinkInv'
  BY <1>2, <1>4 DEF Inv, LinkInv, clientVars
<1> QED BY <1>5, <1>6, <1>7 DEF Inv, Types

(* A request that is answered in one step. *)
LEMMA AnsweredInv ==
  ASSUME Inv, NEW k \in Connections, NEW type \in RequestTypes, Takes(k, type),
         NEW messages \in Seq(Notifications \cup Responses), Respond(k, messages),
         HostTypes', RoomInv',
         UNCHANGED <<owner, link, wire, outbound, attached, asks, nextId, clientVars>>
  PROVE  Inv'
<1>1. /\ inbox' \in [Connections -> Seq(InLines)]
      /\ link[k] \in {"up", "down"} /\ outbound[k] = <<>>
  BY TakenRequest
<1>2. inbox' = [inbox EXCEPT ![k] = Tail(@)]
  BY DEF Takes
<1>3. /\ handler' \in [Connections -> Handlers] /\ HandlerInv'
      /\ \A j \in Connections \ {k} : handler'[j] = handler[j]
  BY <1>1, Responding
<1>4. ServerTypes' /\ ClientTypes' /\ IdInv' /\ LeaseInv'
  BY <1>1, <1>3 DEF Inv, Types, ServerTypes, ClientTypes, clientVars, IdInv, LeaseInv
<1>5. LinkInv'
  BY <1>1, <1>2, <1>3 DEF Inv, Types, ServerTypes, LinkInv, clientVars
<1> QED BY <1>3, <1>4, <1>5 DEF Inv, Types

LEMMA TakePromptInv ==
  ASSUME Inv, NEW k \in Connections, TakePrompt(k)
  PROVE  Inv'
<1> DEFINE s == Head(inbox[k]).s
<1>1. "prompt" \in RequestTypes /\ Takes(k, "prompt") /\ s \in Sessions
  <2>1. "prompt" \in RequestTypes /\ Takes(k, "prompt")
    BY DEF RequestTypes, TakePrompt
  <2> QED BY <2>1, TakenRequest
<1>2. UNCHANGED <<unheard, owner, link, wire, outbound, attached, asks, nextId, clientVars, missed>>
  BY DEF TakePrompt
<1>3. CASE /\ turn[s] = "idle" /\ seq[s] + 2 <= MaxUpdates
           /\ turn' = [turn EXCEPT ![s] = "starting"]
           /\ seq' = [seq EXCEPT ![s] = @ + 1]
           /\ Respond(k, <<Update(s, seq[s] + 1, "starting")>>)
  <2> HIDE DEF s
  <2>1. seq[s] \in Nat /\ seq[s] + 1 \in Updates
    BY <1>1, <1>3, AcpAssumption DEF Inv, Types, HostTypes, Updates
  <2>2. HostTypes'
    BY <1>2, <1>3, <2>1 DEF Inv, Types, HostTypes, Turns
  <2>3. RoomInv'
    BY <1>1, <1>2, <1>3, <2>1, AcpAssumption DEF Inv, Types, HostTypes, RoomInv
  <2>4. <<Update(s, seq[s] + 1, "starting")>> \in Seq(Notifications \cup Responses)
    <3>1. Update(s, seq[s] + 1, "starting") \in Notifications
      BY <1>1, <2>1, UpdateLine
    <3> QED BY <3>1
  <2> QED BY <1>1, <1>2, <1>3, <2>2, <2>3, <2>4, AnsweredInv
<1>4. CASE Respond(k, <<>>) /\ UNCHANGED <<turn, seq>>
  <2>1. HostTypes' /\ RoomInv'
    BY <1>2, <1>4 DEF Inv, Types, HostTypes, RoomInv
  <2> QED BY <1>1, <1>2, <1>4, <2>1, NoLines, AnsweredInv
<1> QED BY <1>3, <1>4 DEF TakePrompt

LEMMA TakeNavigateInv ==
  ASSUME Inv, NEW k \in Connections, TakeNavigate(k)
  PROVE  Inv'
<1> DEFINE s == Head(inbox[k]).s
<1>1. "navigate" \in RequestTypes /\ Takes(k, "navigate") /\ s \in Sessions
      /\ Head(inbox[k]).gen \in Nat
  <2>1. "navigate" \in RequestTypes /\ Takes(k, "navigate")
    BY DEF RequestTypes, TakeNavigate
  <2> QED BY <2>1, TakenRequest
<1>2. UNCHANGED <<turn, unheard, owner, link, wire, outbound, attached, asks, nextId, clientVars,
                  missed>>
  BY DEF TakeNavigate
<1>3. CASE /\ turn[s] = "idle" /\ seq[s] < MaxUpdates
           /\ seq' = [seq EXCEPT ![s] = @ + 1]
           /\ Respond(k, <<[type |-> "navigated", s |-> s, gen |-> Head(inbox[k]).gen], Update(s, seq[s] + 1, "idle")>>)
  <2> HIDE DEF s
  <2>1. seq[s] \in Nat /\ seq[s] + 1 \in Updates
    BY <1>1, <1>3, AcpAssumption DEF Inv, Types, HostTypes, Updates
  <2>2. HostTypes'
    BY <1>2, <1>3, <2>1 DEF Inv, Types, HostTypes
  <2>3. RoomInv'
    BY <1>1, <1>2, <1>3 DEF Inv, Types, HostTypes, RoomInv
  <2>4. <<[type |-> "navigated", s |-> s, gen |-> Head(inbox[k]).gen], Update(s, seq[s] + 1, "idle")>>
          \in Seq(Notifications \cup Responses)
    <3>1. Update(s, seq[s] + 1, "idle") \in Notifications \cup Responses
      BY <1>1, <2>1, UpdateLine
    <3>2. [type |-> "navigated", s |-> s, gen |-> Head(inbox[k]).gen] \in Notifications \cup Responses
      BY <1>1 DEF Responses
    <3> QED BY <3>1, <3>2
  <2> QED BY <1>1, <1>2, <1>3, <2>2, <2>3, <2>4, AnsweredInv
<1>4. CASE Respond(k, <<>>) /\ UNCHANGED seq
  <2>1. HostTypes' /\ RoomInv'
    BY <1>2, <1>4 DEF Inv, Types, HostTypes, RoomInv
  <2> QED BY <1>1, <1>2, <1>4, <2>1, NoLines, AnsweredInv
<1> QED BY <1>3, <1>4 DEF TakeNavigate

LEMMA TakeCancelInv ==
  ASSUME Inv, NEW k \in Connections, TakeCancel(k)
  PROVE  Inv'
<1> DEFINE s == Head(inbox[k]).s
<1>1. PICK req \in {"cancel", "close"} : Takes(k, req) /\ Waits(k, req, s, "waiting")
  BY DEF TakeCancel
<1>2. /\ s \in Sessions /\ Head(inbox[k]) \in Requests
      /\ inbox' \in [Connections -> Seq(InLines)] /\ link[k] \in {"up", "down"}
      /\ inbox' = [inbox EXCEPT ![k] = Tail(@)]
  <2>1. req \in RequestTypes
    BY DEF RequestTypes
  <2> QED BY <1>1, <2>1, TakenRequest DEF Takes
<1>3. UNCHANGED <<seq, owner, link, wire, outbound, attached, asks, nextId, clientVars, missed>>
  BY DEF TakeCancel
<1>4. /\ handler' \in [Connections -> Handlers] /\ HandlerInv'
      /\ \A j \in Connections \ {k} : handler'[j] = handler[j]
  BY <1>1, <1>2, <1>3, Waiting
<1>5. \/ turn[s] # "idle" /\ turn' = [turn EXCEPT ![s] = "aborting"] /\ UNCHANGED unheard
      \/ unheard' = unheard \cup {s} /\ UNCHANGED turn
      \/ UNCHANGED <<turn, unheard>>
  BY DEF TakeCancel, Live
<1> HIDE DEF s
<1>6. HostTypes' /\ RoomInv'
  BY <1>2, <1>3, <1>5 DEF Inv, Types, HostTypes, RoomInv, Turns
<1>7. ServerTypes' /\ ClientTypes' /\ IdInv' /\ LeaseInv'
  BY <1>2, <1>3, <1>4 DEF Inv, Types, ServerTypes, ClientTypes, clientVars, IdInv, LeaseInv
<1>8. LinkInv'
  BY <1>2, <1>3, <1>4 DEF Inv, Types, ServerTypes, LinkInv, clientVars
<1> QED BY <1>4, <1>6, <1>7, <1>8 DEF Inv, Types

LEMMA CancelAnswersInv ==
  ASSUME Inv, NEW k \in Connections, CancelAnswers(k)
  PROVE  Inv'
<1> DEFINE s == handler[k].s
           closed == handler[k].req = "close" /\ s \in attached[k]
<1>1. s \in Sessions /\ handler[k].step = "waiting"
  BY DEF CancelAnswers, Inv, HandlerInv, Handling
<1>2. outbound' = [outbound EXCEPT ![k] = <<>>] /\ outbound'[k] = <<>> /\ Respond(k, outbound[k])
  BY DEF CancelAnswers, Drained, Inv, Types, ServerTypes
<1>3. outbound[k] \in Seq(Notifications \cup Responses)
  <2>1. outbound[k] \in Seq(Notifications)
    BY DEF Inv, Types, ServerTypes
  <2> QED BY <2>1
<1>4. /\ handler' \in [Connections -> Handlers] /\ HandlerInv'
      /\ outbound' \in [Connections -> Seq(Notifications)]
      /\ \A j \in Connections \ {k} : handler'[j] = handler[j]
  BY <1>2, <1>3, Responding
<1>5. UNCHANGED <<seq, turn, unheard, link, inbox, wire, asks, nextId, clientVars, missed>>
  BY DEF CancelAnswers
<1>6. owner' = [owner EXCEPT ![s] = IF closed THEN 0 ELSE @]
      /\ attached' = [attached EXCEPT ![k] = IF closed THEN @ \ {s} ELSE @]
  BY DEF CancelAnswers
<1>7. HostTypes' /\ RoomInv' /\ ClientTypes' /\ IdInv'
  <2>1. owner' \in [Sessions -> 0..MaxConnections]
    <3>1. owner \in [Sessions -> 0..MaxConnections] /\ 0 \in 0..MaxConnections
      BY AcpAssumption DEF Inv, Types, HostTypes
    <3> HIDE DEF s, closed
    <3> QED BY <1>6, <3>1
  <2> QED BY <1>5, <2>1 DEF Inv, Types, HostTypes, RoomInv, ClientTypes, clientVars, IdInv
<1>8. attached' \in [Connections -> SUBSET Sessions]
      /\ \A j \in Connections : attached'[j] \subseteq attached[j]
  BY <1>6 DEF Inv, Types, ServerTypes
<1>9. LeaseInv'
  <2>1. CASE ~closed
    <3>1. \A t \in Sessions : owner'[t] = owner[t]
      BY <1>6, <2>1 DEF Inv, Types, HostTypes
    <3>2. \A j \in Connections : attached'[j] = attached[j]
      BY <1>6, <2>1 DEF Inv, Types, ServerTypes
    <3> QED BY <3>1, <3>2 DEF Inv, LeaseInv
  <2>2. CASE closed
    <3>1. owner[s] = k /\ owner'[s] = 0 /\ \A t \in Sessions \ {s} : owner'[t] = owner[t]
      BY <1>1, <1>6, <2>2 DEF Inv, Types, HostTypes, LeaseInv
    <3>2. attached'[k] = attached[k] \ {s}
          /\ \A j \in Connections \ {k} : attached'[j] = attached[j] /\ s \notin attached[j]
      BY <1>1, <1>6, <2>2, <3>1 DEF Inv, Types, ServerTypes, LeaseInv
    <3>3. 0 \notin Connections
      BY Numbers
    <3> HIDE DEF s, closed
    <3> QED BY <3>1, <3>2, <3>3 DEF Inv, LeaseInv
  <2> QED BY <2>1, <2>2
<1>10. ServerTypes'
  BY <1>4, <1>5, <1>8 DEF Inv, Types, ServerTypes
<1>11. LinkInv'
  <2>1. link[k] \notin {"unused", "gone"}
    BY <1>1 DEF Inv, LinkInv, Free
  <2> QED BY <1>4, <1>5, <1>8, <2>1 DEF Inv, LinkInv, clientVars
<1> QED BY <1>4, <1>7, <1>9, <1>10, <1>11 DEF Inv, Types

-----------------------------------------------------------------------------
(***************************************************************************)
(* The end of a socket.                                                    *)
(***************************************************************************)
(* The runs that are denied go on, with the update the answer is. *)
LEMMA ClosesHost ==
  ASSUME Inv, NEW k \in Connections, NEW i \in 0..Len(inbox[k]), NEW links, Closes(k, i, links)
  PROVE  /\ seq' \in [Sessions -> Updates] /\ turn' \in [Sessions -> Turns] /\ RoomInv'
         /\ inbox' \in [Connections -> Seq(InLines)]
         /\ \A j \in Connections \ {k} : inbox'[j] = inbox[j]
         /\ inbox[k] = <<>> => inbox'[k] = <<>>
         /\ asks' \in [Connections -> SUBSET Asks] /\ asks'[k] = {}
         /\ \A j \in Connections \ {k} : asks'[j] = asks[j]
<1>1. ASSUME NEW s \in Denied(k) PROVE turn[s] = "asking" /\ s \in Sessions
  BY <1>1 DEF Denied, Asked
<1>2. ASSUME NEW s \in Sessions
      PROVE  /\ seq'[s] \in Updates /\ turn'[s] \in Turns
             /\ turn'[s] # "idle" => seq'[s] + 1 <= MaxUpdates
             /\ turn'[s] = "asking" => seq'[s] + 2 <= MaxUpdates
  <2>1. seq[s] \in Nat /\ seq[s] \in Updates /\ MaxUpdates \in Nat
    BY AcpAssumption DEF Updates, Inv, Types, HostTypes
  <2>2. CASE s \in Denied(k)
    <3>1. seq'[s] = seq[s] + 1 /\ turn'[s] = "running" /\ seq[s] + 2 <= MaxUpdates
      BY <1>1, <2>2 DEF Closes, Inv, RoomInv
    <3>2. seq[s] + 1 \in Updates
      BY <2>1, <3>1 DEF Updates
    <3> QED BY <2>1, <3>1, <3>2 DEF Turns
  <2>3. CASE s \notin Denied(k)
    BY <2>1, <2>3 DEF Closes, Inv, RoomInv, Types, HostTypes
  <2> QED BY <2>2, <2>3
<1>3. seq' \in [Sessions -> Updates] /\ turn' \in [Sessions -> Turns] /\ RoomInv'
  <2>1. seq' = [s \in Sessions |-> seq'[s]] /\ turn' = [s \in Sessions |-> turn'[s]]
    BY DEF Closes
  <2> QED BY <1>2, <2>1 DEF RoomInv
<1>4. SubSeq(inbox[k], 1, i) \in Seq(InLines)
  <2>1. inbox[k] \in Seq(InLines)
    BY DEF Inv, Types, ServerTypes
  <2> QED BY <2>1
<1>5. inbox[k] = <<>> => SubSeq(inbox[k], 1, i) = <<>>
  <2>1. inbox[k] = <<>> => i = 0
    OBVIOUS
  <2> QED BY <2>1, SubSeqEmpty
<1>6. /\ inbox' \in [Connections -> Seq(InLines)]
      /\ \A j \in Connections \ {k} : inbox'[j] = inbox[j]
      /\ inbox'[k] = SubSeq(inbox[k], 1, i)
  BY <1>4 DEF Closes, Inv, Types, ServerTypes
<1>7. asks' \in [Connections -> SUBSET Asks] /\ asks'[k] = {}
      /\ \A j \in Connections \ {k} : asks'[j] = asks[j]
  BY DEF Closes, Inv, Types, ServerTypes
<1>8. inbox[k] = <<>> => inbox'[k] = <<>>
  BY <1>5, <1>6
<1> QED BY <1>3, <1>6, <1>7, <1>8

LEMMA BreaksInv ==
  ASSUME Inv, NEW k \in Connections, Breaks(k)
  PROVE  Inv'
<1>1. PICK i \in 0..Len(inbox[k]) : Closes(k, i, link)
  BY DEF Breaks
<1>2. UNCHANGED <<unheard, owner, wire, handler, outbound, attached, nextId, clientVars, missed>>
      /\ link[k] = "up" /\ link' = [link EXCEPT ![k] = "down"]
  BY <1>1 DEF Breaks, Closes
<1>3. /\ seq' \in [Sessions -> Updates] /\ turn' \in [Sessions -> Turns] /\ RoomInv'
      /\ inbox' \in [Connections -> Seq(InLines)]
      /\ \A j \in Connections \ {k} : inbox'[j] = inbox[j]
      /\ asks' \in [Connections -> SUBSET Asks] /\ asks'[k] = {}
      /\ \A j \in Connections \ {k} : asks'[j] = asks[j]
  BY <1>1, ClosesHost
<1>4. HostTypes' /\ ServerTypes' /\ ClientTypes'
  BY <1>2, <1>3 DEF Inv, Types, HostTypes, ServerTypes, ClientTypes, clientVars
<1>5. HandlerInv' /\ LeaseInv' /\ IdInv'
  BY <1>2, <1>3 DEF Inv, HandlerInv, Handling, LeaseInv, IdInv
<1>6. LinkInv'
  BY <1>2, <1>3 DEF Inv, Types, ServerTypes, LinkInv, clientVars
<1> QED BY <1>3, <1>4, <1>5, <1>6 DEF Inv, Types

LEMMA AgentClosesInv ==
  ASSUME Inv, NEW k \in Connections, AgentCloses(k)
  PROVE  Inv'
<1>1. UNCHANGED <<seq, turn, unheard, inbox, wire, handler, asks, nextId, clientVars, missed>>
      /\ link[k] = "down" /\ link' = [link EXCEPT ![k] = "gone"] /\ handler[k] = Free
      /\ inbox[k] = <<>> /\ attached' = [attached EXCEPT ![k] = {}]
      /\ outbound' = [outbound EXCEPT ![k] = <<>>]
  BY DEF AgentCloses, LinesHandled
<1>2. \A s \in Sessions : owner'[s] = IF owner[s] = k THEN 0 ELSE owner[s]
  BY DEF AgentCloses, Inv, LeaseInv
<1>3. owner' \in [Sessions -> 0..MaxConnections]
  BY AcpAssumption DEF AgentCloses, Inv, Types, HostTypes
<1>4. HostTypes' /\ ServerTypes' /\ ClientTypes' /\ RoomInv' /\ IdInv'
  BY <1>1, <1>3, NoLines DEF Inv, Types, HostTypes, ServerTypes, ClientTypes, clientVars, RoomInv, IdInv
<1>5. HandlerInv'
  BY <1>1 DEF Inv, Types, ServerTypes, HandlerInv, Handling
<1>6. LeaseInv'
  <2>1. ASSUME NEW s \in Sessions, NEW j \in Connections
        PROVE  s \in attached'[j] <=> owner'[s] = j
    <3>1. j # 0 /\ (s \in attached[j] <=> owner[s] = j)
          /\ owner'[s] = IF owner[s] = k THEN 0 ELSE owner[s]
      BY <1>2, Numbers DEF Inv, LeaseInv
    <3>2. attached'[j] = IF j = k THEN {} ELSE attached[j]
      BY <1>1 DEF Inv, Types, ServerTypes
    <3> QED BY <3>1, <3>2
  <2> QED BY <2>1 DEF LeaseInv
<1>7. LinkInv'
  BY <1>1 DEF Inv, Types, ServerTypes, LinkInv, clientVars
<1> QED BY <1>4, <1>5, <1>6, <1>7 DEF Inv, Types

-----------------------------------------------------------------------------
(***************************************************************************)
(* The Desktop.                                                            *)
(***************************************************************************)
(* What the client does by itself reaches the Server as lines. *)
LEMMA ClientKeeps ==
  ASSUME Inv, ClientTypes',
         UNCHANGED <<hostVars, link, handler, outbound, attached, asks, nextId, bound, missed>>,
         alive' = alive,
         inbox' \in [Connections -> Seq(InLines)],
         \A k \in Connections : link[k] # "up" => inbox'[k] = inbox[k],
         wire' \in [Connections -> Seq(OutLines)]
  PROVE  Inv'
<1>1. HostTypes' /\ ServerTypes'
  BY DEF Inv, Types, HostTypes, ServerTypes, hostVars
<1>2. RoomInv' /\ HandlerInv' /\ LeaseInv' /\ IdInv'
  BY DEF Inv, RoomInv, HandlerInv, Handling, LeaseInv, IdInv, hostVars
<1>3. LinkInv'
  BY DEF Inv, LinkInv
<1> QED BY <1>1, <1>2, <1>3 DEF Inv, Types

LEMMA WrittenKeeps ==
  ASSUME Types, NEW k \in Connections, NEW lines \in Seq(InLines), Written(k, lines)
  PROVE  /\ inbox' \in [Connections -> Seq(InLines)]
         /\ \A j \in Connections : link[j] # "up" => inbox'[j] = inbox[j]
<1>1. inbox' \in [Connections -> Seq(InLines)]
  BY WrittenLines DEF Types
<1>2. ASSUME NEW j \in Connections, link[j] # "up" PROVE inbox'[j] = inbox[j]
  BY <1>2 DEF Written, Types, ServerTypes
<1> QED BY <1>1, <1>2

LEMMA RequestLine ==
  ASSUME NEW type \in RequestTypes, NEW s \in Sessions, NEW g \in Nat, NEW why \in Whys,
         type = "resume" \/ why = "command"
  PROVE  Request(type, s, g, why) \in InLines /\ <<Request(type, s, g, why)>> \in Seq(InLines)
<1>1. Request(type, s, g, why) \in Requests
  BY DEF Request, Requests
<1>2. Request(type, s, g, why) \in InLines
  BY <1>1 DEF InLines
<1> QED BY <1>2

LEMMA WithdrawnLines ==
  ASSUME Types, NEW P \in SUBSET prompts
  PROVE  Cancelled(P) \in Seq(InLines)
<1>1. Cancelled(P) \in Seq(Answers)
  BY CancelledLines
<1> QED BY <1>1 DEF InLines

LEMMA FewerPrompts ==
  ASSUME Types, NEW P
  PROVE  prompts \ P \in SUBSET Prompts /\ IsFiniteSet(prompts \ P)
<1>1. prompts \in SUBSET Prompts /\ IsFiniteSet(prompts) /\ prompts \ P \in SUBSET prompts
  BY DEF Types, ClientTypes
<1> QED BY <1>1, FS_Subset

LEMMA OpenInv ==
  ASSUME Inv, NEW s \in Sessions, Open(s)
  PROVE  Inv'
<1>1. UNCHANGED <<hostVars, link, wire, handler, outbound, attached, asks, nextId, bound, alive,
                  recon, rebuilding, status, seen, shown, prompts, missed>>
  BY DEF Open
<1>2. "resume" \in RequestTypes /\ "open" \in Whys /\ bound \in Connections
      /\ gen[s] + 1 \in Nat
  BY DEF RequestTypes, Whys, Inv, Types, ClientTypes
<1>3. /\ inbox' \in [Connections -> Seq(InLines)]
      /\ \A j \in Connections : link[j] # "up" => inbox'[j] = inbox[j]
  BY <1>2, RequestLine, WrittenKeeps DEF Open, Inv
<1>4. ClientTypes'
  BY <1>1 DEF Open, Inv, Types, ClientTypes
<1> QED BY <1>1, <1>3, <1>4, ClientKeeps DEF Inv, Types, ServerTypes

LEMMA CommandInv ==
  ASSUME Inv, NEW s \in Sessions, NEW type \in RequestTypes, Command(type, s)
  PROVE  Inv'
<1>1. UNCHANGED <<hostVars, link, wire, handler, outbound, attached, asks, nextId, clientVars, missed>>
  BY DEF Command
<1>2. "command" \in Whys /\ bound \in Connections /\ gen[s] \in Nat
  BY DEF Whys, Inv, Types, ClientTypes
<1>3. /\ inbox' \in [Connections -> Seq(InLines)]
      /\ \A j \in Connections : link[j] # "up" => inbox'[j] = inbox[j]
  BY <1>2, RequestLine, WrittenKeeps DEF Command, Inv
<1>4. ClientTypes' /\ UNCHANGED bound /\ alive' = alive
  BY <1>1 DEF Inv, Types, ClientTypes, clientVars
<1> QED BY <1>1, <1>3, <1>4, ClientKeeps DEF Inv, Types, ServerTypes

LEMMA AbortInv ==
  ASSUME Inv, NEW s \in Sessions, Abort(s)
  PROVE  Inv'
<1>1. UNCHANGED <<hostVars, link, wire, handler, outbound, attached, asks, nextId, bound, alive,
                  recon, rebuilding, rebuilt, view, gen, status, seen, shown, missed>>
      /\ prompts' = prompts \ PromptsOf(s)
  BY DEF Abort
<1>2. Append(Cancelled(PromptsOf(s)), Request("cancel", s, gen[s], "command")) \in Seq(InLines)
  <2>1. "cancel" \in RequestTypes /\ "command" \in Whys /\ gen[s] \in Nat
    BY DEF RequestTypes, Whys, Inv, Types, ClientTypes
  <2>2. Cancelled(PromptsOf(s)) \in Seq(InLines)
    BY WithdrawnLines DEF PromptsOf, Inv
  <2> QED BY <2>1, <2>2, RequestLine
<1>3. /\ inbox' \in [Connections -> Seq(InLines)]
      /\ \A j \in Connections : link[j] # "up" => inbox'[j] = inbox[j]
  BY <1>2, WrittenKeeps DEF Abort, Inv, Types, ClientTypes
<1>4. ClientTypes'
  BY <1>1, FewerPrompts DEF Inv, Types, ClientTypes
<1> QED BY <1>1, <1>3, <1>4, ClientKeeps DEF Inv, Types, ServerTypes

LEMMA CloseSessionInv ==
  ASSUME Inv, NEW s \in Sessions, CloseSession(s)
  PROVE  Inv'
<1>1. UNCHANGED <<hostVars, link, wire, handler, outbound, attached, asks, nextId, bound, alive,
                  recon, rebuilding, rebuilt, gen, missed>>
      /\ prompts' = prompts \ PromptsOf(s)
  BY DEF CloseSession
<1>2. Append(Cancelled(PromptsOf(s)), Request("close", s, gen[s], "command")) \in Seq(InLines)
  <2>1. "close" \in RequestTypes /\ "command" \in Whys /\ gen[s] \in Nat
    BY DEF RequestTypes, Whys, Inv, Types, ClientTypes
  <2>2. Cancelled(PromptsOf(s)) \in Seq(InLines)
    BY WithdrawnLines DEF PromptsOf, Inv
  <2> QED BY <2>1, <2>2, RequestLine
<1>3. /\ inbox' \in [Connections -> Seq(InLines)]
      /\ \A j \in Connections : link[j] # "up" => inbox'[j] = inbox[j]
  BY <1>2, WrittenKeeps DEF CloseSession, Inv, Types, ClientTypes
<1>4. ClientTypes'
  BY <1>1, FewerPrompts, Numbers DEF CloseSession, Inv, Types, ClientTypes
<1> QED BY <1>1, <1>3, <1>4, ClientKeeps DEF Inv, Types, ServerTypes

LEMMA AnswerLine ==
  ASSUME Types, NEW p \in Prompts, NEW allow \in BOOLEAN
  PROVE  Answer(p, allow) \in InLines /\ <<Answer(p, allow)>> \in Seq(InLines)
<1>1. Answer(p, allow) \in Answers
  BY DEF Answer, Answers, Prompts
<1>2. Answer(p, allow) \in InLines
  BY <1>1 DEF InLines
<1> QED BY <1>2

LEMMA ResolveInv ==
  ASSUME Inv, NEW p \in prompts, Resolve(p)
  PROVE  Inv'
<1>1. UNCHANGED <<hostVars, link, wire, handler, outbound, attached, asks, nextId, bound, alive,
                  recon, rebuilding, rebuilt, view, gen, status, seen, shown, missed>>
      /\ prompts' = prompts \ {p}
  BY DEF Resolve
<1>2. p \in Prompts
  BY DEF Inv, Types, ClientTypes
<1>3. /\ inbox' \in [Connections -> Seq(InLines)]
      /\ \A j \in Connections : link[j] # "up" => inbox'[j] = inbox[j]
  BY <1>2, AnswerLine, WrittenKeeps DEF Resolve, Inv, Types, ClientTypes
<1>4. ClientTypes'
  BY <1>1, FewerPrompts DEF Inv, Types, ClientTypes
<1> QED BY <1>1, <1>3, <1>4, ClientKeeps DEF Inv, Types, ServerTypes

-----------------------------------------------------------------------------
(***************************************************************************)
(* What the client does with a line.                                       *)
(***************************************************************************)
LEMMA ArrivedLine ==
  ASSUME Inv, NEW type, Arrives(type), Received
  PROVE  /\ wire' \in [Connections -> Seq(OutLines)]
         /\ Head(wire[bound]) \in OutLines
         /\ Head(wire[bound]).s \in Sessions /\ Head(wire[bound]).type = type
         /\ type = "update" => Head(wire[bound]) \in Notifications
         /\ type = "replayed" =>
              Head(wire[bound]) \in [type : {"replayed"}, s : Sessions, n : Updates,
                                     idle : BOOLEAN, why : Whys, gen : Nat]
         /\ type = "refused" => Head(wire[bound]) \in [type : {"refused"}, s : Sessions, why : Whys, gen : Nat]
         /\ type = "navigated" =>
              Head(wire[bound]) \in [type : {"navigated"}, s : Sessions, gen : Nat]
         /\ type = "ask" => Head(wire[bound]) \in AskLines
<1> DEFINE m == Head(wire[bound])
<1>1. wire[bound] \in Seq(OutLines) /\ wire[bound] # <<>> /\ m.type = type
      /\ wire \in [Connections -> Seq(OutLines)] /\ bound \in Connections
  BY DEF Arrives, Inv, Types, ServerTypes, ClientTypes
<1>2. m \in OutLines /\ Tail(wire[bound]) \in Seq(OutLines)
  BY <1>1
<1>3. wire' \in [Connections -> Seq(OutLines)]
  BY <1>1, <1>2 DEF Received
<1> HIDE DEF m
<1>4. \/ m \in Notifications
      \/ m \in [type : {"replayed"}, s : Sessions, n : Updates, idle : BOOLEAN, why : Whys, gen : Nat]
      \/ m \in [type : {"refused"}, s : Sessions, why : Whys, gen : Nat]
      \/ m \in [type : {"navigated"}, s : Sessions, gen : Nat]
      \/ m \in AskLines
  BY <1>2 DEF OutLines, Responses
<1>5. m.s \in Sessions /\ m.type \in {"update", "replayed", "refused", "navigated", "ask"}
  BY <1>4 DEF Notifications, AskLines
<1>6. type = "update" => m \in Notifications
  BY <1>1, <1>4 DEF AskLines
<1>7. type = "ask" => m \in AskLines
  BY <1>1, <1>4 DEF Notifications
<1>8. type = "replayed" =>
        m \in [type : {"replayed"}, s : Sessions, n : Updates, idle : BOOLEAN, why : Whys, gen : Nat]
  BY <1>1, <1>4 DEF Notifications, AskLines
<1>9. type = "refused" => m \in [type : {"refused"}, s : Sessions, why : Whys, gen : Nat]
  BY <1>1, <1>4 DEF Notifications, AskLines
<1>10. type = "navigated" => m \in [type : {"navigated"}, s : Sessions, gen : Nat]
  BY <1>1, <1>4 DEF Notifications, AskLines
<1> QED BY <1>1, <1>2, <1>3, <1>5, <1>6, <1>7, <1>8, <1>9, <1>10 DEF m

(* The projection takes updates, and the prompts it withdraws are answered. *)
LEMMA Projected ==
  ASSUME Inv, NEW s \in Sessions, NEW N \in SUBSET Updates, NEW n \in Updates, NEW idle \in BOOLEAN,
         Project(s, N, n, idle)
  PROVE  /\ inbox' \in [Connections -> Seq(InLines)]
         /\ \A k \in Connections : link[k] # "up" => inbox'[k] = inbox[k]
         /\ seen' \in [Sessions -> SUBSET Updates] /\ shown' \in [Sessions -> Updates]
         /\ prompts' \in SUBSET Prompts /\ IsFiniteSet(prompts')
<1> DEFINE ends == IF idle /\ Known(s) THEN PromptsOf(s) ELSE {}
<1>1. ends \in SUBSET prompts /\ prompts' = prompts \ ends /\ Written(bound, Cancelled(ends))
  BY DEF Project, PromptsOf
<1> HIDE DEF ends
<1>2. Cancelled(ends) \in Seq(InLines) /\ bound \in Connections
  BY <1>1, WithdrawnLines DEF Inv, Types, ClientTypes
<1>3. /\ inbox' \in [Connections -> Seq(InLines)]
      /\ \A k \in Connections : link[k] # "up" => inbox'[k] = inbox[k]
  BY <1>1, <1>2, WrittenKeeps DEF Inv
<1>4. prompts' \in SUBSET Prompts /\ IsFiniteSet(prompts')
  BY <1>1, FewerPrompts DEF Inv
<1>5. seen' \in [Sessions -> SUBSET Updates] /\ shown' \in [Sessions -> Updates]
  BY DEF Project, Inv, Types, ClientTypes
<1> QED BY <1>3, <1>4, <1>5

LEMMA DeliverUpdateInv ==
  ASSUME Inv, DeliverUpdate
  PROVE  Inv'
<1> DEFINE m == Head(wire[bound])
<1>1. /\ wire' \in [Connections -> Seq(OutLines)]
      /\ m.s \in Sessions /\ m.n \in Updates /\ m.idle \in BOOLEAN
  BY ArrivedLine DEF DeliverUpdate, Notifications
<1>2. Project(m.s, {m.n}, m.n, m.idle)
  BY DEF DeliverUpdate
<1>3. UNCHANGED <<hostVars, link, handler, outbound, attached, asks, nextId, bound, alive,
                  recon, rebuilding, rebuilt, view, gen, status, missed>>
  BY DEF DeliverUpdate
<1> HIDE DEF m
<1>4. /\ inbox' \in [Connections -> Seq(InLines)]
      /\ \A k \in Connections : link[k] # "up" => inbox'[k] = inbox[k]
      /\ seen' \in [Sessions -> SUBSET Updates] /\ shown' \in [Sessions -> Updates]
      /\ prompts' \in SUBSET Prompts /\ IsFiniteSet(prompts')
  BY <1>1, <1>2, Projected
<1>5. ClientTypes'
  BY <1>3, <1>4 DEF Inv, Types, ClientTypes
<1> QED BY <1>1, <1>3, <1>4, <1>5, ClientKeeps

LEMMA RestoredTypes ==
  ASSUME ClientTypes, NEW s \in Sessions, NEW ok \in BOOLEAN, Restored(s, ok)
  PROVE  /\ status' \in [Sessions -> {"ok", "reconnecting", "restart_failed"}]
         /\ rebuilding' \in Sessions \cup {"none"}
<1>1. status' \in [Sessions -> {"ok", "reconnecting", "restart_failed"}]
  BY DEF ClientTypes, Restored
<1>2. rebuilding' \in Sessions \cup {"none"}
  BY DEF ClientTypes, Restored
<1> QED BY <1>1, <1>2

LEMMA DeliverReplayInv ==
  ASSUME Inv, DeliverReplay
  PROVE  Inv'
<1> DEFINE m == Head(wire[bound])
<1>1. /\ wire' \in [Connections -> Seq(OutLines)]
      /\ m.s \in Sessions /\ m.n \in Updates /\ m.idle \in BOOLEAN
  BY ArrivedLine DEF DeliverReplay
<1>2. Project(m.s, 1..m.n, m.n, m.idle)
      /\ view' = [view EXCEPT ![m.s] = IF m.why = "open" /\ Mine(m) THEN "open" ELSE @]
      /\ (Restored(m.s, TRUE) \/ UNCHANGED <<status, rebuilding>>)
  BY DEF DeliverReplay
<1>3. UNCHANGED <<hostVars, link, handler, outbound, attached, asks, nextId, bound, alive,
                  recon, rebuilt, gen, missed>>
  BY DEF DeliverReplay
<1> HIDE DEF m
<1>4. 1..m.n \in SUBSET Updates
  BY <1>1, AcpAssumption DEF Updates
<1>5. /\ inbox' \in [Connections -> Seq(InLines)]
      /\ \A k \in Connections : link[k] # "up" => inbox'[k] = inbox[k]
      /\ seen' \in [Sessions -> SUBSET Updates] /\ shown' \in [Sessions -> Updates]
      /\ prompts' \in SUBSET Prompts /\ IsFiniteSet(prompts')
  BY <1>1, <1>2, <1>4, Projected
<1>6. /\ status' \in [Sessions -> {"ok", "reconnecting", "restart_failed"}]
      /\ rebuilding' \in Sessions \cup {"none"}
  BY <1>1, <1>2, RestoredTypes DEF Inv, Types, ClientTypes
<1>7. view' \in [Sessions -> {"none", "opening", "open"}]
  BY <1>2 DEF Inv, Types, ClientTypes
<1>8. ClientTypes'
  BY <1>3, <1>5, <1>6, <1>7 DEF Inv, Types, ClientTypes
<1> QED BY <1>1, <1>3, <1>5, <1>8, ClientKeeps

LEMMA Forgotten ==
  ASSUME ClientTypes, NEW S, Forgets(S)
  PROVE  /\ view' \in [Sessions -> {"none", "opening", "open"}]
         /\ seen' \in [Sessions -> SUBSET Updates] /\ shown' \in [Sessions -> Updates]
<1>1. /\ {} \in SUBSET Updates /\ 0 \in Updates
      /\ view \in [Sessions -> {"none", "opening", "open"}]
      /\ seen \in [Sessions -> SUBSET Updates] /\ shown \in [Sessions -> Updates]
  BY Numbers DEF ClientTypes
<1> QED BY <1>1 DEF Forgets

LEMMA DeliverRefusalInv ==
  ASSUME Inv, DeliverRefusal
  PROVE  Inv'
<1> DEFINE m == Head(wire[bound])
<1>1. wire' \in [Connections -> Seq(OutLines)] /\ m.s \in Sessions
  BY ArrivedLine DEF DeliverRefusal
<1>2. \/ Restored(m.s, FALSE) /\ UNCHANGED <<view, seen, shown>>
      \/ /\ Forgets({s \in Sessions : s = m.s /\ m.why = "open"})
         /\ UNCHANGED <<status, rebuilding>>
  BY DEF DeliverRefusal
<1>3. UNCHANGED <<hostVars, link, inbox, handler, outbound, attached, asks, nextId, bound, alive,
                  recon, rebuilt, gen, prompts, missed>>
  BY DEF DeliverRefusal
<1> HIDE DEF m
<1>4. /\ status' \in [Sessions -> {"ok", "reconnecting", "restart_failed"}]
      /\ rebuilding' \in Sessions \cup {"none"}
  BY <1>1, <1>2, RestoredTypes DEF Inv, Types, ClientTypes
<1>5. /\ view' \in [Sessions -> {"none", "opening", "open"}]
      /\ seen' \in [Sessions -> SUBSET Updates] /\ shown' \in [Sessions -> Updates]
  <2>1. CASE UNCHANGED <<view, seen, shown>>
    BY <2>1 DEF Inv, Types, ClientTypes
  <2>2. CASE Forgets({s \in Sessions : s = m.s /\ m.why = "open"})
    BY <2>2, Forgotten DEF Inv, Types
  <2> QED BY <1>2, <2>1, <2>2
<1>6. ClientTypes'
  BY <1>3, <1>4, <1>5 DEF Inv, Types, ClientTypes
<1> QED BY <1>1, <1>3, <1>6, ClientKeeps DEF Inv, Types, ServerTypes

LEMMA DeliverNavigatedInv ==
  ASSUME Inv, DeliverNavigated
  PROVE  Inv'
<1>a. PICK m : m = Head(wire[bound])
  OBVIOUS
<1>1. wire' \in [Connections -> Seq(OutLines)] /\ m.s \in Sessions /\ m.gen \in Nat
  BY <1>a, ArrivedLine DEF DeliverNavigated
<1>2. /\ Emptied(m.s) \/ UNCHANGED <<seen, shown>>
      /\ Written(bound, <<Request("resume", m.s, m.gen, "navigate")>>)
  BY <1>a DEF DeliverNavigated
<1>3. UNCHANGED <<hostVars, link, handler, outbound, attached, asks, nextId, bound, alive,
                  recon, rebuilding, rebuilt, view, gen, status, prompts, missed>>
  BY DEF DeliverNavigated
<1>4. "resume" \in RequestTypes /\ "navigate" \in Whys /\ bound \in Connections
  BY DEF RequestTypes, Whys, Inv, Types, ClientTypes
<1>5. /\ inbox' \in [Connections -> Seq(InLines)]
      /\ \A k \in Connections : link[k] # "up" => inbox'[k] = inbox[k]
  BY <1>1, <1>2, <1>4, RequestLine, WrittenKeeps DEF Inv
<1>6. seen' \in [Sessions -> SUBSET Updates] /\ shown' \in [Sessions -> Updates]
  BY <1>1, <1>2, Numbers DEF Emptied, Inv, Types, ClientTypes
<1>7. ClientTypes'
  BY <1>3, <1>6 DEF Inv, Types, ClientTypes
<1> QED BY <1>1, <1>3, <1>5, <1>7, ClientKeeps

LEMMA DeliverAskInv ==
  ASSUME Inv, DeliverAsk
  PROVE  Inv'
<1> DEFINE m == Head(wire[bound])
           p == [id |-> m.id, s |-> m.s, n |-> m.n, gen |-> gen[m.s],
                 late |-> recon = "connecting"]
<1>1. wire' \in [Connections -> Seq(OutLines)] /\ m \in AskLines
  BY ArrivedLine DEF DeliverAsk
<1>2. \/ prompts' = prompts \cup {p} /\ UNCHANGED inbox
      \/ Written(bound, <<Answer(p, FALSE)>>) /\ UNCHANGED prompts
  BY DEF DeliverAsk
<1>3. UNCHANGED <<hostVars, link, handler, outbound, attached, asks, nextId, bound, alive,
                  recon, rebuilding, rebuilt, view, gen, status, seen, shown, missed>>
  BY DEF DeliverAsk
<1>4. p \in Prompts
  <2>1. (recon = "connecting") \in BOOLEAN /\ gen[m.s] \in Nat
    BY <1>1 DEF AskLines, Inv, Types, ClientTypes
  <2> HIDE DEF m
  <2> QED BY <1>1, <2>1 DEF AskLines, Prompts
<1> HIDE DEF p
<1>5. FALSE \in BOOLEAN /\ bound \in Connections
  BY DEF Inv, Types, ClientTypes
<1>6. /\ inbox' \in [Connections -> Seq(InLines)]
      /\ \A k \in Connections : link[k] # "up" => inbox'[k] = inbox[k]
  BY <1>2, <1>4, <1>5, AnswerLine, WrittenKeeps DEF Inv, Types, ServerTypes
<1>7. prompts' \in SUBSET Prompts /\ IsFiniteSet(prompts')
  BY <1>2, <1>4, FS_AddElement DEF Inv, Types, ClientTypes
<1>8. ClientTypes'
  BY <1>3, <1>7 DEF Inv, Types, ClientTypes
<1> QED BY <1>1, <1>3, <1>6, <1>8, ClientKeeps

-----------------------------------------------------------------------------
(***************************************************************************)
(* Losing the connection and restoring it.                                 *)
(***************************************************************************)
(* What a restore leaves of the prompts carries ids of the old connection. *)
LEMMA Orphans ==
  ASSUME Types, NEW S, StartRestore(S)
  PROVE  /\ prompts' \in SUBSET Prompts /\ IsFiniteSet(prompts')
         /\ \A p \in prompts' : p.late
         /\ \A p \in prompts' : ~Mine(p) /\ \E q \in prompts : p.id = q.id /\ p.s = q.s /\ p.n = q.n
         /\ \A q \in prompts : ~Mine(q) =>
              \E p \in prompts' : p.id = q.id /\ p.s = q.s /\ p.n = q.n
<1>1. prompts \in SUBSET Prompts /\ IsFiniteSet(prompts)
  BY DEF Types, ClientTypes
<1>2. ASSUME NEW q \in Prompts
      PROVE  LET p == [q EXCEPT !.late = TRUE]
             IN /\ p \in Prompts /\ p.late = TRUE /\ p.id = q.id /\ p.s = q.s /\ p.n = q.n
                /\ p.gen = q.gen
  BY DEF Prompts
<1>3. prompts' = {[q EXCEPT !.late = TRUE] : q \in {x \in prompts : ~Mine(x)}}
  BY DEF StartRestore
<1>4. PICK P : P = {x \in prompts : ~Mine(x)}
  OBVIOUS
<1>5. IsFiniteSet(prompts')
  <2>1. IsFiniteSet(P)
    BY <1>1, <1>4, FS_Subset
  <2> DEFINE f == [q \in P |-> [q EXCEPT !.late = TRUE]]
  <2>2. f \in Surjection(P, prompts')
    BY <1>3, <1>4 DEF Surjection
  <2> HIDE DEF f
  <2> QED BY <2>1, <2>2, FS_Surjection
<1>6. ASSUME NEW p \in prompts'
      PROVE  /\ p \in Prompts /\ p.late /\ ~Mine(p)
             /\ \E q \in prompts : p.id = q.id /\ p.s = q.s /\ p.n = q.n
  <2>1. PICK q \in P : p = [q EXCEPT !.late = TRUE]
    BY <1>3, <1>4
  <2>2. q \in Prompts /\ q \in prompts /\ ~Mine(q)
    BY <1>1, <1>4
  <2>3. p \in Prompts /\ p.late = TRUE /\ p.id = q.id /\ p.s = q.s /\ p.n = q.n /\ p.gen = q.gen
    BY <1>2, <2>1, <2>2
  <2> QED BY <2>2, <2>3 DEF Mine
<1>7. ASSUME NEW q \in prompts, ~Mine(q)
      PROVE  \E p \in prompts' : p.id = q.id /\ p.s = q.s /\ p.n = q.n
  <2>1. [q EXCEPT !.late = TRUE] \in prompts'
    BY <1>3, <1>7
  <2> QED BY <1>1, <1>2, <2>1
<1> QED BY <1>5, <1>6, <1>7

LEMMA RestoreStarted ==
  ASSUME Types, NEW S, StartRestore(S)
  PROVE  /\ recon' \in {"none", "connecting", "rebuilding"}
         /\ status' \in [Sessions -> {"ok", "reconnecting", "restart_failed"}]
         /\ prompts' \in SUBSET Prompts /\ IsFiniteSet(prompts')
  BY Orphans DEF StartRestore

LEMMA NoticesInv ==
  ASSUME Inv, Notices
  PROVE  Inv'
<1>1. /\ UNCHANGED <<hostVars, link, inbox, handler, outbound, attached, asks, nextId, bound, rebuilt,
                   gen, missed>>
      /\ link[bound] # "up" /\ alive' = FALSE
      /\ wire' = [wire EXCEPT ![bound] = <<>>]
  BY DEF Notices
<1>2. /\ view' \in [Sessions -> {"none", "opening", "open"}]
      /\ seen' \in [Sessions -> SUBSET Updates] /\ shown' \in [Sessions -> Updates]
  BY Forgotten DEF Notices, Inv, Types
<1>3. /\ recon' \in {"none", "connecting", "rebuilding"}
      /\ status' \in [Sessions -> {"ok", "reconnecting", "restart_failed"}]
      /\ prompts' \in SUBSET Prompts /\ IsFiniteSet(prompts')
  <2>1. CASE StartRestore({s \in Sessions : view[s] = "open"})
    BY <2>1, RestoreStarted DEF Inv
  <2>2. CASE /\ status' = [s \in Sessions |->
                  IF Opening(s) THEN "ok"
                  ELSE IF InPlace(s) THEN "restart_failed" ELSE status[s]]
             /\ UNCHANGED <<recon, prompts>>
    BY <2>2 DEF Inv, Types, ClientTypes
  <2> QED BY <2>1, <2>2 DEF Notices
<1>4. ClientTypes'
  <2>1. rebuilding' \in Sessions \cup {"none"} 
    BY DEF Notices, Inv, Types, ClientTypes
  <2> QED BY <1>1, <1>2, <1>3, <2>1 DEF Inv, Types, ClientTypes
<1>5. ServerTypes' /\ HostTypes'
  BY <1>1, NoLines DEF Inv, Types, ServerTypes, HostTypes, hostVars, ClientTypes
<1>6. RoomInv' /\ HandlerInv' /\ LeaseInv' /\ IdInv'
  BY <1>1 DEF Inv, RoomInv, HandlerInv, Handling, LeaseInv, IdInv, hostVars
<1>7. LinkInv'
  BY <1>1 DEF Inv, LinkInv
<1> QED BY <1>4, <1>5, <1>6, <1>7 DEF Inv, Types

LEMMA RetryConnectionInv ==
  ASSUME Inv, RetryConnection
  PROVE  Inv'
<1>1. /\ UNCHANGED <<hostVars, link, wire, handler, outbound, attached, asks, nextId, bound, alive,
                     rebuilding, rebuilt, view, gen, seen, shown, missed>>
      /\ StartRestore({s \in Sessions : Known(s)})
      /\ Written(bound, Cancelled({p \in prompts : Mine(p)}))
  BY DEF RetryConnection
<1>2. /\ inbox' \in [Connections -> Seq(InLines)]
      /\ \A k \in Connections : link[k] # "up" => inbox'[k] = inbox[k]
  <2>1. {p \in prompts : Mine(p)} \in SUBSET prompts
    OBVIOUS
  <2>2. Cancelled({p \in prompts : Mine(p)}) \in Seq(InLines)
    BY <2>1, WithdrawnLines DEF Inv
  <2> QED BY <1>1, <2>2, WrittenKeeps DEF Inv, Types, ClientTypes
<1>3. ClientTypes'
  BY <1>1, RestoreStarted DEF Inv, Types, ClientTypes
<1> QED BY <1>1, <1>2, <1>3, ClientKeeps DEF Inv, Types, ServerTypes

LEMMA ReconnectFailsInv ==
  ASSUME Inv, ReconnectFails
  PROVE  Inv'
<1>1. ClientTypes'
  BY DEF ReconnectFails, Inv, Types, ClientTypes
<1>2. UNCHANGED <<hostVars, serverVars, bound, alive, missed>>
  BY DEF ReconnectFails
<1> QED BY <1>1, <1>2, ClientKeeps DEF Inv, Types, ServerTypes, serverVars

LEMMA RestoreEndsInv ==
  ASSUME Inv, RestoreEnds
  PROVE  Inv'
<1>1. ClientTypes'
  BY DEF RestoreEnds, Inv, Types, ClientTypes
<1>2. UNCHANGED <<hostVars, serverVars, bound, alive, missed>>
  BY DEF RestoreEnds
<1> QED BY <1>1, <1>2, ClientKeeps DEF Inv, Types, ServerTypes, serverVars

LEMMA RebuildsInv ==
  ASSUME Inv, NEW s \in Sessions, Rebuilds(s)
  PROVE  Inv'
<1>1. /\ UNCHANGED <<hostVars, link, wire, handler, outbound, attached, asks, nextId, bound, alive,
                     recon, view, gen, prompts, missed>>
      /\ Emptied(s)
      /\ rebuilt' = rebuilt \cup {s}
      /\ \/ /\ rebuilding' = s /\ UNCHANGED status
            /\ Written(bound, <<Request("resume", s, gen[s], "rebuild")>>)
         \/ /\ status' = [status EXCEPT ![s] = "restart_failed"]
            /\ UNCHANGED <<rebuilding, inbox>>
  BY DEF Rebuilds
<1>2. "resume" \in RequestTypes /\ "rebuild" \in Whys /\ bound \in Connections
      /\ gen[s] \in Nat
  BY DEF RequestTypes, Whys, Inv, Types, ClientTypes
<1>3. /\ inbox' \in [Connections -> Seq(InLines)]
      /\ \A k \in Connections : link[k] # "up" => inbox'[k] = inbox[k]
  BY <1>1, <1>2, RequestLine, WrittenKeeps DEF Inv, Types, ServerTypes
<1>4. ClientTypes'
  BY <1>1, Numbers DEF Emptied, Inv, Types, ClientTypes
<1> QED BY <1>1, <1>3, <1>4, ClientKeeps DEF Inv, Types, ServerTypes

LEMMA ReconnectsInv ==
  ASSUME Inv, Reconnects
  PROVE  Inv'
<1> DEFINE b == bound
<1>1. /\ UNCHANGED <<unheard, owner, handler, outbound, attached, nextId, rebuilding, gen, status,
                     prompts>>
      /\ b < MaxConnections /\ bound' = b + 1 /\ alive' = TRUE /\ recon' = "rebuilding"
      /\ rebuilt' = {} /\ wire' = [wire EXCEPT ![b] = <<>>]
      /\ Forgets({s \in Sessions : Opening(s)})
  BY DEF Reconnects
<1>2. b \in Connections /\ b \in Nat /\ bound' \in Connections
  BY <1>1, Numbers DEF Connections, Inv, Types, ClientTypes
<1>3. \/ \E i \in 0..Len(inbox[b]) :
           link[b] = "up" /\ Closes(b, i, [link EXCEPT ![b + 1] = "up"])
      \/ /\ link[b] # "up" /\ link' = [link EXCEPT ![b + 1] = "up"]
         /\ UNCHANGED <<inbox, asks, turn, seq>>
  BY DEF Reconnects
<1>4. link[b + 1] = "unused" /\ b + 1 \in Connections
  BY <1>1, <1>2 DEF Inv, LinkInv
<1>5. /\ seq' \in [Sessions -> Updates] /\ turn' \in [Sessions -> Turns] /\ RoomInv'
      /\ inbox' \in [Connections -> Seq(InLines)]
      /\ \A j \in Connections \ {b} : inbox'[j] = inbox[j]
      /\ inbox[b] = <<>> => inbox'[b] = <<>>
      /\ asks' \in [Connections -> SUBSET Asks]
      /\ \A j \in Connections \ {b} : asks'[j] = asks[j]
      /\ asks'[b] # {} => FALSE
      /\ link' \in [Connections -> {"unused", "up", "down", "gone"}]
      /\ link'[b] = (IF link[b] = "up" THEN "down" ELSE link[b]) /\ link'[b + 1] = "up"
      /\ \A j \in Connections \ {b, b + 1} : link'[j] = link[j]
  <2>1. CASE \E i \in 0..Len(inbox[b]) :
               link[b] = "up" /\ Closes(b, i, [link EXCEPT ![b + 1] = "up"])
    <3>1. PICK i \in 0..Len(inbox[b]) :
            link[b] = "up" /\ Closes(b, i, [link EXCEPT ![b + 1] = "up"])
      BY <2>1
    <3>2. link' = [[link EXCEPT ![b + 1] = "up"] EXCEPT ![b] = "down"]
      BY <3>1 DEF Closes
    <3>3. /\ link' \in [Connections -> {"unused", "up", "down", "gone"}]
          /\ link'[b] = "down" /\ link'[b + 1] = "up"
          /\ \A j \in Connections \ {b, b + 1} : link'[j] = link[j]
      <4>1. link \in [Connections -> {"unused", "up", "down", "gone"}] /\ b # b + 1
        BY <1>2 DEF Inv, Types, ServerTypes
      <4> HIDE DEF b
      <4> QED BY <1>2, <1>4, <3>2, <4>1
    <3> HIDE DEF b
    <3>4. /\ seq' \in [Sessions -> Updates] /\ turn' \in [Sessions -> Turns] /\ RoomInv'
          /\ inbox' \in [Connections -> Seq(InLines)]
          /\ \A j \in Connections \ {b} : inbox'[j] = inbox[j]
          /\ inbox[b] = <<>> => inbox'[b] = <<>>
          /\ asks' \in [Connections -> SUBSET Asks] /\ asks'[b] = {}
          /\ \A j \in Connections \ {b} : asks'[j] = asks[j]
      BY <1>2, <3>1, ClosesHost
    <3> QED BY <3>1, <3>3, <3>4
  <2>2. CASE /\ link[b] # "up" /\ link' = [link EXCEPT ![b + 1] = "up"]
             /\ UNCHANGED <<inbox, asks, turn, seq>>
    <3>1. asks[b] = {}
      BY <1>2, <2>2 DEF Inv, LinkInv
    <3>2. RoomInv'
      BY <2>2 DEF Inv, RoomInv
    <3>3. link \in [Connections -> {"unused", "up", "down", "gone"}] /\ b # b + 1
      BY <1>2 DEF Inv, Types, ServerTypes
    <3> HIDE DEF b
    <3> QED BY <1>2, <1>4, <2>2, <3>1, <3>2, <3>3 DEF Inv, Types, HostTypes, ServerTypes
  <2> QED BY <1>3, <2>1, <2>2
<1>6. missed' \in [Sessions -> SUBSET Losses]
  BY DEF Reconnects, Inv, Types, HostTypes, Losses
<1>7. HostTypes' /\ ServerTypes'
  BY <1>1, <1>5, <1>6, NoLines DEF Inv, Types, HostTypes, ServerTypes
<1>8. ClientTypes'
  <2>1. /\ view' \in [Sessions -> {"none", "opening", "open"}]
        /\ seen' \in [Sessions -> SUBSET Updates] /\ shown' \in [Sessions -> Updates]
    BY <1>1, Forgotten DEF Inv, Types
  <2> QED BY <1>1, <1>2, <2>1 DEF Inv, Types, ClientTypes
<1>9. HandlerInv' /\ LeaseInv'
  BY <1>1 DEF Inv, HandlerInv, Handling, LeaseInv
<1>10. IdInv'
  <2>1. \A k \in Connections : asks'[k] \subseteq asks[k]
    BY <1>5
  <2> QED BY <1>1, <2>1 DEF Inv, IdInv
<1>11. LinkInv'
  <2> SUFFICES ASSUME NEW k \in Connections
               PROVE  /\ link'[k] = "up" => k = bound' /\ alive'
                      /\ k > bound' <=> link'[k] = "unused"
                      /\ link'[k] \in {"unused", "gone"} =>
                           inbox'[k] = <<>> /\ handler'[k] = Free /\ attached'[k] = {}
                      /\ asks'[k] # {} => link'[k] = "up"
    BY DEF LinkInv
  <2>1. /\ link[k] = "up" => k = b /\ alive
        /\ k > b <=> link[k] = "unused"
        /\ link[k] \in {"unused", "gone"} =>
             inbox[k] = <<>> /\ handler[k] = Free /\ attached[k] = {}
        /\ asks[k] # {} => link[k] = "up"
    BY DEF Inv, LinkInv
  <2>2. k \in Nat
    BY Numbers
  <2> HIDE DEF b
  <2>3. CASE k = b
    BY <1>1, <1>2, <1>5, <2>1, <2>2, <2>3
  <2>4. CASE k = b + 1
    BY <1>1, <1>2, <1>5, <2>1, <2>2, <2>4
  <2>5. CASE k # b /\ k # b + 1
    BY <1>1, <1>2, <1>5, <2>1, <2>2, <2>5
  <2> QED BY <2>3, <2>4, <2>5
<1> QED BY <1>5, <1>7, <1>8, <1>9, <1>10, <1>11 DEF Inv, Types

(***************************************************************************)
(* A Session whose snapshot is taken is attached.                          *)
(***************************************************************************)
SnapshotInv ==
  \A k \in Connections : handler[k].step = "snapshot" => handler[k].s \in attached[k]

LEMMA HandlerReplies ==
  ASSUME ServerTypes, NEW k \in Connections, NEW messages, Respond(k, messages)
  PROVE  handler'[k].step = "reply" /\ \A j \in Connections \ {k} : handler'[j] = handler[j]
  BY DEF Respond, ServerTypes, Free

LEMMA HandlerWaits ==
  ASSUME ServerTypes, NEW k \in Connections, NEW req, NEW s, NEW step, Waits(k, req, s, step)
  PROVE  handler'[k].step = step /\ \A j \in Connections \ {k} : handler'[j] = handler[j]
  BY DEF Waits, ServerTypes, Free

LEMMA SnapshotStep ==
  ASSUME Inv, SnapshotInv, [Next]_vars
  PROVE  SnapshotInv'
<1>1. ASSUME UNCHANGED <<handler, attached>> PROVE SnapshotInv'
  BY <1>1 DEF SnapshotInv
<1>2. ASSUME NEW k \in Connections, handler'[k].step # "snapshot",
             \A j \in Connections \ {k} : handler'[j] = handler[j] /\ attached'[j] = attached[j]
      PROVE  SnapshotInv'
  BY <1>2 DEF SnapshotInv
<1>3. ASSUME NEW k \in Connections, TakeResume(k) PROVE SnapshotInv'
  <2>1. CASE \E m : Respond(k, <<Refused(m)>>) /\ UNCHANGED attached
    BY <1>2, <2>1, HandlerReplies DEF Inv, Types
  <2>2. CASE /\ Waits(k, "resume", Head(inbox[k]).s, "snapshot")
             /\ attached' = [attached EXCEPT ![k] = @ \cup {Head(inbox[k]).s}]
    <3> DEFINE s == Head(inbox[k]).s
    <3>1. Head(inbox[k]) \in Requests /\ s \in Sessions /\ outbound[k] = <<>> /\ UNCHANGED outbound
      <4>1. "resume" \in RequestTypes /\ Takes(k, "resume")
        BY <1>3 DEF RequestTypes, TakeResume
      <4> QED BY <1>3, <4>1, TakenRequest DEF TakeResume
    <3> HIDE DEF s
    <3>2. Waits(k, "resume", s, "snapshot") /\ attached' = [attached EXCEPT ![k] = @ \cup {s}]
      BY <2>2 DEF s
    <3>3. /\ handler'[k].s = s /\ \A j \in Connections \ {k} : handler'[j] = handler[j]
      BY <3>1, <3>2, Waiting
    <3>4. s \in attached'[k] /\ \A j \in Connections \ {k} : attached'[j] = attached[j]
      BY <3>1, <3>2 DEF Inv, Types, ServerTypes
    <3> QED BY <3>3, <3>4 DEF SnapshotInv
  <2> QED BY <1>3, <2>1, <2>2 DEF TakeResume
<1>4. ASSUME NEW k \in Connections, HandlerStep(k), ~TakeAnswer(k), ~TakeResume(k)
      PROVE  SnapshotInv'
  <2>1. \A j \in Connections \ {k} : attached'[j] = attached[j]
    BY <1>4 DEF HandlerStep, ResumeReads, ResumeFails, ResumeReplays, TakePrompt, TakeNavigate, TakeCancel,
                CancelAnswers, Reply, Inv, Types, ServerTypes
  <2>2. CASE ResumeFails(k) \/ ResumeReplays(k) \/ TakePrompt(k) \/ TakeNavigate(k) \/ CancelAnswers(k)
    <3>1. PICK messages : Respond(k, messages)
      BY <2>2 DEF ResumeFails, ResumeReplays, TakePrompt, TakeNavigate, CancelAnswers, Drained
    <3> QED BY <1>2, <2>1, <3>1, HandlerReplies DEF Inv, Types
  <2>3. CASE TakeCancel(k)
    <3>1. PICK req, s : Waits(k, req, s, "waiting")
      BY <2>3 DEF TakeCancel
    <3> QED BY <1>2, <2>1, <3>1, HandlerWaits DEF Inv, Types
  <2>4. CASE ResumeReads(k)
    <3> DEFINE h == [handler[k] EXCEPT !.step = "replay", !.n = seq[handler[k].s],
                                       !.idle = turn[handler[k].s] = "idle"]
    <3>1. handler' = [handler EXCEPT ![k] = h]
      BY <2>4 DEF ResumeReads, Inv, Types, ServerTypes
    <3>2. h.step = "replay"
      <4> DEFINE f == handler[k]
      <4>1. f \in Handlers
        BY DEF Inv, Types, ServerTypes
      <4>2. \A n, i : [f EXCEPT !.step = "replay", !.n = n, !.idle = i].step = "replay"
        <5> HIDE DEF f
        <5> QED BY <4>1 DEF Handlers
      <4> QED BY <4>2
    <3> HIDE DEF h
    <3>3. handler'[k].step = "replay" /\ \A j \in Connections \ {k} : handler'[j] = handler[j]
      BY <3>1, <3>2 DEF Inv, Types, ServerTypes
    <3> QED BY <1>2, <2>1, <3>3
  <2>5. CASE Reply(k)
    <3>1. handler'[k].step = "free" /\ \A j \in Connections \ {k} : handler'[j] = handler[j]
      BY <2>5 DEF Reply, Free, Inv, Types, ServerTypes
    <3> QED BY <1>2, <2>1, <3>1
  <2> QED BY <1>4, <2>2, <2>3, <2>4, <2>5 DEF HandlerStep
<1>5. ASSUME NEW k \in Connections, AgentCloses(k) PROVE SnapshotInv'
  <2>1. handler'[k].step = "free" /\ UNCHANGED handler
    BY <1>5 DEF AgentCloses, LinesHandled, Free
  <2>2. \A j \in Connections \ {k} : attached'[j] = attached[j]
    BY <1>5 DEF AgentCloses, Inv, Types, ServerTypes
  <2> QED BY <1>2, <2>1, <2>2
<1>6. CASE \E s \in Sessions : RunStep(s)
  BY <1>1, <1>6 DEF RunStep, RunStarts, RunAppends, RunAsks, RunEnds, serverVars
<1>7. CASE \E k \in Connections : TakeAnswer(k) \/ Breaks(k)
  BY <1>1, <1>7 DEF TakeAnswer, Breaks
<1>8. CASE ClientStep \/ UserStep
  <2>1. UNCHANGED <<handler, attached>>
    BY <1>8 DEF ClientStep, UserStep, DeliverUpdate, DeliverReplay, DeliverRefusal, DeliverNavigated,
         DeliverAsk, Notices, Reconnects, ReconnectFails, RestoreEnds, Rebuilds, Open, Send, Navigate,
         Command, Abort, CloseSession, Resolve, RetryConnection, serverVars
  <2> QED BY <1>1, <2>1
<1>9. CASE UNCHANGED vars
  BY <1>1, <1>9 DEF vars, serverVars
<1> QED BY <1>3, <1>4, <1>5, <1>6, <1>7, <1>8, <1>9 DEF Next, HandlerStep

-----------------------------------------------------------------------------
LEMMA InvStep ==
  ASSUME Inv, SnapshotInv, [Next]_vars
  PROVE  Inv'
<1>1. ASSUME NEW s \in Sessions, RunStep(s) PROVE Inv'
  BY <1>1, RunStartsInv, RunAppendsInv, RunAsksInv, RunEndsInv DEF RunStep
<1>0. \A k \in Connections : ResumeFails(k) => handler[k].s \in attached[k]
  BY DEF SnapshotInv, ResumeFails, At
<1>2. ASSUME NEW k \in Connections, HandlerStep(k) \/ Breaks(k) \/ AgentCloses(k) PROVE Inv'
  BY <1>0, <1>2, TakeAnswerInv, TakeResumeInv, ResumeReadsInv, ResumeFailsInv,
     ResumeReplaysInv, TakePromptInv,
     TakeNavigateInv, TakeCancelInv, CancelAnswersInv, ReplyInv, BreaksInv, AgentClosesInv
     DEF HandlerStep
<1>3. ASSUME ClientStep PROVE Inv'
  BY <1>3, DeliverUpdateInv, DeliverReplayInv, DeliverRefusalInv, DeliverNavigatedInv,
     DeliverAskInv, NoticesInv, ReconnectsInv, ReconnectFailsInv, RestoreEndsInv, RebuildsInv
     DEF ClientStep
<1>4. ASSUME UserStep PROVE Inv'
  <2>1. "prompt" \in RequestTypes /\ "navigate" \in RequestTypes
    BY DEF RequestTypes
  <2> QED BY <1>4, <2>1, OpenInv, CommandInv, AbortInv, CloseSessionInv, ResolveInv, RetryConnectionInv
          DEF UserStep, Send, Navigate
<1>5. CASE UNCHANGED vars
  BY <1>5 DEF vars, hostVars, serverVars, clientVars, Inv, Types, HostTypes, ServerTypes, ClientTypes,
              RoomInv, HandlerInv, Handling, LinkInv, LeaseInv, IdInv
<1> QED BY <1>1, <1>2, <1>3, <1>4, <1>5 DEF Next

LEMMA SpecInv == Spec => []Inv
<1>1. Init => Inv /\ SnapshotInv
  <2>1. Init => SnapshotInv
    BY DEF Init, SnapshotInv, Free
  <2> QED BY <2>1, InitInv
<1>2. (Inv /\ SnapshotInv) /\ [Next]_vars => (Inv /\ SnapshotInv)'
  BY InvStep, SnapshotStep
<1> QED BY <1>1, <1>2, PTL DEF Spec

(* Every entry is made by an act of the user. *)
ActsInv == commands \in 0..MaxCommands /\ \A s \in Sessions : gen[s] <= commands

LEMMA ActsStep ==
  ASSUME Inv, ActsInv, [Next]_vars
  PROVE  ActsInv'
<1>1. commands \in Nat /\ MaxCommands \in Nat
  BY AcpAssumption DEF ActsInv
<1>2. \A s \in Sessions : gen[s] \in Nat
  BY DEF Inv, Types, ClientTypes
<1>3. ASSUME UNCHANGED <<gen, commands>> PROVE ActsInv'
  BY <1>3 DEF ActsInv
<1>4. ASSUME UserActs, UNCHANGED gen PROVE ActsInv'
  BY <1>1, <1>2, <1>4 DEF UserActs, ActsInv
<1>5. ASSUME NEW s \in Sessions, Open(s) PROVE ActsInv'
  <2>1. UserActs /\ gen' = [gen EXCEPT ![s] = @ + 1]
    BY <1>5 DEF Open
  <2> QED BY <1>1, <1>2, <2>1 DEF UserActs, ActsInv, Inv, Types, ClientTypes
<1>6. CASE \E s \in Sessions : RunStep(s)
  BY <1>3, <1>6 DEF RunStep, RunStarts, RunAppends, RunAsks, RunEnds, clientVars
<1>7. CASE \E k \in Connections : HandlerStep(k) \/ Breaks(k) \/ AgentCloses(k)
  <2>1. PICK k \in Connections : HandlerStep(k) \/ Breaks(k) \/ AgentCloses(k)
    BY <1>7
  <2>2. ASSUME TakeAnswer(k) \/ TakeResume(k) \/ ResumeReads(k) \/ ResumeFails(k)
                 \/ ResumeReplays(k)
        PROVE  UNCHANGED <<gen, commands>>
    BY <2>2 DEF TakeAnswer, TakeResume, ResumeReads, ResumeFails, ResumeReplays, clientVars
  <2>3. ASSUME TakePrompt(k) \/ TakeNavigate(k) \/ TakeCancel(k) \/ CancelAnswers(k) \/ Reply(k)
        PROVE  UNCHANGED <<gen, commands>>
    BY <2>3 DEF TakePrompt, TakeNavigate, TakeCancel, CancelAnswers, Reply, clientVars
  <2>4. ASSUME Breaks(k) \/ AgentCloses(k) PROVE UNCHANGED <<gen, commands>>
    BY <2>4 DEF Breaks, AgentCloses, clientVars
  <2> QED BY <1>3, <2>1, <2>2, <2>3, <2>4 DEF HandlerStep
<1>8. CASE ClientStep
  BY <1>3, <1>8 DEF ClientStep, DeliverUpdate, DeliverReplay, DeliverRefusal, DeliverNavigated,
       DeliverAsk, Notices, Reconnects, ReconnectFails, RestoreEnds, Rebuilds
<1>9. CASE UserStep
  BY <1>3, <1>4, <1>5, <1>9 DEF UserStep, Send, Navigate, Command, Abort, CloseSession, Resolve,
       RetryConnection, clientVars
<1>10. CASE UNCHANGED vars
  BY <1>3, <1>10 DEF vars, clientVars
<1> QED BY <1>6, <1>7, <1>8, <1>9, <1>10 DEF Next

LEMMA SpecActs == Spec => []ActsInv
<1>1. Init => ActsInv
  BY AcpAssumption DEF Init, ActsInv
<1>2. Inv /\ ActsInv /\ [Next]_vars => ActsInv'
  BY ActsStep
<1> QED BY <1>1, <1>2, SpecInv, PTL DEF Spec

-----------------------------------------------------------------------------
LEMMA InvTypes ==
  ASSUME Inv, ActsInv
  PROVE  TypeOK
<1>1. \A k \in Connections : handler[k].step \in Steps
  BY DEF Inv, Types, ServerTypes, Handlers
<1>2. gen \in [Sessions -> 0..MaxCommands]
  BY AcpAssumption DEF Inv, Types, ClientTypes, ActsInv
<1> QED BY <1>1, <1>2 DEF Losses, Inv, Types, HostTypes, ServerTypes, ClientTypes, HandlerInv, TypeOK, Steps

(* Every variable has its type, whatever the user does and however often the *)
(* socket breaks: the numbered updates of a Session stay within their bound, *)
(* and notifications are only held back while a request is handled           *)
(* (agent.ts drain).                                                         *)
THEOREM ConnectionTypes == Spec => []TypeOK
<1>1. Inv /\ ActsInv => TypeOK
  BY InvTypes
<1> QED BY <1>1, SpecInv, SpecActs, PTL

(* A Session is controlled by a connection that still holds it, and whose    *)
(* socket is not gone: a line handled after the socket closed cannot take    *)
(* the slot for ever, because agent.close() waits for every line             *)
(* (local-transport.ts tail.finally, agent.ts close).                        *)
THEOREM LeasesAreHeld == Spec => []LeaseHasConnection
<1>1. ASSUME Inv PROVE LeaseHasConnection
  <2> SUFFICES ASSUME NEW s \in Sessions, owner[s] # 0
               PROVE  s \in attached[owner[s]] /\ link[owner[s]] \in {"up", "down"}
    BY DEF LeaseHasConnection
  <2>1. owner[s] \in Connections
    BY <1>1, AcpAssumption DEF Inv, Types, HostTypes, Connections
  <2>2. s \in attached[owner[s]]
    BY <1>1, <2>1 DEF Inv, LeaseInv
  <2>3. link[owner[s]] \in {"up", "down"}
    BY <1>1, <2>1, <2>2 DEF Inv, LinkInv, Types, ServerTypes
  <2> QED BY <2>2, <2>3
<1>2. Inv => LeaseHasConnection
  BY <1>1
<1> QED BY <1>2, SpecInv, PTL

-----------------------------------------------------------------------------
(***************************************************************************)
(* The elements of lines.                                                  *)
(***************************************************************************)
LEMMA ElementsOfConcat ==
  ASSUME NEW S, NEW p \in Seq(S), NEW q \in Seq(S)
  PROVE  Range(p \o q) = Range(p) \cup Range(q)
<1>1. ASSUME NEW i \in DOMAIN (p \o q) PROVE (p \o q)[i] \in Range(p) \cup Range(q)
  <2>1. i \in 1..(Len(p) + Len(q))
    OBVIOUS
  <2>2. CASE i <= Len(p)
    BY <2>1, <2>2 DEF Range
  <2>3. CASE i > Len(p)
    <3>1. (p \o q)[i] = q[i - Len(p)] /\ i - Len(p) \in DOMAIN q
      BY <2>1, <2>3
    <3> QED BY <3>1 DEF Range
  <2> QED BY <2>1, <2>2, <2>3
<1>2. ASSUME NEW i \in DOMAIN p PROVE p[i] \in Range(p \o q)
  <2>1. i \in DOMAIN (p \o q) /\ (p \o q)[i] = p[i]
    OBVIOUS
  <2> QED BY <2>1 DEF Range
<1>3. ASSUME NEW i \in DOMAIN q PROVE q[i] \in Range(p \o q)
  <2>1. i + Len(p) \in DOMAIN (p \o q) /\ (p \o q)[i + Len(p)] = q[i]
    OBVIOUS
  <2> QED BY <2>1 DEF Range
<1> QED BY <1>1, <1>2, <1>3 DEF Range

LEMMA ElementsOfTail ==
  ASSUME NEW S, NEW q \in Seq(S), q # <<>>
  PROVE  /\ Range(q) = {Head(q)} \cup Range(Tail(q))
         /\ Head(q) \in Range(q) /\ Range(Tail(q)) \subseteq Range(q)
<1>1. 1 \in DOMAIN q /\ q[1] = Head(q)
  OBVIOUS
<1>2. ASSUME NEW i \in DOMAIN Tail(q) PROVE i + 1 \in DOMAIN q /\ Tail(q)[i] = q[i + 1]
  OBVIOUS
<1>3. ASSUME NEW i \in DOMAIN q, i # 1 PROVE i - 1 \in DOMAIN Tail(q) /\ Tail(q)[i - 1] = q[i]
  BY <1>3
<1>4. Range(Tail(q)) \subseteq Range(q) /\ Head(q) \in Range(q)
  BY <1>1, <1>2 DEF Range
<1>5. Range(q) \subseteq {Head(q)} \cup Range(Tail(q))
  BY <1>1, <1>3 DEF Range
<1> QED BY <1>4, <1>5

LEMMA ElementsOfPrefix ==
  ASSUME NEW S, NEW q \in Seq(S), NEW i \in 0..Len(q)
  PROVE  Range(SubSeq(q, 1, i)) \subseteq Range(q)
<1>1. ASSUME NEW j \in DOMAIN SubSeq(q, 1, i) PROVE j \in DOMAIN q /\ SubSeq(q, 1, i)[j] = q[j]
  OBVIOUS
<1> QED BY <1>1 DEF Range

LEMMA ElementsOfOne ==
  ASSUME NEW x
  PROVE  Range(<<x>>) = {x}
  BY DEF Range

LEMMA ElementsOfNone == Range(<<>>) = {}
  BY DEF Range

LEMMA ElementsOfAppend ==
  ASSUME NEW S, NEW q \in Seq(S), NEW x \in S
  PROVE  Range(Append(q, x)) = Range(q) \cup {x}
<1>1. Append(q, x) = q \o <<x>> /\ <<x>> \in Seq(S)
  OBVIOUS
<1>2. Range(q \o <<x>>) = Range(q) \cup Range(<<x>>)
  BY <1>1, ElementsOfConcat
<1> QED BY <1>1, <1>2, ElementsOfOne

LEMMA ElementsTyped ==
  ASSUME NEW S, NEW q \in Seq(S)
  PROVE  Range(q) \subseteq S
  BY DEF Range

-----------------------------------------------------------------------------
(***************************************************************************)
(* A cancel that waits, waits for a run that ends.                         *)
(***************************************************************************)
(* What a step may do to the runs others wait for: those of a Session held *)
(* by another connection change only as a run does by itself.              *)
LEMMA BlockedKept ==
  ASSUME Inv, AnswersAreNotBlocked, NEW k \in Connections,
         \A j \in Connections \ {k} : handler'[j] = handler[j] /\ attached'[j] = attached[j],
         handler'[k].step # "waiting",
         NEW S \in SUBSET Sessions,
         \A t \in Sessions \ S : turn'[t] = turn[t] /\ (t \in unheard => t \in unheard'),
         S \subseteq attached[k]
  PROVE  AnswersAreNotBlocked'
<1> SUFFICES ASSUME NEW j \in Connections, handler'[j].step = "waiting",
                    handler'[j].s \in attached'[j]
             PROVE  turn'[handler'[j].s] \in {"aborting", "idle"} \/ handler'[j].s \in unheard'
  BY DEF AnswersAreNotBlocked
<1>1. j # k /\ handler'[j] = handler[j] /\ attached'[j] = attached[j]
  OBVIOUS
<1>2. handler[j].s \in Sessions /\ handler[j].s \in attached[j]
  BY <1>1 DEF Inv, HandlerInv, Handling
<1>3. handler[j].s \notin attached[k]
  BY <1>1, <1>2 DEF Inv, LeaseInv
<1>4. turn[handler[j].s] \in {"aborting", "idle"} \/ handler[j].s \in unheard
  BY <1>1, <1>2 DEF AnswersAreNotBlocked
<1> QED BY <1>1, <1>2, <1>3, <1>4

(* A handler moves on, and no run with it. *)
LEMMA HandlerMoves ==
  ASSUME Inv, AnswersAreNotBlocked, NEW k \in Connections,
         \A j \in Connections \ {k} : handler'[j] = handler[j] /\ attached'[j] = attached[j],
         handler'[k].step # "waiting", UNCHANGED <<turn, unheard>>
  PROVE  AnswersAreNotBlocked'
<1>1. {} \in SUBSET Sessions /\ {} \subseteq attached[k]
      /\ \A t \in Sessions \ {} : turn'[t] = turn[t] /\ (t \in unheard => t \in unheard')
  OBVIOUS
<1> QED BY <1>1, BlockedKept

(* A run goes on, or is not touched. *)
GoesOn ==
  \A s \in Sessions :
    \/ turn'[s] = turn[s] /\ (s \in unheard => s \in unheard')
    \/ turn'[s] \in {"idle", "aborting"}
    \/ turn[s] \notin {"idle", "aborting"} /\ (s \in unheard => s \in unheard')

LEMMA RunsGoOn ==
  ASSUME Inv, AnswersAreNotBlocked, GoesOn,
         \A j \in Connections :
           handler'[j].step = "waiting" => handler'[j] = handler[j] /\ attached'[j] \subseteq attached[j]
  PROVE  AnswersAreNotBlocked'
<1> SUFFICES ASSUME NEW j \in Connections, handler'[j].step = "waiting",
                    handler'[j].s \in attached'[j]
             PROVE  turn'[handler'[j].s] \in {"aborting", "idle"} \/ handler'[j].s \in unheard'
  BY DEF AnswersAreNotBlocked
<1>1. handler'[j] = handler[j] /\ handler[j].s \in attached[j]
  OBVIOUS
<1>2. handler[j].s \in Sessions
  BY <1>1 DEF Inv, HandlerInv, Handling
<1>3. turn[handler[j].s] \in {"aborting", "idle"} \/ handler[j].s \in unheard
  BY <1>1 DEF AnswersAreNotBlocked
<1> QED BY <1>1, <1>2, <1>3 DEF GoesOn

LEMMA ClosesGoesOn ==
  ASSUME Inv, NEW k \in Connections, NEW i, NEW links, Closes(k, i, links), UNCHANGED unheard
  PROVE  GoesOn
<1>1. \A s \in Denied(k) : turn[s] = "asking"
  BY DEF Denied, Asked
<1> QED BY <1>1 DEF Closes, GoesOn

LEMMA BlockedStep ==
  ASSUME Inv, AnswersAreNotBlocked, [Next]_vars
  PROVE  AnswersAreNotBlocked'
<1>1. ASSUME NEW s \in Sessions, RunStep(s) PROVE AnswersAreNotBlocked'
  <2>1. UNCHANGED <<handler, attached>>
    BY <1>1 DEF RunStep, RunStarts, RunAppends, RunAsks, RunEnds, serverVars
  <2>2. GoesOn
    <3>1. CASE RunStarts(s)
      BY <3>1 DEF RunStarts, GoesOn, Inv, Types, HostTypes
    <3>2. CASE RunAppends(s)
      BY <3>2 DEF RunAppends, PublishTurn, GoesOn, Inv, Types, HostTypes
    <3>3. CASE RunAsks(s)
      BY <3>3 DEF RunAsks, GoesOn, Inv, Types, HostTypes
    <3>4. CASE RunEnds(s)
      BY <3>4 DEF RunEnds, PublishTurn, GoesOn, Inv, Types, HostTypes
    <3> QED BY <1>1, <3>1, <3>2, <3>3, <3>4 DEF RunStep
  <2> QED BY <2>1, <2>2, RunsGoOn
<1>2. ASSUME NEW k \in Connections, TakeAnswer(k) PROVE AnswersAreNotBlocked'
  <2>1. UNCHANGED <<handler, attached, unheard>>
    BY <1>2 DEF TakeAnswer
  <2>2. GoesOn
    <3>1. CASE \E a \in asks[k] : Asked(a)
               /\ \E b \in asks[k] : b.id = a.id /\ PublishTurn(b.s, "running")
      <4>1. PICK a \in asks[k], b \in asks[k] :
              Asked(a) /\ b.id = a.id /\ PublishTurn(b.s, "running")
        BY <3>1
      <4>2. a = b /\ a.s \in Sessions
        BY <4>1 DEF Inv, IdInv, Types, ServerTypes, Asks
      <4> QED BY <2>1, <4>1, <4>2 DEF Asked, PublishTurn, GoesOn, Inv, Types, HostTypes
    <3>2. CASE UNCHANGED turn
      BY <2>1, <3>2 DEF GoesOn
    <3> QED BY <1>2, <3>1, <3>2 DEF TakeAnswer
  <2> QED BY <2>1, <2>2, RunsGoOn
<1>3. ASSUME NEW k \in Connections, TakeResume(k) PROVE AnswersAreNotBlocked'
  <2>1. UNCHANGED <<turn, unheard>>
    BY <1>3 DEF TakeResume
  <2>2. /\ handler'[k].step # "waiting"
        /\ \A j \in Connections \ {k} : handler'[j] = handler[j]
    BY <1>3, HandlerReplies, HandlerWaits DEF TakeResume, Inv, Types
  <2>3. \A j \in Connections \ {k} : attached'[j] = attached[j]
    BY <1>3 DEF TakeResume, Inv, Types, ServerTypes
  <2> QED BY <2>1, <2>2, <2>3, HandlerMoves
<1>4. ASSUME NEW k \in Connections, ResumeReads(k) \/ ResumeReplays(k) \/ Reply(k)
      PROVE  AnswersAreNotBlocked'
  <2>1. UNCHANGED <<turn, unheard, attached>>
    BY <1>4 DEF ResumeReads, ResumeReplays, Reply, hostVars
  <2>2. handler'[k].step # "waiting" /\ \A j \in Connections \ {k} : handler'[j] = handler[j]
    <3>1. CASE ResumeReads(k)
      <4> DEFINE f == handler[k]
                 s == handler[k].s
      <4>1. /\ handler' = [handler EXCEPT ![k] =
                  [f EXCEPT !.step = "replay", !.n = seq[s], !.idle = turn[s] = "idle"]]
            /\ f \in Handlers /\ handler \in [Connections -> Handlers]
        BY <3>1 DEF ResumeReads, Inv, Types, ServerTypes
      <4> HIDE DEF f, s
      <4>2. [f EXCEPT !.step = "replay", !.n = seq[s], !.idle = turn[s] = "idle"].step = "replay"
        BY <4>1 DEF Handlers
      <4> DEFINE h == [f EXCEPT !.step = "replay", !.n = seq[s], !.idle = turn[s] = "idle"]
      <4>3. handler' = [handler EXCEPT ![k] = h] /\ h.step = "replay"
        BY <4>1, <4>2
      <4> HIDE DEF h
      <4> QED BY <4>1, <4>3
    <3>2. CASE ResumeReplays(k)
      BY <3>2, HandlerReplies DEF ResumeReplays, Inv, Types
    <3>3. CASE Reply(k)
      BY <3>3 DEF Reply, Free, Inv, Types, ServerTypes
    <3> QED BY <1>4, <3>1, <3>2, <3>3
  <2> QED BY <2>1, <2>2, HandlerMoves
<1>5. ASSUME NEW k \in Connections, TakePrompt(k) \/ TakeNavigate(k)
      PROVE  AnswersAreNotBlocked'
  <2>1. UNCHANGED <<unheard, attached>>
    BY <1>5 DEF TakePrompt, TakeNavigate
  <2>2. handler'[k].step # "waiting" /\ \A j \in Connections \ {k} : handler'[j] = handler[j]
    BY <1>5, HandlerReplies DEF TakePrompt, TakeNavigate, Inv, Types
  <2>3. \E S \in SUBSET Sessions : S \subseteq attached[k] /\ \A t \in Sessions \ S : turn'[t] = turn[t]
    <3>1. CASE UNCHANGED turn
      <4>1. {} \in SUBSET Sessions /\ {} \subseteq attached[k] /\ \A t \in Sessions \ {} : turn'[t] = turn[t]
        BY <3>1
      <4> QED BY <4>1
    <3>2. CASE \E s \in attached[k] : turn' = [turn EXCEPT ![s] = "starting"]
      <4>1. PICK s \in attached[k] : turn' = [turn EXCEPT ![s] = "starting"]
        BY <3>2
      <4>2. {s} \in SUBSET Sessions /\ \A t \in Sessions \ {s} : turn'[t] = turn[t]
        BY <4>1 DEF Inv, Types, ServerTypes, HostTypes
      <4> QED BY <4>1, <4>2
    <3> QED BY <1>5, <3>1, <3>2 DEF TakePrompt, TakeNavigate
  <2> QED BY <2>1, <2>2, <2>3, BlockedKept
<1>6. ASSUME NEW k \in Connections, TakeCancel(k) PROVE AnswersAreNotBlocked'
  <2> DEFINE s == Head(inbox[k]).s
  <2>1. PICK req \in {"cancel", "close"} : Takes(k, req) /\ Waits(k, req, s, "waiting")
    BY <1>6 DEF TakeCancel
  <2>2. s \in Sessions /\ Head(inbox[k]) \in Requests
    BY <2>1, TakenRequest DEF RequestTypes
  <2>3. /\ handler'[k].step = "waiting" /\ handler'[k].s = s
        /\ \A j \in Connections \ {k} : handler'[j] = handler[j]
    <3>1. UNCHANGED outbound
      BY <1>6 DEF TakeCancel
    <3> QED BY <2>1, <2>2, <3>1, Waiting
  <2>4. /\ UNCHANGED attached
        /\ \/ s \in attached[k] /\ turn' = [turn EXCEPT ![s] = "aborting"] /\ UNCHANGED unheard
           \/ s \in attached[k] /\ unheard' = unheard \cup {s} /\ UNCHANGED turn
           \/ (s \in attached[k] => turn[s] = "idle") /\ UNCHANGED <<turn, unheard>>
    BY <1>6 DEF TakeCancel, Live
  <2> HIDE DEF s
  <2>5. SUFFICES ASSUME NEW j \in Connections, handler'[j].step = "waiting",
                        handler'[j].s \in attached'[j]
                 PROVE  turn'[handler'[j].s] \in {"aborting", "idle"} \/ handler'[j].s \in unheard'
    BY DEF AnswersAreNotBlocked
  <2>6. CASE j = k
    BY <2>2, <2>3, <2>4, <2>5, <2>6 DEF Inv, Types, HostTypes
  <2>7. CASE j # k
    <3>1. handler'[j] = handler[j] /\ handler[j].s \in attached[j]
      BY <2>3, <2>4, <2>5, <2>7
    <3>2. handler[j].s \in Sessions
      BY <2>5, <3>1 DEF Inv, HandlerInv, Handling
    <3>3. handler[j].s \notin attached[k]
      BY <2>7, <3>1, <3>2 DEF Inv, LeaseInv
    <3>4. turn[handler[j].s] \in {"aborting", "idle"} \/ handler[j].s \in unheard
      BY <2>5, <3>1 DEF AnswersAreNotBlocked
    <3> QED BY <2>4, <3>1, <3>2, <3>3, <3>4 DEF Inv, Types, HostTypes
  <2> QED BY <2>6, <2>7
<1>7. ASSUME NEW k \in Connections, CancelAnswers(k) PROVE AnswersAreNotBlocked'
  <2>1. UNCHANGED <<turn, unheard>>
    BY <1>7 DEF CancelAnswers
  <2>2. /\ handler'[k].step # "waiting"
        /\ \A j \in Connections \ {k} : handler'[j] = handler[j]
    BY <1>7, HandlerReplies DEF CancelAnswers, Drained, Inv, Types
  <2>3. \A j \in Connections \ {k} : attached'[j] = attached[j]
    BY <1>7 DEF CancelAnswers, Inv, Types, ServerTypes
  <2> QED BY <2>1, <2>2, <2>3, HandlerMoves
<1>8. ASSUME NEW k \in Connections, Breaks(k) PROVE AnswersAreNotBlocked'
  <2>1. UNCHANGED <<handler, attached, unheard>>
    BY <1>8 DEF Breaks
  <2>2. GoesOn
    BY <1>8, <2>1, ClosesGoesOn DEF Breaks
  <2> QED BY <2>1, <2>2, RunsGoOn
<1>9. ASSUME NEW k \in Connections, AgentCloses(k) PROVE AnswersAreNotBlocked'
  <2>1. UNCHANGED <<handler, turn, unheard>> /\ attached' = [attached EXCEPT ![k] = {}]
    BY <1>9 DEF AgentCloses
  <2>2. GoesOn
    BY <2>1 DEF GoesOn
  <2>3. \A j \in Connections : attached'[j] \subseteq attached[j]
    BY <2>1 DEF Inv, Types, ServerTypes
  <2> QED BY <2>1, <2>2, <2>3, RunsGoOn
<1>10. ASSUME Reconnects PROVE AnswersAreNotBlocked'
  <2>1. UNCHANGED <<handler, attached, unheard>>
    BY <1>10 DEF Reconnects
  <2>2. GoesOn
    <3>1. CASE UNCHANGED turn
      BY <2>1, <3>1 DEF GoesOn
    <3>2. CASE \E i \in 0..Len(inbox[bound]) : Closes(bound, i, [link EXCEPT ![bound + 1] = "up"])
      BY <2>1, <3>2, ClosesGoesOn DEF Inv, Types, ClientTypes
    <3> QED BY <1>10, <3>1, <3>2 DEF Reconnects
  <2> QED BY <2>1, <2>2, RunsGoOn
<1>11. ASSUME ClientStep \/ UserStep, ~Reconnects PROVE AnswersAreNotBlocked'
  <2>1. UNCHANGED <<handler, attached, turn, unheard>>
    BY <1>11 DEF ClientStep, UserStep, DeliverUpdate, DeliverReplay, DeliverRefusal, DeliverNavigated,
         DeliverAsk, Notices, ReconnectFails, RestoreEnds, Rebuilds, Open, Send, Navigate, Command,
         Abort, CloseSession, Resolve, RetryConnection, hostVars, serverVars
  <2> QED BY <2>1 DEF AnswersAreNotBlocked
<1>a. ASSUME NEW k \in Connections, ResumeFails(k) PROVE AnswersAreNotBlocked'
  <2>1. UNCHANGED unheard /\ \A j \in Connections : attached'[j] \subseteq attached[j]
    <3>1. /\ UNCHANGED unheard
          /\ UNCHANGED attached \/ \E s : attached' = [attached EXCEPT ![k] = @ \ {s}]
      BY <1>a DEF ResumeFails
    <3> QED BY <3>1 DEF Inv, Types, ServerTypes
  <2>2. GoesOn
    <3>1. \/ UNCHANGED turn
          \/ \E s : turn' = [turn EXCEPT ![s] = IF turn[s] = "asking" THEN "running" ELSE @]
      BY <1>a DEF ResumeFails
    <3> QED BY <2>1, <3>1 DEF GoesOn, Inv, Types, HostTypes
  <2>3. PICK messages : Respond(k, messages)
    BY <1>a DEF ResumeFails
  <2>4. handler'[k].step = "reply" /\ \A j \in Connections \ {k} : handler'[j] = handler[j]
    BY <2>3, HandlerReplies DEF Inv, Types
  <2> QED BY <2>1, <2>2, <2>4, RunsGoOn
<1>12. CASE UNCHANGED vars
  BY <1>12 DEF AnswersAreNotBlocked, vars, hostVars, serverVars
<1>13. ASSUME NEW k \in Connections, HandlerStep(k) PROVE AnswersAreNotBlocked'
  BY <1>2, <1>3, <1>4, <1>5, <1>6, <1>7, <1>13, <1>a DEF HandlerStep
<1> QED BY <1>1, <1>8, <1>9, <1>10, <1>11, <1>12, <1>13 DEF Next

(* An answer of the user waits behind a cancel only for a run that is being *)
(* aborted, never for one that goes on or that awaits this very answer,     *)
(* however many connections resume, cancel, close and lose Sessions; the    *)
(* exception is a run that was cancelled before it began (host.ts cancel    *)
(* and cancelLiveOperation).                                                *)
THEOREM CancelsWaitForAborts == Spec => []AnswersAreNotBlocked
<1>1. Init => AnswersAreNotBlocked
  BY DEF Init, AnswersAreNotBlocked, Free
<1>2. Inv /\ AnswersAreNotBlocked /\ [Next]_vars => AnswersAreNotBlocked'
  BY BlockedStep
<1> QED BY <1>1, <1>2, SpecInv, PTL DEF Spec

-----------------------------------------------------------------------------
(***************************************************************************)
(* Questions and their answers.                                            *)
(***************************************************************************)
(* The line that asks a. *)
Question(a) == [type |-> "ask", id |-> a.id, s |-> a.s, n |-> a.n]

(* What was asked as a on connection k is on its way to the user, shown, or *)
(* its answer is on the way back.                                           *)
Pending(k, a) ==
  \/ Question(a) \in Range(wire[k])
  \/ \E m \in Range(inbox[k]) : m.type = "answer" /\ m.id = a.id
  \/ k = bound /\ \E p \in prompts : p.id = a.id /\ p.s = a.s /\ p.n = a.n

(* A run that awaits the user is waited for over the connection in use. *)
AskInv ==
  \A s \in Sessions : turn[s] = "asking" =>
    \E a \in asks[bound] : link[bound] = "up" /\ a.s = s /\ a.n = seq[s] /\ Pending(bound, a)

(* What carries the id of a question of connection k is about that question. *)
Matches(k, m) ==
  m.id < nextId[k] /\ \A a \in asks[k] : a.id = m.id => a.s = m.s /\ a.n = m.n

(* A request id names one question wherever it appears: on its way to the    *)
(* client, in a prompt and in an answer.  Only what is late is exempt, and   *)
(* while the client reconnects every prompt is: those of the entries were    *)
(* withdrawn when the restore began, those of entries that had left are kept *)
(* and late, so none that is not meets the ids of the next connection.       *)
QuestionInv ==
  /\ \A k \in Connections : \A m \in Range(wire[k]) : m.type = "ask" => Matches(k, m)
  /\ \A k \in Connections : \A m \in Range(inbox[k]) :
       m.type = "answer" /\ ~m.late => Matches(k, m)
  /\ \A p \in prompts : ~p.late => recon # "connecting" /\ Matches(bound, p)

LEMMA AskedIsAnswered ==
  ASSUME Inv, AskInv
  PROVE  HostIsAnswered
<1> SUFFICES ASSUME NEW s \in Sessions, turn[s] = "asking"
             PROVE  \E k \in Connections : \E a \in asks[k] :
                      /\ link[k] = "up" /\ a.s = s /\ a.n = seq[s]
                      /\ \/ \E i \in DOMAIN wire[k] : wire[k][i] = Question(a)
                         \/ \E i \in DOMAIN inbox[k] :
                              inbox[k][i].type = "answer" /\ inbox[k][i].id = a.id
                         \/ k = bound /\ \E p \in prompts : p.id = a.id /\ p.s = a.s /\ p.n = a.n
  BY DEF HostIsAnswered, Question
<1>1. PICK a \in asks[bound] : link[bound] = "up" /\ a.s = s /\ a.n = seq[s] /\ Pending(bound, a)
  BY DEF AskInv
<1>2. bound \in Connections /\ a \in Asks
  BY DEF Inv, Types, ClientTypes, ServerTypes
<1>3. \/ \E i \in DOMAIN wire[bound] : wire[bound][i] = Question(a)
      \/ \E i \in DOMAIN inbox[bound] : inbox[bound][i].type = "answer" /\ inbox[bound][i].id = a.id
      \/ \E p \in prompts : p.id = a.id /\ p.s = a.s /\ p.n = a.n
  BY <1>1 DEF Pending, Range
<1> QED BY <1>1, <1>2, <1>3

LEMMA AnswersMatch ==
  ASSUME Inv, QuestionInv
  PROVE  AnswerIsForItsQuestion
<1> SUFFICES ASSUME NEW k \in Connections, NEW i \in DOMAIN inbox[k],
                    inbox[k][i].type = "answer", ~inbox[k][i].late
             PROVE  \A a \in asks[k] : a.id = inbox[k][i].id => a.s = inbox[k][i].s /\ a.n = inbox[k][i].n
  BY DEF AnswerIsForItsQuestion
<1>1. inbox[k][i] \in Range(inbox[k])
  BY DEF Range
<1> QED BY <1>1 DEF QuestionInv, Matches

-----------------------------------------------------------------------------
LEMMA WrittenElements ==
  ASSUME Types, NEW k \in Connections, NEW lines \in Seq(InLines), Written(k, lines)
  PROVE  /\ \A j \in Connections \ {k} : inbox'[j] = inbox[j]
         /\ Range(inbox'[k]) =
              Range(inbox[k]) \cup (IF link[k] = "up" /\ alive THEN Range(lines) ELSE {})
<1>1. inbox[k] \in Seq(InLines) /\ inbox \in [Connections -> Seq(InLines)]
  BY DEF Types, ServerTypes
<1>2. Range(inbox[k] \o lines) = Range(inbox[k]) \cup Range(lines)
  BY <1>1, ElementsOfConcat
<1> QED BY <1>1, <1>2 DEF Written

LEMMA CancelledElements ==
  ASSUME Types, NEW P \in SUBSET prompts
  PROVE  Range(Cancelled(P)) = {Answer(p, FALSE) : p \in P}
<1>1. /\ \A i \in DOMAIN Cancelled(P) : \E p \in P : Cancelled(P)[i] = Answer(p, FALSE)
      /\ \A p \in P : \E i \in DOMAIN Cancelled(P) : Cancelled(P)[i] = Answer(p, FALSE)
  BY CancelledLines
<1> QED BY <1>1 DEF Range

LEMMA MatchesKept ==
  ASSUME NEW k \in Connections, NEW m, Matches(k, m),
         nextId'[k] = nextId[k], asks'[k] \subseteq asks[k]
  PROVE  Matches(k, m)'
  BY DEF Matches

(* The Desktop writes lines and withdraws the prompts it answers with them. *)
LEMMA ClientQuestions ==
  ASSUME Inv, AskInv, QuestionInv, NEW W \in SUBSET InLines,
         UNCHANGED <<seq, turn, asks, nextId, link, bound>>,
         \A k \in Connections \ {bound} : inbox'[k] = inbox[k],
         Range(inbox'[bound]) =
           Range(inbox[bound]) \cup (IF link[bound] = "up" /\ alive THEN W ELSE {}),
         \A m \in W : m.type = "answer" =>
           \E p \in prompts : m.id = p.id /\ m.s = p.s /\ m.n = p.n /\ m.late = p.late,
         \A p \in prompts' : p.late \/ p \in prompts,
         link[bound] = "up" =>
           \A p \in prompts : \/ \E q \in prompts' : q.id = p.id /\ q.s = p.s /\ q.n = p.n
                              \/ \E m \in W : m.type = "answer" /\ m.id = p.id,
         recon' = "connecting" => recon = "connecting" \/ \A p \in prompts' : p.late,
         \A k \in Connections : Range(wire'[k]) \subseteq Range(wire[k]),
         link[bound] = "up" =>
           \A m \in Range(wire[bound]) : m.type = "ask" => m \in Range(wire'[bound])
  PROVE  AskInv' /\ QuestionInv'
<1>1. AskInv'
  <2> SUFFICES ASSUME NEW s \in Sessions, turn'[s] = "asking"
               PROVE  \E a \in asks'[bound'] :
                        link'[bound'] = "up" /\ a.s = s /\ a.n = seq'[s] /\ Pending(bound, a)'
    BY DEF AskInv
  <2>1. PICK a \in asks[bound] : link[bound] = "up" /\ a.s = s /\ a.n = seq[s] /\ Pending(bound, a)
    BY DEF AskInv
  <2>2. alive
    BY <2>1 DEF Inv, LinkInv, Types, ClientTypes
  <2>3. Question(a).type = "ask"
    BY DEF Question
  <2>4. Pending(bound, a)'
    <3>1. CASE Question(a) \in Range(wire[bound])
      BY <2>1, <2>3, <3>1 DEF Pending
    <3>2. CASE \E m \in Range(inbox[bound]) : m.type = "answer" /\ m.id = a.id
      BY <3>2 DEF Pending
    <3>3. CASE \E p \in prompts : p.id = a.id /\ p.s = a.s /\ p.n = a.n
      <4>1. PICK p \in prompts : p.id = a.id /\ p.s = a.s /\ p.n = a.n
        BY <3>3
      <4>2. CASE \E q \in prompts' : q.id = p.id /\ q.s = p.s /\ q.n = p.n
        BY <4>1, <4>2 DEF Pending
      <4>3. CASE \E m \in W : m.type = "answer" /\ m.id = p.id
        <5>1. PICK m \in W : m.type = "answer" /\ m.id = p.id
          BY <4>3
        <5>2. m \in Range(inbox'[bound])
          BY <2>1, <2>2, <5>1
        <5> QED BY <4>1, <5>1, <5>2 DEF Pending
      <4> QED BY <2>1, <4>2, <4>3
    <3> QED BY <2>1, <3>1, <3>2, <3>3 DEF Pending
  <2> QED BY <2>1, <2>4
<1>2. \A k \in Connections : \A m : Matches(k, m)' <=> Matches(k, m)
  BY DEF Matches
<1>3. \A k \in Connections : \A m \in Range(wire'[k]) : m.type = "ask" => Matches(k, m)
  BY DEF QuestionInv
<1>4. ASSUME NEW k \in Connections, NEW m \in Range(inbox'[k]), m.type = "answer", ~m.late
      PROVE  Matches(k, m)
  <2>1. CASE m \in Range(inbox[k])
    BY <1>4, <2>1 DEF QuestionInv
  <2>2. CASE m \notin Range(inbox[k])
    <3>1. k = bound /\ m \in W
      BY <1>4, <2>2
    <3>2. PICK p \in prompts : m.id = p.id /\ m.s = p.s /\ m.n = p.n /\ m.late = p.late
      BY <1>4, <3>1
    <3>3. Matches(bound, p)
      BY <1>4, <3>2 DEF QuestionInv
    <3> QED BY <3>1, <3>2, <3>3 DEF Matches
  <2> QED BY <2>1, <2>2
<1>5. ASSUME NEW p \in prompts', ~p.late
      PROVE  recon' # "connecting" /\ Matches(bound, p)
  <2>1. p \in prompts
    BY <1>5
  <2>2. recon # "connecting" /\ Matches(bound, p)
    BY <1>5, <2>1 DEF QuestionInv
  <2>3. recon' # "connecting"
    BY <1>5, <2>2
  <2> QED BY <2>2, <2>3
<1>6. QuestionInv'
  <2>1. bound' = bound /\ bound \in Connections
    BY DEF Inv, Types, ClientTypes
  <2> QED BY <1>2, <1>3, <1>4, <1>5, <2>1 DEF QuestionInv
<1> QED BY <1>1, <1>6

(* The Server handles a line or a Session goes on: only what is answered, or *)
(* not awaited any more, is forgotten.                                       *)
LEMMA ServerQuestions ==
  ASSUME Inv, AskInv, QuestionInv,
         UNCHANGED <<nextId, prompts, bound, recon>>,
         link[bound] = "up" => link'[bound] = "up",
         \A s \in Sessions : turn'[s] = "asking" => turn[s] = "asking" /\ seq'[s] = seq[s],
         \A k \in Connections : asks'[k] \subseteq asks[k],
         \A k \in Connections : Range(inbox'[k]) \subseteq Range(inbox[k]),
         \A k \in Connections : \A m \in Range(wire'[k]) : m.type = "ask" => m \in Range(wire[k]),
         Range(wire[bound]) \subseteq Range(wire'[bound]),
         \A a \in asks[bound] : turn'[a.s] = "asking" /\ a.n = seq[a.s] =>
           /\ a \in asks'[bound]
           /\ \A m \in Range(inbox[bound]) :
                m.type = "answer" /\ m.id = a.id => m \in Range(inbox'[bound])
  PROVE  AskInv' /\ QuestionInv'
<1>1. AskInv'
  <2> SUFFICES ASSUME NEW s \in Sessions, turn'[s] = "asking"
               PROVE  \E a \in asks'[bound'] :
                        link'[bound'] = "up" /\ a.s = s /\ a.n = seq'[s] /\ Pending(bound, a)'
    BY DEF AskInv
  <2>1. turn[s] = "asking" /\ seq'[s] = seq[s]
    OBVIOUS
  <2>2. PICK a \in asks[bound] : link[bound] = "up" /\ a.s = s /\ a.n = seq[s] /\ Pending(bound, a)
    BY <2>1 DEF AskInv
  <2>3. /\ a \in asks'[bound]
        /\ \A m \in Range(inbox[bound]) :
             m.type = "answer" /\ m.id = a.id => m \in Range(inbox'[bound])
    BY <2>2
  <2>4. Pending(bound, a)'
    BY <2>2, <2>3 DEF Pending
  <2> QED BY <2>1, <2>2, <2>3, <2>4
<1>2. \A k \in Connections : \A m : Matches(k, m) => Matches(k, m)'
  BY DEF Matches
<1>3. QuestionInv'
  <2>1. bound' = bound /\ bound \in Connections
    BY DEF Inv, Types, ClientTypes
  <2> QED BY <1>2, <2>1 DEF QuestionInv
<1> QED BY <1>1, <1>3

-----------------------------------------------------------------------------
(***************************************************************************)
(* What the Desktop does to questions.                                     *)
(***************************************************************************)
LEMMA AnswersToPrompts ==
  ASSUME Types, NEW P \in SUBSET prompts
  PROVE  /\ Range(Cancelled(P)) \in SUBSET InLines
         /\ \A m \in Range(Cancelled(P)) :
              \E p \in prompts : m.id = p.id /\ m.s = p.s /\ m.n = p.n /\ m.late = p.late
         /\ \A p \in P : \E m \in Range(Cancelled(P)) : m.type = "answer" /\ m.id = p.id
<1>1. Range(Cancelled(P)) = {Answer(p, FALSE) : p \in P}
  BY CancelledElements
<1>2. \A p \in P : /\ Answer(p, FALSE).type = "answer" /\ Answer(p, FALSE).id = p.id
                   /\ Answer(p, FALSE).s = p.s /\ Answer(p, FALSE).n = p.n
                   /\ Answer(p, FALSE).late = p.late
  BY DEF Answer
<1>3. Range(Cancelled(P)) \in SUBSET InLines
  BY WithdrawnLines, ElementsTyped
<1> QED BY <1>1, <1>2, <1>3

(* The Desktop writes requests, or nothing, and withdraws no prompt. *)
LEMMA RequestQuestions ==
  ASSUME Inv, AskInv, QuestionInv, NEW lines \in Seq(InLines),
         Written(bound, lines) \/ UNCHANGED inbox,
         \A m \in Range(lines) : m.type # "answer",
         UNCHANGED <<seq, turn, asks, nextId, link, bound, prompts>>,
         recon' = "connecting" => recon = "connecting",
         \A k \in Connections : Range(wire'[k]) \subseteq Range(wire[k]),
         link[bound] = "up" =>
           \A m \in Range(wire[bound]) : m.type = "ask" => m \in Range(wire'[bound])
  PROVE  AskInv' /\ QuestionInv'
<1>1. bound \in Connections
  BY DEF Inv, Types, ClientTypes
<1>a. /\ \A p \in prompts' : p.late \/ p \in prompts
      /\ \A p \in prompts : \E q \in prompts' : q.id = p.id /\ q.s = p.s /\ q.n = p.n
  OBVIOUS
<1>2. CASE Written(bound, lines)
  <2>1. /\ \A j \in Connections \ {bound} : inbox'[j] = inbox[j]
        /\ Range(inbox'[bound]) =
             Range(inbox[bound]) \cup (IF link[bound] = "up" /\ alive THEN Range(lines) ELSE {})
    BY <1>1, <1>2, WrittenElements DEF Inv
  <2>2. Range(lines) \in SUBSET InLines
    BY ElementsTyped
  <2> QED BY <1>a, <2>1, <2>2, ClientQuestions
<1>3. CASE UNCHANGED inbox
  <2>1. {} \in SUBSET InLines
    OBVIOUS
  <2>2. Range(inbox'[bound]) = Range(inbox[bound]) \cup (IF link[bound] = "up" /\ alive THEN {} ELSE {})
    BY <1>3
  <2> QED BY <1>3, <1>a, <2>1, <2>2, ClientQuestions
<1> QED BY <1>2, <1>3

LEMMA RequestIsNoAnswer ==
  ASSUME NEW type \in RequestTypes, NEW s \in Sessions, NEW g \in Nat, NEW why \in Whys,
         type = "resume" \/ why = "command"
  PROVE  /\ Range(<<Request(type, s, g, why)>>) = {Request(type, s, g, why)}
         /\ Request(type, s, g, why).type # "answer"
         /\ <<Request(type, s, g, why)>> \in Seq(InLines)
<1>1. Request(type, s, g, why).type # "answer"
  BY DEF Request, RequestTypes
<1> QED BY <1>1, RequestLine, ElementsOfOne

(* The Desktop answers the prompts P it withdraws, before a request or not. *)
LEMMA WithdrawnQuestions ==
  ASSUME Inv, AskInv, QuestionInv, NEW P \in SUBSET prompts, NEW rest \in Seq(InLines),
         Written(bound, Cancelled(P) \o rest),
         \A m \in Range(rest) : m.type # "answer",
         \A p \in prompts' : p.late \/ p \in prompts,
         \A p \in prompts \ P : \E q \in prompts' : q.id = p.id /\ q.s = p.s /\ q.n = p.n,
         UNCHANGED <<seq, turn, asks, nextId, link, bound>>,
         recon' = "connecting" => recon = "connecting" \/ \A p \in prompts' : p.late,
         \A k \in Connections : Range(wire'[k]) \subseteq Range(wire[k]),
         link[bound] = "up" =>
           \A m \in Range(wire[bound]) : m.type = "ask" => m \in Range(wire'[bound])
  PROVE  AskInv' /\ QuestionInv'
<1>1. bound \in Connections /\ Cancelled(P) \in Seq(InLines)
  BY WithdrawnLines DEF Inv, Types, ClientTypes
<1>2. Range(Cancelled(P) \o rest) = Range(Cancelled(P)) \cup Range(rest)
      /\ Cancelled(P) \o rest \in Seq(InLines)
  BY <1>1, ElementsOfConcat
<1>3. /\ \A j \in Connections \ {bound} : inbox'[j] = inbox[j]
      /\ Range(inbox'[bound]) = Range(inbox[bound]) \cup
           (IF link[bound] = "up" /\ alive THEN Range(Cancelled(P) \o rest) ELSE {})
  BY <1>1, <1>2, WrittenElements DEF Inv
<1>4. Range(Cancelled(P) \o rest) \in SUBSET InLines
  BY <1>2, ElementsTyped
<1>5. /\ \A m \in Range(Cancelled(P)) :
           \E p \in prompts : m.id = p.id /\ m.s = p.s /\ m.n = p.n /\ m.late = p.late
      /\ \A p \in P : \E m \in Range(Cancelled(P)) : m.type = "answer" /\ m.id = p.id
  BY AnswersToPrompts DEF Inv
<1>6. \A m \in Range(Cancelled(P) \o rest) : m.type = "answer" =>
        \E p \in prompts : m.id = p.id /\ m.s = p.s /\ m.n = p.n /\ m.late = p.late
  BY <1>2, <1>5
<1>7. \A p \in prompts :
        \/ \E q \in prompts' : q.id = p.id /\ q.s = p.s /\ q.n = p.n
        \/ \E m \in Range(Cancelled(P) \o rest) : m.type = "answer" /\ m.id = p.id
  BY <1>2, <1>5
<1> QED BY <1>3, <1>4, <1>6, <1>7, ClientQuestions

LEMMA ReceivedElements ==
  ASSUME Inv, NEW type, Arrives(type), Received
  PROVE  /\ \A k \in Connections : Range(wire'[k]) \subseteq Range(wire[k])
         /\ type # "ask" =>
              \A m \in Range(wire[bound]) : m.type = "ask" => m \in Range(wire'[bound])
         /\ Range(wire[bound]) = {Head(wire[bound])} \cup Range(wire'[bound])
<1>1. wire[bound] \in Seq(OutLines) /\ wire[bound] # <<>> /\ Head(wire[bound]).type = type
      /\ wire \in [Connections -> Seq(OutLines)] /\ bound \in Connections
  BY DEF Arrives, Inv, Types, ServerTypes, ClientTypes
<1>2. /\ Range(wire[bound]) = {Head(wire[bound])} \cup Range(Tail(wire[bound]))
      /\ Range(Tail(wire[bound])) \subseteq Range(wire[bound])
  BY <1>1, ElementsOfTail
<1>3. wire'[bound] = Tail(wire[bound]) /\ \A k \in Connections \ {bound} : wire'[k] = wire[k]
  BY <1>1 DEF Received
<1> QED BY <1>1, <1>2, <1>3

LEMMA CommandQuestions ==
  ASSUME Inv, AskInv, QuestionInv, NEW s \in Sessions, NEW g \in Nat,
         NEW type \in RequestTypes, NEW why \in Whys, type = "resume" \/ why = "command",
         Written(bound, <<Request(type, s, g, why)>>),
         UNCHANGED <<seq, turn, asks, nextId, link, bound, prompts, recon, wire>>
  PROVE  AskInv' /\ QuestionInv'
<1>1. <<Request(type, s, g, why)>> \in Seq(InLines)
      /\ \A m \in Range(<<Request(type, s, g, why)>>) : m.type # "answer"
  BY RequestIsNoAnswer
<1>2. \A k \in Connections : Range(wire'[k]) \subseteq Range(wire[k])
  OBVIOUS
<1>3. \A m \in Range(wire[bound]) : m.type = "ask" => m \in Range(wire'[bound])
  OBVIOUS
<1> QED BY <1>1, <1>2, <1>3, RequestQuestions

LEMMA UserQuestions ==
  ASSUME Inv, AskInv, QuestionInv, UserStep
  PROVE  AskInv' /\ QuestionInv'
<1>0. bound \in Connections
  BY DEF Inv, Types, ClientTypes
<1>1. /\ "resume" \in RequestTypes /\ "prompt" \in RequestTypes /\ "navigate" \in RequestTypes
      /\ "cancel" \in RequestTypes /\ "close" \in RequestTypes
      /\ "open" \in Whys /\ "command" \in Whys
  BY DEF RequestTypes, Whys
<1>g. \A s \in Sessions : gen[s] \in Nat /\ gen[s] + 1 \in Nat
  BY DEF Inv, Types, ClientTypes
<1>2. ASSUME NEW s \in Sessions, Open(s) PROVE AskInv' /\ QuestionInv'
  <2>1. /\ Written(bound, <<Request("resume", s, gen[s] + 1, "open")>>)
        /\ UNCHANGED <<seq, turn, asks, nextId, link, bound, prompts, recon, wire>>
    BY <1>2 DEF Open, hostVars
  <2> QED BY <1>1, <1>g, <2>1, CommandQuestions
<1>3. ASSUME NEW s \in Sessions, Send(s) \/ Navigate(s) PROVE AskInv' /\ QuestionInv'
  <2>1. PICK type \in {"prompt", "navigate"} : Command(type, s)
    BY <1>3 DEF Send, Navigate
  <2>2. /\ Written(bound, <<Request(type, s, gen[s], "command")>>)
        /\ UNCHANGED <<seq, turn, asks, nextId, link, bound, prompts, recon, wire>>
    BY <2>1 DEF Command, hostVars, clientVars
  <2> QED BY <1>1, <1>g, <2>1, <2>2, CommandQuestions
<1>4. ASSUME NEW s \in Sessions, Abort(s) \/ CloseSession(s) PROVE AskInv' /\ QuestionInv'
  <2>1. PICK type \in {"cancel", "close"} :
          Written(bound, Append(Cancelled(PromptsOf(s)), Request(type, s, gen[s], "command")))
    BY <1>4 DEF Abort, CloseSession
  <2>2. /\ prompts' = prompts \ PromptsOf(s)
        /\ UNCHANGED <<seq, turn, asks, nextId, link, bound, recon, wire>>
    BY <1>4 DEF Abort, CloseSession, hostVars
  <2>3. PromptsOf(s) \in SUBSET prompts
    BY DEF PromptsOf
  <2>4. /\ <<Request(type, s, gen[s], "command")>> \in Seq(InLines)
        /\ \A m \in Range(<<Request(type, s, gen[s], "command")>>) : m.type # "answer"
    BY <1>1, <1>g, <2>1, RequestIsNoAnswer
  <2>5. Append(Cancelled(PromptsOf(s)), Request(type, s, gen[s], "command"))
          = Cancelled(PromptsOf(s)) \o <<Request(type, s, gen[s], "command")>>
    <3>1. Cancelled(PromptsOf(s)) \in Seq(InLines)
      BY <2>3, WithdrawnLines DEF Inv
    <3> QED BY <3>1
  <2>6. Written(bound, Cancelled(PromptsOf(s)) \o <<Request(type, s, gen[s], "command")>>)
    BY <2>1, <2>5
  <2>7. /\ \A k \in Connections : Range(wire'[k]) \subseteq Range(wire[k])
        /\ \A p \in prompts' : p.late \/ p \in prompts
        /\ \A p \in prompts \ PromptsOf(s) : \E q \in prompts' : q.id = p.id /\ q.s = p.s /\ q.n = p.n
    BY <2>2
  <2> QED BY <2>2, <2>3, <2>4, <2>6, <2>7, WithdrawnQuestions
<1>5. ASSUME NEW p \in prompts, Resolve(p) PROVE AskInv' /\ QuestionInv'
  <2>1. /\ Written(bound, <<Answer(p, TRUE)>>) /\ prompts' = prompts \ {p}
        /\ UNCHANGED <<seq, turn, asks, nextId, link, bound, recon, wire>>
    BY <1>5 DEF Resolve, hostVars
  <2>2. p \in Prompts /\ <<Answer(p, TRUE)>> \in Seq(InLines)
    <3>1. p \in Prompts
      BY DEF Inv, Types, ClientTypes
    <3> QED BY <3>1, AnswerLine DEF Inv
  <2>3. /\ Range(<<Answer(p, TRUE)>>) = {Answer(p, TRUE)}
        /\ Range(<<Answer(p, TRUE)>>) \in SUBSET InLines
    BY <2>2, ElementsOfOne, ElementsTyped
  <2>4. /\ \A j \in Connections \ {bound} : inbox'[j] = inbox[j]
        /\ Range(inbox'[bound]) = Range(inbox[bound]) \cup
             (IF link[bound] = "up" /\ alive THEN Range(<<Answer(p, TRUE)>>) ELSE {})
    BY <1>0, <2>1, <2>2, WrittenElements DEF Inv
  <2>5. /\ Answer(p, TRUE).type = "answer" /\ Answer(p, TRUE).id = p.id /\ Answer(p, TRUE).s = p.s
        /\ Answer(p, TRUE).n = p.n /\ Answer(p, TRUE).late = p.late
    BY DEF Answer
  <2>6. \A m \in Range(<<Answer(p, TRUE)>>) : m.type = "answer" =>
          \E q \in prompts : m.id = q.id /\ m.s = q.s /\ m.n = q.n /\ m.late = q.late
    BY <2>3, <2>5
  <2>7. \A q \in prompts :
          \/ \E x \in prompts' : x.id = q.id /\ x.s = q.s /\ x.n = q.n
          \/ \E m \in Range(<<Answer(p, TRUE)>>) : m.type = "answer" /\ m.id = q.id
    BY <2>1, <2>3, <2>5
  <2>8. /\ \A q \in prompts' : q.late \/ q \in prompts
        /\ \A k \in Connections : Range(wire'[k]) \subseteq Range(wire[k])
        /\ \A m \in Range(wire[bound]) : m.type = "ask" => m \in Range(wire'[bound])
    BY <2>1
  <2> QED BY <2>1, <2>3, <2>4, <2>6, <2>7, <2>8, ClientQuestions
<1>6. ASSUME RetryConnection PROVE AskInv' /\ QuestionInv'
  <2> DEFINE P == {p \in prompts : Mine(p)}
  <2>1. /\ Written(bound, Cancelled(P)) /\ StartRestore({s \in Sessions : Known(s)})
        /\ UNCHANGED <<seq, turn, asks, nextId, link, bound, wire>>
    BY <1>6 DEF RetryConnection, hostVars
  <2>2. <<>> \in Seq(InLines) /\ \A m \in Range(<<>>) : m.type # "answer"
    BY NoLines, ElementsOfNone
  <2>3. /\ P \in SUBSET prompts
        /\ \A p \in prompts' : p.late
        /\ \A p \in prompts \ P : \E q \in prompts' : q.id = p.id /\ q.s = p.s /\ q.n = p.n
    BY <2>1, Orphans DEF Inv
  <2> HIDE DEF P
  <2>4. Cancelled(P) \o <<>> = Cancelled(P)
    <3>1. Cancelled(P) \in Seq(InLines)
      BY <2>3, WithdrawnLines DEF Inv
    <3> QED BY <3>1
  <2>5. Written(bound, Cancelled(P) \o <<>>)
    BY <2>1, <2>4
  <2>6. /\ \A k \in Connections : Range(wire'[k]) \subseteq Range(wire[k])
        /\ \A m \in Range(wire[bound]) : m.type = "ask" => m \in Range(wire'[bound])
        /\ \A p \in prompts' : p.late \/ p \in prompts
    BY <2>1, <2>3
  <2> QED BY <2>1, <2>2, <2>3, <2>5, <2>6, WithdrawnQuestions
<1> QED BY <1>2, <1>3, <1>4, <1>5, <1>6 DEF UserStep

(* The prompts a projection withdraws are answered. *)
LEMMA ProjectQuestions ==
  ASSUME Inv, AskInv, QuestionInv, NEW s, NEW N, NEW n, NEW idle, Project(s, N, n, idle),
         UNCHANGED <<seq, turn, asks, nextId, link, bound, recon>>,
         \A k \in Connections : Range(wire'[k]) \subseteq Range(wire[k]),
         \A m \in Range(wire[bound]) : m.type = "ask" => m \in Range(wire'[bound])
  PROVE  AskInv' /\ QuestionInv'
<1> DEFINE ends == IF idle /\ Known(s) THEN PromptsOf(s) ELSE {}
<1>1. ends \in SUBSET prompts /\ prompts' = prompts \ ends /\ Written(bound, Cancelled(ends))
  BY DEF Project, PromptsOf
<1> HIDE DEF ends
<1>2. <<>> \in Seq(InLines) /\ \A m \in Range(<<>>) : m.type # "answer"
  BY NoLines, ElementsOfNone
<1>3. Cancelled(ends) \o <<>> = Cancelled(ends)
  <2>1. Cancelled(ends) \in Seq(InLines)
    BY <1>1, WithdrawnLines DEF Inv
  <2> QED BY <2>1
<1>4. Written(bound, Cancelled(ends) \o <<>>)
  BY <1>1, <1>3
<1>5. /\ \A p \in prompts' : p.late \/ p \in prompts
      /\ \A p \in prompts \ ends : \E q \in prompts' : q.id = p.id /\ q.s = p.s /\ q.n = p.n
  BY <1>1
<1> QED BY <1>1, <1>2, <1>4, <1>5, WithdrawnQuestions

(* A question that arrives becomes a prompt, or is answered at once. *)
LEMMA DeliverAskQuestions ==
  ASSUME Inv, AskInv, QuestionInv, DeliverAsk
  PROVE  AskInv' /\ QuestionInv'
<1> DEFINE m == Head(wire[bound])
           p == [id |-> m.id, s |-> m.s, n |-> m.n, gen |-> gen[m.s],
                 late |-> recon = "connecting"]
<1>0. bound \in Connections /\ FALSE \in BOOLEAN
  BY DEF Inv, Types, ClientTypes
<1>1. m \in AskLines /\ alive
  BY ArrivedLine DEF DeliverAsk, Arrives
<1>2. /\ \A k \in Connections : Range(wire'[k]) \subseteq Range(wire[k])
      /\ Range(wire[bound]) = {m} \cup Range(wire'[bound])
  BY ReceivedElements DEF DeliverAsk
<1>3. \/ prompts' = prompts \cup {p} /\ UNCHANGED inbox
      \/ Written(bound, <<Answer(p, FALSE)>>) /\ UNCHANGED prompts
  BY DEF DeliverAsk
<1>4. UNCHANGED <<seq, turn, link, asks, nextId, bound, recon>>
  BY DEF DeliverAsk, hostVars
<1>5. /\ p.id = m.id /\ p.s = m.s /\ p.n = m.n /\ p.late = (recon = "connecting")
      /\ p \in Prompts
  <2>1. (recon = "connecting") \in BOOLEAN /\ gen[m.s] \in Nat
    BY <1>1 DEF AskLines, Inv, Types, ClientTypes
  <2> HIDE DEF m
  <2> QED BY <1>1, <2>1 DEF AskLines, Prompts
<1> HIDE DEF p
<1>6. Matches(bound, m) /\ Matches(bound, p)
  <2>1. m.type = "ask" /\ m \in Range(wire[bound])
    BY <1>1, <1>2 DEF AskLines
  <2>2. Matches(bound, m)
    BY <1>0, <2>1 DEF QuestionInv
  <2> QED BY <1>5, <2>2 DEF Matches
<1>7. /\ Answer(p, FALSE).type = "answer" /\ Answer(p, FALSE).id = p.id
      /\ Answer(p, FALSE).s = p.s /\ Answer(p, FALSE).n = p.n /\ Answer(p, FALSE).late = p.late
  BY DEF Answer
<1>8. /\ \A j \in Connections \ {bound} : inbox'[j] = inbox[j]
      /\ Range(inbox[bound]) \subseteq Range(inbox'[bound])
      /\ Range(inbox'[bound]) \subseteq Range(inbox[bound]) \cup {Answer(p, FALSE)}
      /\ \/ prompts' = prompts \cup {p}
         \/ prompts' = prompts /\ (link[bound] = "up" => Answer(p, FALSE) \in Range(inbox'[bound]))
  <2>1. CASE prompts' = prompts \cup {p} /\ UNCHANGED inbox
    BY <2>1
  <2>2. CASE Written(bound, <<Answer(p, FALSE)>>) /\ UNCHANGED prompts
    <3>1. /\ \A j \in Connections \ {bound} : inbox'[j] = inbox[j]
          /\ Range(inbox'[bound]) = Range(inbox[bound]) \cup
               (IF link[bound] = "up" /\ alive THEN Range(<<Answer(p, FALSE)>>) ELSE {})
      BY <1>0, <1>5, <2>2, AnswerLine, WrittenElements DEF Inv
    <3>2. Range(<<Answer(p, FALSE)>>) = {Answer(p, FALSE)}
      BY ElementsOfOne
    <3> QED BY <1>1, <2>2, <3>1, <3>2
  <2> QED BY <1>3, <2>1, <2>2
<1>9. AskInv'
  <2> SUFFICES ASSUME NEW s \in Sessions, turn'[s] = "asking"
               PROVE  \E a \in asks'[bound'] :
                        link'[bound'] = "up" /\ a.s = s /\ a.n = seq'[s] /\ Pending(bound, a)'
    BY DEF AskInv
  <2>1. PICK a \in asks[bound] : link[bound] = "up" /\ a.s = s /\ a.n = seq[s] /\ Pending(bound, a)
    BY <1>4 DEF AskInv
  <2>2. Pending(bound, a)'
    <3>1. CASE Question(a) \in Range(wire'[bound])
      BY <1>4, <3>1 DEF Pending, Question
    <3>2. CASE Question(a) = m
      <4>1. m.id = a.id /\ m.s = a.s /\ m.n = a.n
        BY <3>2 DEF Question
      <4> QED BY <1>4, <1>5, <1>7, <1>8, <2>1, <4>1 DEF Pending
    <3>3. CASE \E x \in Range(inbox[bound]) : x.type = "answer" /\ x.id = a.id
      BY <1>4, <1>8, <3>3 DEF Pending
    <3>4. CASE \E x \in prompts : x.id = a.id /\ x.s = a.s /\ x.n = a.n
      BY <1>4, <1>8, <3>4 DEF Pending
    <3> QED BY <1>2, <2>1, <3>1, <3>2, <3>3, <3>4 DEF Pending
  <2> QED BY <1>4, <2>1, <2>2
<1>10. QuestionInv'
  <2>1. \A k \in Connections : \A x : Matches(k, x)' <=> Matches(k, x)
    BY <1>4 DEF Matches
  <2>2. \A k \in Connections : \A x \in Range(wire'[k]) : x.type = "ask" => Matches(k, x)
    BY <1>2 DEF QuestionInv
  <2>3. ASSUME NEW k \in Connections, NEW x \in Range(inbox'[k]), x.type = "answer", ~x.late
        PROVE  Matches(k, x)
    <3>1. CASE x \in Range(inbox[k])
      BY <2>3, <3>1 DEF QuestionInv
    <3>2. CASE x \notin Range(inbox[k])
      <4>1. k = bound /\ x = Answer(p, FALSE)
        BY <1>8, <2>3, <3>2
      <4> QED BY <1>6, <1>7, <4>1 DEF Matches
    <3> QED BY <3>1, <3>2
  <2>4. ASSUME NEW x \in prompts', ~x.late
        PROVE  recon # "connecting" /\ Matches(bound, x)
    <3>1. CASE x \in prompts
      BY <2>4, <3>1 DEF QuestionInv
    <3>2. CASE x = p
      BY <1>5, <1>6, <2>4, <3>2
    <3> QED BY <1>8, <3>1, <3>2
  <2> QED BY <1>0, <1>4, <2>1, <2>2, <2>3, <2>4 DEF QuestionInv
<1> QED BY <1>9, <1>10

(* When the socket closes, the runs that waited over it are denied. *)
LEMMA NobodyAsks ==
  ASSUME Inv, AskInv, NEW i, NEW links, Closes(bound, i, links)
  PROVE  \A s \in Sessions : turn'[s] # "asking"
<1> SUFFICES ASSUME NEW s \in Sessions, turn'[s] = "asking"
             PROVE  FALSE
  OBVIOUS
<1>1. s \notin Denied(bound) /\ turn[s] = "asking"
  BY DEF Closes
<1>2. PICK a \in asks[bound] : a.s = s /\ a.n = seq[s]
  BY <1>1 DEF AskInv
<1> QED BY <1>1, <1>2 DEF Denied, Asked

LEMMA ReconnectsQuestions ==
  ASSUME Inv, AskInv, QuestionInv, Reconnects
  PROVE  AskInv' /\ QuestionInv'
<1>1. /\ UNCHANGED <<nextId, prompts>> /\ recon = "connecting" /\ bound \in Connections
      /\ wire' = [wire EXCEPT ![bound] = <<>>]
  BY DEF Reconnects, Inv, Types, ClientTypes
<1>2. \/ \E i \in 0..Len(inbox[bound]) : Closes(bound, i, [link EXCEPT ![bound + 1] = "up"])
      \/ link[bound] # "up" /\ UNCHANGED <<inbox, asks, turn, seq>>
  BY DEF Reconnects
<1>3. /\ \A s \in Sessions : turn'[s] # "asking"
      /\ \A k \in Connections : asks'[k] \subseteq asks[k]
      /\ \A k \in Connections : Range(inbox'[k]) \subseteq Range(inbox[k])
  <2>1. CASE \E i \in 0..Len(inbox[bound]) : Closes(bound, i, [link EXCEPT ![bound + 1] = "up"])
    <3>1. PICK i \in 0..Len(inbox[bound]) : Closes(bound, i, [link EXCEPT ![bound + 1] = "up"])
      BY <2>1
    <3>2. \A s \in Sessions : turn'[s] # "asking"
      BY <3>1, NobodyAsks
    <3>3. /\ asks'[bound] = {} /\ inbox'[bound] = SubSeq(inbox[bound], 1, i)
          /\ \A k \in Connections \ {bound} : asks'[k] = asks[k] /\ inbox'[k] = inbox[k]
      BY <1>1, <3>1 DEF Closes, Inv, Types, ServerTypes
    <3>4. Range(SubSeq(inbox[bound], 1, i)) \subseteq Range(inbox[bound])
      BY <1>1, ElementsOfPrefix DEF Inv, Types, ServerTypes
    <3> QED BY <3>2, <3>3, <3>4
  <2>2. CASE link[bound] # "up" /\ UNCHANGED <<inbox, asks, turn, seq>>
    BY <2>2 DEF AskInv
  <2> QED BY <1>2, <2>1, <2>2
<1>4. \A k \in Connections : Range(wire'[k]) \subseteq Range(wire[k])
  <2>1. Range(wire'[bound]) = {} /\ \A k \in Connections \ {bound} : wire'[k] = wire[k]
    BY <1>1, ElementsOfNone DEF Inv, Types, ServerTypes
  <2> QED BY <2>1
<1>5. \A k \in Connections : \A x : Matches(k, x) => Matches(k, x)'
  BY <1>1, <1>3 DEF Matches
<1>6. \A p \in prompts' : p.late
  BY <1>1 DEF QuestionInv
<1> QED BY <1>3, <1>4, <1>5, <1>6 DEF AskInv, QuestionInv

LEMMA BreaksQuestions ==
  ASSUME Inv, AskInv, QuestionInv, NEW k \in Connections, Breaks(k)
  PROVE  AskInv' /\ QuestionInv'
<1>1. k = bound
  BY DEF Breaks, Inv, LinkInv
<1>2. PICK i \in 0..Len(inbox[k]) : Closes(k, i, link)
  BY DEF Breaks
<1>3. \A s \in Sessions : turn'[s] # "asking"
  BY <1>1, <1>2, NobodyAsks
<1>4. /\ asks'[k] = {} /\ inbox'[k] = SubSeq(inbox[k], 1, i)
      /\ \A j \in Connections \ {k} : asks'[j] = asks[j] /\ inbox'[j] = inbox[j]
  BY <1>2 DEF Closes, Inv, Types, ServerTypes
<1>5. Range(SubSeq(inbox[k], 1, i)) \subseteq Range(inbox[k])
  BY ElementsOfPrefix DEF Inv, Types, ServerTypes
<1>6. /\ \A j \in Connections : asks'[j] \subseteq asks[j]
      /\ \A j \in Connections : Range(inbox'[j]) \subseteq Range(inbox[j])
  BY <1>4, <1>5
<1>7. UNCHANGED <<nextId, wire, prompts, bound, recon>>
  BY DEF Breaks, clientVars
<1>8. \A j \in Connections : \A x : Matches(j, x) => Matches(j, x)'
  BY <1>6, <1>7 DEF Matches
<1>9. bound \in Connections
  BY <1>1
<1> QED BY <1>3, <1>6, <1>7, <1>8, <1>9 DEF AskInv, QuestionInv

LEMMA ClientStepQuestions ==
  ASSUME Inv, AskInv, QuestionInv, ClientStep
  PROVE  AskInv' /\ QuestionInv'
<1>a. bound \in Connections
  BY DEF Inv, Types, ClientTypes
<1>b. "resume" \in RequestTypes /\ "navigate" \in Whys /\ "rebuild" \in Whys
  BY DEF RequestTypes, Whys
<1>1. CASE DeliverUpdate \/ DeliverReplay
  <2>1. PICK type \in {"update", "replayed"} : Arrives(type) /\ Received
    BY <1>1 DEF DeliverUpdate, DeliverReplay
  <2>2. UNCHANGED <<seq, turn, asks, nextId, link, bound, recon>>
    BY <1>1 DEF DeliverUpdate, DeliverReplay, hostVars
  <2>3. \E s, N, n, idle : Project(s, N, n, idle)
    BY <1>1 DEF DeliverUpdate, DeliverReplay
  <2>4. /\ \A k \in Connections : Range(wire'[k]) \subseteq Range(wire[k])
        /\ \A m \in Range(wire[bound]) : m.type = "ask" => m \in Range(wire'[bound])
    BY <2>1, ReceivedElements
  <2> QED BY <2>2, <2>3, <2>4, ProjectQuestions
<1>2. CASE DeliverRefusal \/ DeliverNavigated
  <2>1. PICK type \in {"refused", "navigated"} : Arrives(type) /\ Received
    BY <1>2 DEF DeliverRefusal, DeliverNavigated
  <2>2. UNCHANGED <<seq, turn, asks, nextId, link, bound, prompts, recon>>
    BY <1>2 DEF DeliverRefusal, DeliverNavigated, hostVars
  <2>3. /\ \A k \in Connections : Range(wire'[k]) \subseteq Range(wire[k])
        /\ \A m \in Range(wire[bound]) : m.type = "ask" => m \in Range(wire'[bound])
    BY <2>1, ReceivedElements
  <2>4. PICK s \in Sessions, g \in Nat :
          Written(bound, <<Request("resume", s, g, "navigate")>>) \/ UNCHANGED inbox
    <3>1. Head(wire[bound]).s \in Sessions
      BY <2>1, ArrivedLine
    <3>2. CASE DeliverRefusal
      <4>1. UNCHANGED inbox
        BY <3>2 DEF DeliverRefusal
      <4> QED BY <3>1, <4>1
    <3>3. CASE DeliverNavigated
      <4>1. Head(wire[bound]).gen \in Nat
        BY <3>3, ArrivedLine DEF DeliverNavigated
      <4> QED BY <3>1, <3>3, <4>1 DEF DeliverNavigated
    <3> QED BY <1>2, <3>2, <3>3
  <2>5. /\ <<Request("resume", s, g, "navigate")>> \in Seq(InLines)
        /\ \A m \in Range(<<Request("resume", s, g, "navigate")>>) : m.type # "answer"
    BY <1>b, RequestIsNoAnswer
  <2> QED BY <2>2, <2>3, <2>4, <2>5, RequestQuestions
<1>3. CASE Notices
  <2>1. /\ UNCHANGED <<seq, turn, asks, nextId, link, bound, inbox>> /\ link[bound] # "up"
        /\ wire' = [wire EXCEPT ![bound] = <<>>]
        /\ \/ \A p \in prompts' : p.late
           \/ UNCHANGED <<recon, prompts>>
    <3>1. \/ \E S : StartRestore(S)
          \/ UNCHANGED <<recon, prompts>>
      BY <1>3 DEF Notices
    <3>2. (\A p \in prompts' : p.late) \/ UNCHANGED <<recon, prompts>>
      BY <3>1, Orphans DEF Inv
    <3> QED BY <1>3, <3>2 DEF Notices, hostVars
  <2>2. \A k \in Connections : Range(wire'[k]) \subseteq Range(wire[k])
    <3>1. Range(wire'[bound]) = {} /\ \A k \in Connections \ {bound} : wire'[k] = wire[k]
      BY <1>a, <2>1, ElementsOfNone DEF Inv, Types, ServerTypes
    <3> QED BY <3>1
  <2>3. {} \in SUBSET InLines
        /\ Range(inbox'[bound]) =
             Range(inbox[bound]) \cup (IF link[bound] = "up" /\ alive THEN {} ELSE {})
    BY <2>1
  <2>4. /\ \A k \in Connections \ {bound} : inbox'[k] = inbox[k]
        /\ \A p \in prompts' : p.late \/ p \in prompts
        /\ recon' = "connecting" => recon = "connecting" \/ \A p \in prompts' : p.late
    BY <2>1
  <2> QED BY <2>1, <2>2, <2>3, <2>4, ClientQuestions
<1>4. CASE ReconnectFails \/ RestoreEnds \/ \E s \in Sessions : Rebuilds(s)
  <2>1. UNCHANGED <<seq, turn, asks, nextId, link, bound, prompts, wire>>
        /\ (recon' = "connecting" => recon = "connecting")
    BY <1>4 DEF ReconnectFails, RestoreEnds, Rebuilds, hostVars, serverVars
  <2>2. \A k \in Connections : Range(wire'[k]) \subseteq Range(wire[k])
    BY <2>1
  <2>3. CASE UNCHANGED inbox
    <3>1. <<>> \in Seq(InLines) /\ \A m \in Range(<<>>) : m.type # "answer"
      BY NoLines, ElementsOfNone
    <3> QED BY <2>1, <2>2, <2>3, <3>1, RequestQuestions
  <2>4. ASSUME NEW s \in Sessions, NEW g \in Nat, Written(bound, <<Request("resume", s, g, "rebuild")>>)
        PROVE  AskInv' /\ QuestionInv'
    <3>1. /\ <<Request("resume", s, g, "rebuild")>> \in Seq(InLines)
          /\ \A m \in Range(<<Request("resume", s, g, "rebuild")>>) : m.type # "answer"
      BY <1>b, RequestIsNoAnswer
    <3> QED BY <2>1, <2>2, <2>4, <3>1, RequestQuestions
  <2>5. \/ \E s \in Sessions, g \in Nat : Written(bound, <<Request("resume", s, g, "rebuild")>>)
        \/ UNCHANGED inbox
    <3>1. \A s \in Sessions : gen[s] \in Nat
      BY DEF Inv, Types, ClientTypes
    <3> QED BY <1>4, <3>1 DEF ReconnectFails, RestoreEnds, Rebuilds, serverVars
  <2> QED BY <2>3, <2>4, <2>5
<1> QED BY <1>1, <1>2, <1>3, <1>4, DeliverAskQuestions, ReconnectsQuestions DEF ClientStep

-----------------------------------------------------------------------------
(***************************************************************************)
(* What the Server and the Sessions do to questions.                       *)
(***************************************************************************)
(* What is published only adds to a line, and asks what it is given. *)
LEMMA PublishedElements ==
  ASSUME Inv, NEW s, NEW updates \in Seq(Notifications), NEW requests \in Seq(AskLines),
         Publish(s, updates, requests), NEW k \in Connections
  PROVE  /\ Range(wire[k]) \subseteq Range(wire'[k])
         /\ \A m \in Range(wire'[k]) : m.type = "ask" => m \in Range(wire[k]) \cup Range(requests)
         /\ s \in attached[k] /\ link[k] = "up" => Range(requests) \subseteq Range(wire'[k])
<1>1. wire[k] \in Seq(OutLines) /\ requests \in Seq(OutLines) /\ updates \in Seq(OutLines)
      /\ <<>> \in Seq(OutLines)
  BY DEF Inv, Types, ServerTypes, OutLines
<1>2. wire[k] \o requests \in Seq(OutLines)
      /\ Range(wire[k] \o requests) = Range(wire[k]) \cup Range(requests)
  BY <1>1, ElementsOfConcat
<1>3. Range((wire[k] \o requests) \o updates) = Range(wire[k]) \cup Range(requests) \cup Range(updates)
  <2> DEFINE p == wire[k] \o requests
  <2>1. p \in Seq(OutLines)
    BY <1>2
  <2> HIDE DEF p
  <2>2. Range(p \o updates) = Range(p) \cup Range(updates)
    BY <1>1, <2>1, ElementsOfConcat
  <2> QED BY <1>2, <2>2 DEF p
<1>4. (wire[k] \o requests) \o <<>> = wire[k] \o requests
  BY <1>2
<1>5. \A m \in Range(updates) : m.type # "ask"
  <2>1. Range(updates) \subseteq Notifications
    BY ElementsTyped
  <2> QED BY <2>1 DEF Notifications
<1>6. \/ wire'[k] = wire[k] /\ ~(s \in attached[k] /\ link[k] = "up")
      \/ wire'[k] = (wire[k] \o requests) \o <<>>
      \/ wire'[k] = (wire[k] \o requests) \o updates
  BY DEF Publish
<1> QED BY <1>2, <1>3, <1>4, <1>5, <1>6

(* One update of s; what s asked before is not awaited any more. *)
LEMMA UpdateQuestions ==
  ASSUME Inv, AskInv, QuestionInv, NEW s \in Sessions, NEW t \in Turns \ {"asking"},
         seq[s] + 1 <= MaxUpdates, PublishTurn(s, t),
         UNCHANGED <<link, nextId, clientVars>>,
         \A k \in Connections : asks'[k] \subseteq asks[k],
         \A k \in Connections : Range(inbox'[k]) \subseteq Range(inbox[k]),
         \A a \in asks[bound] : a.s # s /\ turn[a.s] = "asking" /\ a.n = seq[a.s] =>
           /\ a \in asks'[bound]
           /\ \A m \in Range(inbox[bound]) :
                m.type = "answer" /\ m.id = a.id => m \in Range(inbox'[bound])
  PROVE  AskInv' /\ QuestionInv'
<1>1. seq[s] + 1 \in Updates
  BY Numbers DEF Inv, Types, HostTypes, Updates
<1>2. <<Update(s, seq[s] + 1, t)>> \in Seq(Notifications) /\ <<>> \in Seq(AskLines)
      /\ Len(<<Update(s, seq[s] + 1, t)>>) = 1
  BY <1>1, UpdateLine, NoLines
<1>3. Publish(s, <<Update(s, seq[s] + 1, t)>>, <<>>) /\ turn' = [turn EXCEPT ![s] = t]
  BY DEF PublishTurn
<1>4. bound \in Connections /\ Range(<<>>) = {}
  BY ElementsOfNone DEF Inv, Types, ClientTypes
<1>5. /\ \A k \in Connections : \A m \in Range(wire'[k]) : m.type = "ask" => m \in Range(wire[k])
      /\ Range(wire[bound]) \subseteq Range(wire'[bound])
  BY <1>2, <1>3, <1>4, PublishedElements
<1>6. \A r \in Sessions : turn'[r] = "asking" => r # s /\ turn[r] = "asking" /\ seq'[r] = seq[r]
  BY <1>2, <1>3 DEF Publish, Inv, Types, HostTypes
<1>7. \A a \in asks[bound] : a.s \in Sessions
  BY <1>4 DEF Inv, Types, ServerTypes, Asks
<1>8. UNCHANGED <<nextId, prompts, bound, recon>>
  BY DEF clientVars
<1>9. \A a \in asks[bound] : turn'[a.s] = "asking" /\ a.n = seq[a.s] =>
        /\ a \in asks'[bound]
        /\ \A m \in Range(inbox[bound]) :
             m.type = "answer" /\ m.id = a.id => m \in Range(inbox'[bound])
  BY <1>6, <1>7
<1>10. \A r \in Sessions : turn'[r] = "asking" => turn[r] = "asking" /\ seq'[r] = seq[r]
  BY <1>6
<1>11. link[bound] = "up" => link'[bound] = "up"
  OBVIOUS
<1> QED BY <1>5, <1>8, <1>9, <1>10, <1>11, ServerQuestions

LEMMA RunQuestions ==
  ASSUME Inv, AskInv, QuestionInv, NEW s \in Sessions, RunStarts(s) \/ RunAppends(s) \/ RunEnds(s)
  PROVE  AskInv' /\ QuestionInv'
<1>1. CASE RunStarts(s)
  <2>1. UNCHANGED <<seq, link, asks, nextId, inbox, wire, prompts, bound, recon>>
        /\ \A t \in Sessions : turn'[t] = "asking" => turn[t] = "asking"
    BY <1>1 DEF RunStarts, serverVars, clientVars, Inv, Types, HostTypes
  <2> QED BY <2>1, ServerQuestions
<1>2. CASE RunAppends(s) \/ RunEnds(s)
  <2>1. PICK t \in {"running", "idle"} : PublishTurn(s, t)
    BY <1>2 DEF RunAppends, RunEnds
  <2>2. t \in Turns \ {"asking"}
    BY <2>1 DEF Turns
  <2>3. seq[s] + 1 <= MaxUpdates
    BY <1>2 DEF RunAppends, RunEnds, Inv, RoomInv
  <2>4. UNCHANGED <<link, inbox, asks, nextId, clientVars>>
    BY <1>2 DEF RunAppends, RunEnds
  <2> QED BY <2>1, <2>2, <2>3, <2>4, UpdateQuestions
<1> QED BY <1>1, <1>2

(* A new question has an id that nothing else carries. *)
LEMMA RunAsksQuestions ==
  ASSUME Inv, AskInv, QuestionInv, NEW s \in Sessions, RunAsks(s)
  PROVE  AskInv' /\ QuestionInv'
<1>1. seq[s] \in Nat /\ seq[s] + 1 \in Updates
  <2>1. seq[s] \in Nat /\ seq[s] + 3 <= MaxUpdates
    BY Numbers DEF RunAsks, Inv, Types, HostTypes
  <2> QED BY <2>1, Numbers DEF Updates
<1>2. PICK k \in Connections :
        /\ s \in attached[k] /\ link[k] = "up"
        /\ asks' = [asks EXCEPT ![k] = @ \cup {[id |-> nextId[k], s |-> s, n |-> seq[s] + 1]}]
        /\ nextId' = [nextId EXCEPT ![k] = @ + 1]
        /\ turn' = [turn EXCEPT ![s] = "asking"]
        /\ Publish(s, <<Update(s, seq[s] + 1, "asking")>>,
             <<[type |-> "ask", id |-> nextId[k], s |-> s, n |-> seq[s] + 1]>>)
  BY DEF RunAsks
<1>a. PICK new : new = [id |-> nextId[k], s |-> s, n |-> seq[s] + 1]
  OBVIOUS
<1>b. PICK line : line = [type |-> "ask", id |-> nextId[k], s |-> s, n |-> seq[s] + 1]
  OBVIOUS
<1>3. k = bound /\ nextId[k] \in Nat
  BY <1>2 DEF Inv, LinkInv, Types, ServerTypes
<1>4. /\ <<Update(s, seq[s] + 1, "asking")>> \in Seq(Notifications)
      /\ Len(<<Update(s, seq[s] + 1, "asking")>>) = 1
  BY <1>1, UpdateLine
<1>5. line \in AskLines /\ <<line>> \in Seq(AskLines) /\ Range(<<line>>) = {line}
  <2>1. line \in AskLines
    BY <1>1, <1>3, <1>b DEF AskLines
  <2> QED BY <2>1, ElementsOfOne
<1>6. /\ new.id = nextId[k] /\ new.s = s /\ new.n = seq[s] + 1 /\ Question(new) = line
      /\ line.id = nextId[k] /\ line.s = s /\ line.n = seq[s] + 1
  BY <1>a, <1>b DEF Question
<1>7. Publish(s, <<Update(s, seq[s] + 1, "asking")>>, <<line>>)
  BY <1>2, <1>b
<1>8. asks' = [asks EXCEPT ![k] = @ \cup {new}]
  BY <1>2, <1>a
<1>9. \A j \in Connections :
        /\ Range(wire[j]) \subseteq Range(wire'[j])
        /\ \A m \in Range(wire'[j]) : m.type = "ask" => m \in Range(wire[j]) \cup {line}
        /\ s \in attached[j] /\ link[j] = "up" => line \in Range(wire'[j])
  BY <1>4, <1>5, <1>7, PublishedElements
<1>10. /\ \A j \in Connections \ {k} : asks'[j] = asks[j] /\ nextId'[j] = nextId[j]
       /\ asks'[k] = asks[k] \cup {new} /\ nextId'[k] = nextId[k] + 1
  BY <1>2, <1>8 DEF Inv, Types, ServerTypes
<1>11. seq' = [seq EXCEPT ![s] = @ + 1]
  BY <1>4, <1>7 DEF Publish
<1>12. UNCHANGED <<link, inbox, prompts, bound, recon>>
  BY DEF RunAsks, clientVars
<1>13. AskInv'
  <2> SUFFICES ASSUME NEW r \in Sessions, turn'[r] = "asking"
               PROVE  \E a \in asks'[bound'] :
                        link'[bound'] = "up" /\ a.s = r /\ a.n = seq'[r] /\ Pending(bound, a)'
    BY DEF AskInv
  <2>1. CASE r = s
    <3>1. new \in asks'[bound] /\ line \in Range(wire'[bound])
      BY <1>2, <1>3, <1>9, <1>10
    <3>2. Pending(bound, new)'
      BY <1>6, <1>12, <3>1 DEF Pending
    <3>3. seq'[r] = seq[s] + 1
      BY <1>11, <2>1 DEF Inv, Types, HostTypes
    <3> QED BY <1>2, <1>3, <1>6, <1>12, <2>1, <3>1, <3>2, <3>3
  <2>2. CASE r # s
    <3>1. turn[r] = "asking" /\ seq'[r] = seq[r]
      BY <1>2, <1>11, <2>2 DEF Inv, Types, HostTypes
    <3>2. PICK a \in asks[bound] : link[bound] = "up" /\ a.s = r /\ a.n = seq[r] /\ Pending(bound, a)
      BY <3>1 DEF AskInv
    <3>3. a \in asks'[bound]
      BY <1>3, <1>10, <3>2
    <3>4. Pending(bound, a)'
      BY <1>3, <1>9, <1>12, <3>2 DEF Pending
    <3> QED BY <1>12, <3>1, <3>2, <3>3, <3>4
  <2> QED BY <2>1, <2>2
<1>14. ASSUME NEW j \in Connections, NEW m, Matches(j, m), m.id \in Nat
       PROVE  Matches(j, m)'
  <2>1. CASE j # k
    BY <1>10, <1>14, <2>1 DEF Matches
  <2>2. CASE j = k
    <3>1. m.id < nextId[k] /\ m.id < nextId[k] + 1 /\ new.id # m.id
      BY <1>3, <1>6, <1>14, <2>2 DEF Matches
    <3> QED BY <1>10, <1>14, <2>2, <3>1 DEF Matches
  <2> QED BY <2>1, <2>2
<1>15. Matches(k, line)'
  <2>1. ASSUME NEW a \in asks'[k], a.id = line.id PROVE a.s = line.s /\ a.n = line.n
    <3>1. CASE a = new
      BY <1>6, <3>1
    <3>2. CASE a \in asks[k]
      BY <1>3, <1>6, <2>1, <3>2 DEF Inv, IdInv
    <3> QED BY <1>10, <3>1, <3>2
  <2>2. line.id < nextId'[k]
    BY <1>3, <1>6, <1>10
  <2> QED BY <2>1, <2>2 DEF Matches
<1>16. QuestionInv'
  <2>1. ASSUME NEW j \in Connections, NEW m \in Range(wire'[j]), m.type = "ask"
        PROVE  Matches(j, m)'
    <3>1. CASE m \in Range(wire[j])
      <4>1. m \in AskLines
        <5>1. m \in OutLines
          BY <3>1, ElementsTyped DEF Inv, Types, ServerTypes
        <5> QED BY <2>1, <5>1 DEF OutLines, Notifications, Responses
      <4>2. m.id \in Nat /\ Matches(j, m)
        BY <2>1, <3>1, <4>1 DEF AskLines, QuestionInv
      <4> QED BY <1>14, <4>2
    <3>2. CASE m = line /\ m \notin Range(wire[j])
      <4>1. j = k
        <5>1. s \in attached[j] /\ link[j] = "up"
          BY <1>7, <2>1, <3>2 DEF Publish
        <5> QED BY <1>3, <5>1 DEF Inv, LinkInv
      <4> QED BY <1>15, <3>2, <4>1
    <3> QED BY <1>9, <2>1, <3>1, <3>2
  <2>2. ASSUME NEW j \in Connections, NEW m \in Range(inbox'[j]), m.type = "answer", ~m.late
        PROVE  Matches(j, m)'
    <3>1. m \in InLines
      BY <1>12, ElementsTyped DEF Inv, Types, ServerTypes
    <3>2. m.id \in Nat
      BY <2>2, <3>1 DEF InLines, Requests, RequestTypes, Answers
    <3> QED BY <1>12, <1>14, <2>2, <3>2 DEF QuestionInv
  <2>3. ASSUME NEW p \in prompts', ~p.late PROVE recon' # "connecting" /\ Matches(bound, p)'
    <3>1. p.id \in Nat /\ p \in prompts
      BY <1>12 DEF Inv, Types, ClientTypes, Prompts
    <3> QED BY <1>3, <1>12, <1>14, <2>3, <3>1 DEF QuestionInv
  <2> QED BY <1>12, <2>1, <2>2, <2>3 DEF QuestionInv
<1> QED BY <1>13, <1>16

LEMMA TakenElements ==
  ASSUME Inv, NEW k \in Connections, inbox[k] # <<>>, inbox' = [inbox EXCEPT ![k] = Tail(@)]
  PROVE  /\ \A j \in Connections : Range(inbox'[j]) \subseteq Range(inbox[j])
         /\ \A j \in Connections : \A m \in Range(inbox[j]) :
              m \in Range(inbox'[j]) \/ (j = k /\ m = Head(inbox[k]))
<1>1. inbox[k] \in Seq(InLines) /\ inbox \in [Connections -> Seq(InLines)]
  BY DEF Inv, Types, ServerTypes
<1>2. Range(inbox[k]) = {Head(inbox[k])} \cup Range(Tail(inbox[k]))
  BY <1>1, ElementsOfTail
<1>3. inbox'[k] = Tail(inbox[k]) /\ \A j \in Connections \ {k} : inbox'[j] = inbox[j]
  BY <1>1
<1> QED BY <1>2, <1>3

(* An answer is taken with its question; what others ask is still asked. *)
LEMMA TakeAnswerQuestions ==
  ASSUME Inv, AskInv, QuestionInv, NEW k \in Connections, TakeAnswer(k)
  PROVE  AskInv' /\ QuestionInv'
<1>a. PICK m : m = Head(inbox[k])
  OBVIOUS
<1>b. PICK of : of = {a \in asks[k] : a.id = m.id}
  OBVIOUS
<1>1. /\ UNCHANGED <<link, nextId, clientVars>>
      /\ asks' = [asks EXCEPT ![k] = @ \ of]
      /\ IF \E a \in of : Asked(a)
         THEN \E a \in of : PublishTurn(a.s, "running")
         ELSE UNCHANGED <<seq, turn, outbound, wire, missed>>
  BY <1>a, <1>b DEF TakeAnswer
<1>2. /\ \A j \in Connections : Range(inbox'[j]) \subseteq Range(inbox[j])
      /\ \A j \in Connections : \A x \in Range(inbox[j]) :
           x \in Range(inbox'[j]) \/ (j = k /\ x = m)
  BY <1>a, TakenElements DEF TakeAnswer
<1>3. /\ asks'[k] = asks[k] \ of /\ \A j \in Connections \ {k} : asks'[j] = asks[j]
      /\ \A j \in Connections : asks'[j] \subseteq asks[j]
  BY <1>1 DEF Inv, Types, ServerTypes
<1>4. bound \in Connections /\ UNCHANGED <<prompts, bound, recon>>
  BY <1>1 DEF Inv, Types, ClientTypes, clientVars
<1>5. ASSUME NEW a \in asks[bound], a \notin of \/ bound # k
      PROVE  /\ a \in asks'[bound]
             /\ \A x \in Range(inbox[bound]) :
                  x.type = "answer" /\ x.id = a.id => x \in Range(inbox'[bound])
  <2>1. a \in asks'[bound]
    BY <1>3, <1>4, <1>5
  <2>2. bound = k => a.id # m.id
    BY <1>5, <1>b
  <2> QED BY <1>2, <1>4, <2>1, <2>2
<1>6. CASE \E a \in of : Asked(a)
  <2>1. PICK b \in of : Asked(b)
    BY <1>6
  <2>2. PICK a \in of : PublishTurn(a.s, "running")
    BY <1>1, <1>6
  <2>3. a = b /\ a \in asks[k] /\ \A x \in of : x = a
    BY <1>b, <2>1 DEF Inv, IdInv
  <2>4. a.s \in Sessions /\ turn[a.s] = "asking"
    BY <2>1, <2>3 DEF Asked, Inv, Types, ServerTypes, Asks
  <2>5. seq[a.s] + 1 <= MaxUpdates /\ "running" \in Turns \ {"asking"}
    BY <2>4 DEF Inv, RoomInv, Turns
  <2>6. \A x \in asks[bound] : x.s # a.s => x \notin of \/ bound # k
    BY <2>3
  <2> QED BY <1>1, <1>2, <1>3, <1>5, <2>2, <2>4, <2>5, <2>6, UpdateQuestions
<1>7. CASE ~ \E a \in of : Asked(a)
  <2>1. UNCHANGED <<seq, turn, wire>>
    BY <1>1, <1>7
  <2>2. \A a \in asks[bound] : turn'[a.s] = "asking" /\ a.n = seq[a.s] => a \notin of
    BY <1>7, <2>1 DEF Asked
  <2> QED BY <1>1, <1>2, <1>3, <1>4, <1>5, <2>1, <2>2, ServerQuestions
<1> QED BY <1>6, <1>7

(* A request is taken, which ends or starts no question. *)
LEMMA TakenQuestions ==
  ASSUME Inv, AskInv, QuestionInv, NEW k \in Connections,
         NEW type \in RequestTypes, Takes(k, type),
         UNCHANGED <<link, wire, asks, nextId, clientVars>>,
         \A s \in Sessions : turn'[s] = "asking" => turn[s] = "asking" /\ seq'[s] = seq[s]
  PROVE  AskInv' /\ QuestionInv'
<1>1. inbox[k] # <<>> /\ inbox' = [inbox EXCEPT ![k] = Tail(@)] /\ Head(inbox[k]).type = type
  BY DEF Takes
<1>2. /\ \A j \in Connections : Range(inbox'[j]) \subseteq Range(inbox[j])
      /\ \A j \in Connections : \A m \in Range(inbox[j]) :
           m \in Range(inbox'[j]) \/ (j = k /\ m = Head(inbox[k]))
  BY <1>1, TakenElements
<1>3. bound \in Connections /\ UNCHANGED <<prompts, bound, recon>> /\ type # "answer"
  BY DEF Inv, Types, ClientTypes, clientVars, RequestTypes
<1>4. \A m \in Range(inbox[bound]) : m.type = "answer" => m \in Range(inbox'[bound])
  BY <1>1, <1>2, <1>3
<1> QED BY <1>2, <1>3, <1>4, ServerQuestions

LEMMA HandlerQuestions ==
  ASSUME Inv, AskInv, QuestionInv, NEW k \in Connections, HandlerStep(k)
  PROVE  AskInv' /\ QuestionInv'
<1>0. \A type \in {"resume", "prompt", "navigate", "cancel", "close"} : type \in RequestTypes
  BY DEF RequestTypes
<1>1. CASE TakeResume(k)
  <2>1. Takes(k, "resume") /\ UNCHANGED <<seq, turn, link, wire, asks, nextId, clientVars>>
    BY <1>1 DEF TakeResume
  <2> QED BY <1>0, <2>1, TakenQuestions
<1>2. CASE TakePrompt(k) \/ TakeNavigate(k)
  <2>1. PICK type \in {"prompt", "navigate"} : Takes(k, type)
    BY <1>2 DEF TakePrompt, TakeNavigate
  <2>2. UNCHANGED <<link, wire, asks, nextId, clientVars>>
    BY <1>2 DEF TakePrompt, TakeNavigate
  <2>3. \/ UNCHANGED <<seq, turn>>
        \/ \E s : turn[s] = "idle" /\ seq' = [seq EXCEPT ![s] = @ + 1]
                  /\ (UNCHANGED turn \/ turn' = [turn EXCEPT ![s] = "starting"])
    BY <1>2 DEF TakePrompt, TakeNavigate
  <2>4. \A s \in Sessions : turn'[s] = "asking" => turn[s] = "asking" /\ seq'[s] = seq[s]
    BY <2>3 DEF Inv, Types, HostTypes
  <2> QED BY <1>0, <2>1, <2>2, <2>4, TakenQuestions
<1>3. CASE TakeCancel(k)
  <2>1. PICK req \in {"cancel", "close"} : Takes(k, req)
    BY <1>3 DEF TakeCancel
  <2>2. UNCHANGED <<seq, link, wire, asks, nextId, clientVars>>
        /\ (UNCHANGED turn \/ \E s : turn' = [turn EXCEPT ![s] = "aborting"])
    BY <1>3 DEF TakeCancel
  <2>3. \A s \in Sessions : turn'[s] = "asking" => turn[s] = "asking" /\ seq'[s] = seq[s]
    BY <2>2 DEF Inv, Types, HostTypes
  <2> QED BY <1>0, <2>1, <2>2, <2>3, TakenQuestions
<1>4. CASE ResumeReads(k) \/ ResumeReplays(k) \/ CancelAnswers(k)
  <2>1. UNCHANGED <<seq, turn, link, inbox, wire, asks, nextId, prompts, bound, recon>>
    BY <1>4 DEF ResumeReads, ResumeReplays, CancelAnswers, hostVars, clientVars
  <2> QED BY <2>1, ServerQuestions
<1>6. CASE ResumeFails(k)
  <2>1. /\ UNCHANGED <<link, inbox, wire, asks, nextId, prompts, bound, recon>>
        /\ \/ UNCHANGED <<seq, turn>>
           \/ \E s : /\ turn' = [turn EXCEPT ![s] = IF turn[s] = "asking" THEN "running" ELSE @]
                    /\ seq' = [seq EXCEPT ![s] = IF turn[s] = "asking" THEN @ + 1 ELSE @]
    BY <1>6 DEF ResumeFails, clientVars
  <2>2. \A s \in Sessions : turn'[s] = "asking" => turn[s] = "asking" /\ seq'[s] = seq[s]
    BY <2>1 DEF Inv, Types, HostTypes
  <2> QED BY <2>1, <2>2, ServerQuestions
<1>5. CASE Reply(k)
  <2>1. UNCHANGED <<seq, turn, link, inbox, asks, nextId, prompts, bound, recon>>
    BY <1>5 DEF Reply, hostVars, clientVars
  <2>2. /\ wire[k] \in Seq(OutLines) /\ handler[k].batch \in Seq(OutLines)
        /\ Range(handler[k].batch) \subseteq Notifications \cup Responses
    <3>1. handler[k].batch \in Seq(Notifications \cup Responses)
      BY DEF Inv, Types, ServerTypes, Handlers
    <3>2. Range(handler[k].batch) \subseteq Notifications \cup Responses
      BY <3>1, ElementsTyped
    <3> QED BY <3>1, <3>2 DEF Inv, Types, ServerTypes, OutLines
  <2>3. Range(wire[k] \o handler[k].batch) = Range(wire[k]) \cup Range(handler[k].batch)
    BY <2>2, ElementsOfConcat
  <2>4. \A m \in Range(handler[k].batch) : m.type # "ask"
    BY <2>2 DEF Notifications, Responses
  <2>5. /\ wire'[k] = wire[k] \/ wire'[k] = wire[k] \o handler[k].batch
        /\ \A j \in Connections \ {k} : wire'[j] = wire[j]
    BY <1>5 DEF Reply, Inv, Types, ServerTypes
  <2>6. \A j \in Connections :
          /\ \A m \in Range(wire'[j]) : m.type = "ask" => m \in Range(wire[j])
          /\ Range(wire[j]) \subseteq Range(wire'[j])
    BY <2>3, <2>4, <2>5
  <2>7. bound \in Connections
    BY DEF Inv, Types, ClientTypes
  <2> QED BY <2>1, <2>6, <2>7, ServerQuestions
<1> QED BY <1>1, <1>2, <1>3, <1>4, <1>5, <1>6, TakeAnswerQuestions DEF HandlerStep

LEMMA AgentClosesQuestions ==
  ASSUME Inv, AskInv, QuestionInv, NEW k \in Connections, AgentCloses(k)
  PROVE  AskInv' /\ QuestionInv'
<1>1. UNCHANGED <<seq, turn, inbox, wire, asks, nextId, prompts, bound, recon>>
      /\ link[k] = "down" /\ link' = [link EXCEPT ![k] = "gone"]
  BY DEF AgentCloses, clientVars
<1>2. link[bound] = "up" => link'[bound] = "up"
  BY <1>1 DEF Inv, Types, ServerTypes, ClientTypes
<1> QED BY <1>1, <1>2, ServerQuestions

LEMMA QuestionStep ==
  ASSUME Inv, AskInv, QuestionInv, [Next]_vars
  PROVE  AskInv' /\ QuestionInv'
<1>1. ASSUME NEW s \in Sessions, RunStep(s) PROVE AskInv' /\ QuestionInv'
  BY <1>1, RunQuestions, RunAsksQuestions DEF RunStep
<1>2. ASSUME NEW k \in Connections, HandlerStep(k) \/ Breaks(k) \/ AgentCloses(k)
      PROVE  AskInv' /\ QuestionInv'
  BY <1>2, HandlerQuestions, BreaksQuestions, AgentClosesQuestions
<1>3. CASE UNCHANGED vars
  <2>1. UNCHANGED <<seq, turn, link, inbox, wire, asks, nextId, prompts, bound, recon>>
    BY <1>3 DEF vars, hostVars, serverVars, clientVars
  <2> QED BY <2>1, ServerQuestions
<1> QED BY <1>1, <1>2, <1>3, ClientStepQuestions, UserQuestions DEF Next

LEMMA InitQuestions == Init => AskInv /\ QuestionInv
<1> SUFFICES ASSUME Init PROVE AskInv /\ QuestionInv
  OBVIOUS
<1>1. AskInv
  BY DEF Init, AskInv
<1>2. \A k \in Connections : Range(wire[k]) = {} /\ Range(inbox[k]) = {}
  BY ElementsOfNone DEF Init
<1> QED BY <1>1, <1>2 DEF Init, QuestionInv

LEMMA SpecQuestions == Spec => [](AskInv /\ QuestionInv)
<1>1. Init => AskInv /\ QuestionInv
  BY InitQuestions
<1>2. Inv /\ (AskInv /\ QuestionInv) /\ [Next]_vars => (AskInv /\ QuestionInv)'
  BY QuestionStep
<1> QED BY <1>1, <1>2, SpecInv, PTL DEF Spec

(* A run that awaits the user is waited for: over a socket that is up its    *)
(* question is on its way to the user or shown, or the answer is on the way  *)
(* back.  So neither a Session that is closed or unknown, nor an abort, nor  *)
(* a restore that withdraws the prompts, nor a socket that breaks leaves a   *)
(* run asking for ever (local-transport.ts close, acp-host.ts #onRequest and *)
(* #cancelPendingPermissions).                                               *)
THEOREM RunsAreAnswered == Spec => []HostIsAnswered
<1>1. Inv /\ AskInv => HostIsAnswered
  BY AskedIsAnswered
<1> QED BY <1>1, SpecInv, SpecQuestions, PTL

(* An answer never reaches another question than the one the user was shown, *)
(* although every connection numbers its requests from 1.  The exceptions    *)
(* are the answers to prompts shown while the client reconnected with its    *)
(* old socket still up, and to prompts of an entry that had left #sessions   *)
(* when a restore withdrew the others (acp-host.ts #pendingPermissions,      *)
(* #reconnectClient; local-transport.ts).                                    *)
THEOREM AnswersReachTheirQuestion == Spec => []AnswerIsForItsQuestion
<1>1. Inv /\ QuestionInv => AnswerIsForItsQuestion
  BY AnswersMatch
<1> QED BY <1>1, SpecInv, SpecQuestions, PTL
=============================================================================
