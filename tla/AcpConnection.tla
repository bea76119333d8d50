---------------------------- MODULE AcpConnection ----------------------------
(***************************************************************************)
(* The Desktop client, the ACP connections it opens one after the other,   *)
(* and the Sessions of the Runtime Host it watches through them.           *)
(*                                                                         *)
(* A connection is a socket with a line of messages each way.  The Server  *)
(* handles the lines of one socket strictly one after the other, the       *)
(* answers of the user included (local-transport.ts).  While a request is  *)
(* handled, notifications are held back in #outbound and are written with  *)
(* the response (agent.ts).  The client rebuilds its projection from a     *)
(* replay whenever it opens a Session, moves its branch, or has lost the   *)
(* connection (acp-host.ts).                                               *)
(*                                                                         *)
(* Every await of the handlers is a point where other steps may run.  What *)
(* a Session does is reduced to the updates it publishes: they are         *)
(* numbered, and an update stands for an entry and for the state it ends   *)
(* in.  Requests without a consequence for the projection have no reply.   *)
(* What openSession awaits before it has the Session is not a point where   *)
(* others run: SessionPersistence models it.                               *)
(***************************************************************************)
EXTENDS Integers, SequencesExt

CONSTANTS
  Sessions,        \* the durable Sessions
  MaxConnections,  \* sockets the client may open, the first one included
  MaxUpdates,      \* updates one Session may publish
  MaxCommands,     \* what the user does with the Desktop
  MaxFaults        \* sockets that break by themselves, and resumes that fail

ASSUME AcpAssumption ==
  /\ "none" \notin Sessions
  /\ MaxConnections \in Nat \ {0}
  /\ MaxUpdates \in Nat
  /\ MaxCommands \in Nat
  /\ MaxFaults \in Nat

VARIABLES
  seq,         \* seq[s]: updates Session s has published
  turn,        \* turn[s]: what the Operation of s is doing
  unheard,     \* Sessions whose run goes on although it was cancelled
  owner,       \* owner[s]: the connection that controls s, 0 for none
  link,        \* link[k]: the socket of connection k
  inbox,       \* inbox[k]: lines the Server has not handled
  wire,        \* wire[k]: lines the client has not received
  handler,     \* handler[k]: the request connection k is handling
  outbound,    \* #outbound: notifications held back while it does
  attached,    \* attached[k]: #sessions, the Sessions k is subscribed to
  asks,        \* PendingClientRequests: what k has asked the client
  nextId,      \* #nextId
  bound,       \* #client: the connection the Desktop uses
  alive,       \* its #disconnect is not set
  recon,       \* how far #restoreClient is
  rebuilding,  \* the Session whose #rebuildProjection it awaits
  rebuilt,     \* the entries it has come to
  view,        \* view[s]: the entry of s in the Desktop's #sessions
  gen,         \* gen[s]: the entries made for s, the last one is in view[s]
  status,      \* connectionStatus of that entry
  seen,        \* seen[s]: the updates that entry holds
  shown,       \* shown[s]: the update whose state it shows
  prompts,     \* #pendingPermissions
  commands,    \* commands of the user so far
  faults,      \* sockets that broke and resumes that failed so far
  missed       \* missed[s]: how an update of s that no replay covers was lost,
               \* or that a prompt has outlived its connection

hostVars == <<seq, turn, unheard, owner>>
serverVars == <<link, inbox, wire, handler, outbound, attached, asks, nextId>>
clientVars == <<bound, alive, recon, rebuilding, rebuilt, view, gen, status,
                seen, shown, prompts>>
vars == <<hostVars, serverVars, clientVars, commands, faults, missed>>

Connections == 1..MaxConnections
Updates == 0..MaxUpdates
Turns == {"idle", "starting", "running", "asking", "aborting"}

Update(s, n, t) == [type |-> "update", s |-> s, n |-> n, idle |-> t = "idle"]

Free == [req |-> "none", s |-> "none", why |-> "none", gen |-> 0, step |-> "free",
         n |-> 0, idle |-> FALSE, batch |-> <<>>]

(* Mutant: notifications are written at once, also while a request is handled. *)
HandlingNever(k) == FALSE

(* #handling > 0: the request is not answered yet. *)
Handling(k) == handler[k].step \notin {"free", "reply"}

-----------------------------------------------------------------------------
(***************************************************************************)
(* Publishing.                                                             *)
(***************************************************************************)
(* A notification the client was told later than a newer one of s. *)
Overtakes(k, s) ==
  handler[k].step = "reply" /\ \E i \in DOMAIN handler[k].batch :
    handler[k].batch[i].type \in {"update", "replayed"} /\ handler[k].batch[i].s = s

(* The notifications the Server gives to publishNotification in one step, *)
(* after the requests it writes to the socket past it.                    *)
Publish(s, updates, requests) ==
  LET K == {k \in Connections : s \in attached[k]}
      Up(k) == link[k] = "up"
  IN /\ seq' = [seq EXCEPT ![s] = @ + Len(updates)]
     /\ outbound' = [k \in Connections |->
          IF k \in K /\ Handling(k) THEN outbound[k] \o updates
                                    ELSE outbound[k]]
     /\ wire' = [k \in Connections |->
          IF k \notin K \/ ~Up(k) THEN wire[k]
          ELSE wire[k] \o requests \o (IF Handling(k) THEN <<>> ELSE updates)]
     /\ missed' = [missed EXCEPT ![s] =
          IF updates # <<>> /\ \E k \in K : Overtakes(k, s)
          THEN @ \cup {"overtaken"} ELSE @]

(* One update of s, whose turn is then t. *)
PublishTurn(s, t) ==
  /\ turn' = [turn EXCEPT ![s] = t]
  /\ Publish(s, <<Update(s, seq[s] + 1, t)>>, <<>>)

-----------------------------------------------------------------------------
(***************************************************************************)
(* What the Operation of a Session does by itself.                         *)
(***************************************************************************)
RunStarts(s) ==
  /\ turn[s] = "starting"
  /\ turn' = [turn EXCEPT ![s] = "running"]
  /\ UNCHANGED <<seq, unheard, owner, serverVars, clientVars, commands, faults,
                 missed>>

RunAppends(s) ==
  /\ turn[s] = "running"
  /\ seq[s] + 2 <= MaxUpdates
  /\ PublishTurn(s, "running")
  /\ UNCHANGED <<unheard, owner, link, inbox, handler, attached, asks, nextId,
                 clientVars, commands, faults>>

(* A tool call needs the user.  Without a client the call is denied at once *)
(* and nothing of it is seen here.                                          *)
RunAsks(s) ==
  /\ turn[s] = "running"
  /\ seq[s] + 3 <= MaxUpdates
  /\ owner[s] # 0
  /\ \E k \in Connections :
       /\ s \in attached[k]
       /\ link[k] = "up"
       /\ asks' = [asks EXCEPT ![k] =
            @ \cup {[id |-> nextId[k], s |-> s, n |-> seq[s] + 1]}]
       /\ nextId' = [nextId EXCEPT ![k] = @ + 1]
       /\ turn' = [turn EXCEPT ![s] = "asking"]
       /\ Publish(s, <<Update(s, seq[s] + 1, "asking")>>,
            <<[type |-> "ask", id |-> nextId[k], s |-> s, n |-> seq[s] + 1]>>)
  /\ UNCHANGED <<unheard, owner, link, inbox, handler, attached, clientVars,
                 commands, faults>>

(* The Operation ends: finished, failed or aborted. *)
RunEnds(s) ==
  /\ turn[s] \in {"running", "aborting"}
  /\ PublishTurn(s, "idle")
  /\ unheard' = unheard \ {s}
  /\ UNCHANGED <<owner, link, inbox, handler, attached, asks, nextId,
                 clientVars, commands, faults>>

-----------------------------------------------------------------------------
(***************************************************************************)
(* The Server: one line of one connection after the other.                 *)
(***************************************************************************)
(* session.respondToApproval for what was asked as a. *)
Asked(a) == turn[a.s] = "asking" /\ seq[a.s] = a.n

TakeAnswer(k) ==
  /\ link[k] # "unused"
  /\ handler[k] = Free
  /\ inbox[k] # <<>>
  /\ LET m == Head(inbox[k])
         of == {a \in asks[k] : a.id = m.id}
     IN /\ m.type = "answer"
        /\ asks' = [asks EXCEPT ![k] = @ \ of]
        /\ IF \E a \in of : Asked(a)
           THEN \E a \in of : PublishTurn(a.s, "running")
           ELSE UNCHANGED <<seq, turn, outbound, wire, missed>>
  /\ inbox' = [inbox EXCEPT ![k] = Tail(@)]
  /\ UNCHANGED <<unheard, owner, link, handler, attached, nextId, clientVars,
                 commands, faults>>

(* The next line of k is a request of the given type; the handler runs up   *)
(* to its first await that matters, the lines before it being answered.     *)
Takes(k, type) ==
  /\ link[k] # "unused"
  /\ handler[k] = Free
  /\ inbox[k] # <<>>
  /\ Head(inbox[k]).type = type
  /\ inbox' = [inbox EXCEPT ![k] = Tail(@)]

(* handle() returns the response and drains what was held back. *)
Respond(k, messages) ==
  handler' = [handler EXCEPT ![k] = [Free EXCEPT !.step = "reply", !.batch = messages]]

Waits(k, req, s, step) ==
  handler' = [handler EXCEPT ![k] = [Free EXCEPT !.req = req, !.s = s, !.step = step,
                                                 !.why = Head(inbox[k]).why,
                                                 !.gen = Head(inbox[k]).gen]]

(* Mutant: what was held back is sent, and kept. *)
DrainedNotEmptied(k) ==
  /\ Respond(k, outbound[k])
  /\ UNCHANGED outbound

Drained(k) ==
  /\ Respond(k, outbound[k])
  /\ outbound' = [outbound EXCEPT ![k] = <<>>]

Fault == faults < MaxFaults /\ faults' = faults + 1

Refused(m) == [type |-> "refused", s |-> m.s, why |-> m.why, gen |-> m.gen]

(* The entry that a message is about is still in #sessions. *)
Mine(m) == view[m.s] # "none" /\ m.gen = gen[m.s]

(* A resume that was to fill an emptied projection is refused. *)
StaysEmpty(m) == IF m.why # "open" /\ Mine(m) THEN {"emptied"} ELSE {}

(* resumeSession: openSession gives the Session to one controller, attach   *)
(* subscribes to it.  It may fail for many a reason, always when another    *)
(* connection controls the Session.                                         *)
TakeResume(k) ==
  /\ Takes(k, "resume")
  /\ LET m == Head(inbox[k])
     IN \/ /\ owner[m.s] \in {0, k}
           /\ owner' = [owner EXCEPT ![m.s] = k]
           /\ attached' = [attached EXCEPT ![k] = @ \cup {m.s}]
           /\ Waits(k, "resume", m.s, "snapshot")
           /\ UNCHANGED <<faults, missed>>
        \/ /\ IF owner[m.s] \in {0, k} THEN Fault ELSE UNCHANGED faults
           /\ Respond(k, <<Refused(m)>>)
           /\ missed' = [missed EXCEPT ![m.s] = @ \cup StaysEmpty(m)]
           /\ UNCHANGED <<owner, attached>>
  /\ UNCHANGED <<seq, turn, unheard, link, wire, outbound, asks, nextId,
                 clientVars, commands>>

At(k, req, step) == handler[k].req = req /\ handler[k].step = step

(* A replay over the connection of the client covers what was lost before. *)
ResumeReads(k) ==
  /\ At(k, "resume", "snapshot")
  /\ LET s == handler[k].s
     IN handler' = [handler EXCEPT ![k].step = "replay", ![k].n = seq[s],
                                   ![k].idle = turn[s] = "idle"]
  /\ missed' = [missed EXCEPT ![handler[k].s] =
       IF k = bound THEN @ \cap {"outlived"} ELSE @]
  /\ UNCHANGED <<hostVars, link, inbox, wire, outbound, attached, asks, nextId,
                 clientVars, commands, faults>>

(* The snapshot fails, and the Session stays attached; or its configuration *)
(* has failed, and the Session is closed, which rejects what its run asks,  *)
(* and detached, although the run goes on.                                  *)
ResumeFails(k) ==
  /\ At(k, "resume", "snapshot")
  /\ Fault
  /\ Respond(k, <<Refused(handler[k])>> \o outbound[k])
  /\ outbound' = [outbound EXCEPT ![k] = <<>>]
  /\ LET s == handler[k].s
         rejected == turn[s] = "asking"
     IN \/ /\ missed' = [missed EXCEPT ![s] = @ \cup StaysEmpty(handler[k])]
           /\ UNCHANGED <<seq, turn, owner, attached>>
        \/ /\ owner' = [owner EXCEPT ![s] = 0]
           /\ attached' = [attached EXCEPT ![k] = @ \ {s}]
           /\ turn' = [turn EXCEPT ![s] = IF rejected THEN "running" ELSE @]
           /\ seq' = [seq EXCEPT ![s] = IF rejected THEN @ + 1 ELSE @]
           /\ missed' = [missed EXCEPT ![s] = @ \cup {"detached"}]
  /\ UNCHANGED <<unheard, link, inbox, wire, asks, nextId, clientVars, commands>>

(* The updates of t that the replay of handler h throws away and does not hold. *)
Discards(k, t) ==
  \E i \in DOMAIN outbound[k] :
    /\ outbound[k][i].s = t
    /\ t = handler[k].s => outbound[k][i].n > handler[k].n

ResumeReplays(k) ==
  /\ At(k, "resume", "replay")
  /\ Respond(k, <<[type |-> "replayed", s |-> handler[k].s, n |-> handler[k].n,
                   idle |-> handler[k].idle, why |-> handler[k].why,
                   gen |-> handler[k].gen]>>)
  /\ outbound' = [outbound EXCEPT ![k] = <<>>]
  /\ missed' = [t \in Sessions |->
       IF Discards(k, t) THEN missed[t] \cup {"discarded"} ELSE missed[t]]
  /\ UNCHANGED <<hostVars, link, inbox, wire, attached, asks, nextId,
                 clientVars, commands, faults>>

(* handleLine writes what handle() returned. *)
Reply(k) ==
  /\ handler[k].step = "reply"
  /\ wire' = [wire EXCEPT ![k] =
       IF link[k] = "up" THEN @ \o handler[k].batch ELSE @]
  /\ handler' = [handler EXCEPT ![k] = Free]
  /\ UNCHANGED <<hostVars, link, inbox, outbound, attached, asks, nextId,
                 clientVars, commands, faults, missed>>

(* A prompt starts an Operation, or is queued for the one that runs. *)
TakePrompt(k) ==
  /\ Takes(k, "prompt")
  /\ LET s == Head(inbox[k]).s
     IN IF s \in attached[k] /\ turn[s] = "idle" /\ seq[s] + 2 <= MaxUpdates
        THEN /\ turn' = [turn EXCEPT ![s] = "starting"]
             /\ seq' = [seq EXCEPT ![s] = @ + 1]
             /\ Respond(k, <<Update(s, seq[s] + 1, "starting")>>)
        ELSE Respond(k, <<>>) /\ UNCHANGED <<turn, seq>>
  /\ UNCHANGED <<unheard, owner, link, wire, outbound, attached, asks, nextId,
                 clientVars, commands, faults, missed>>

(* navigate() moves the leaf of an idle Session; the client replays after it. *)
TakeNavigate(k) ==
  /\ Takes(k, "navigate")
  /\ LET s == Head(inbox[k]).s
     IN IF s \in attached[k] /\ turn[s] = "idle" /\ seq[s] < MaxUpdates
        THEN /\ seq' = [seq EXCEPT ![s] = @ + 1]
             /\ Respond(k, <<[type |-> "navigated", s |-> s, gen |-> Head(inbox[k]).gen],
                             Update(s, seq[s] + 1, "idle")>>)
        ELSE Respond(k, <<>>) /\ UNCHANGED seq
  /\ UNCHANGED <<turn, unheard, owner, link, wire, outbound, attached, asks,
                 nextId, clientVars, commands, faults, missed>>

(* Mutant: a run that awaits the user is not aborted. *)
LiveUnlessAsking(s) == turn[s] \notin {"idle", "asking"}

(* #active is set. *)
Live(s) == turn[s] # "idle"

(* session.cancel(): abort the live Operation, then await its completion.  *)
(* A run that has not begun may not hear it.                               *)
TakeCancel(k) ==
  \E req \in {"cancel", "close"} :
    /\ Takes(k, req)
    /\ LET s == Head(inbox[k]).s
       IN /\ Waits(k, req, s, "waiting")
          /\ \/ /\ s \in attached[k] /\ Live(s)
                /\ turn' = [turn EXCEPT ![s] = "aborting"]
                /\ UNCHANGED unheard
             \/ /\ s \in attached[k] /\ turn[s] = "starting"
                /\ unheard' = unheard \cup {s}
                /\ UNCHANGED turn
             \/ /\ s \notin attached[k] \/ ~Live(s)
                /\ UNCHANGED <<turn, unheard>>
    /\ UNCHANGED <<seq, owner, link, wire, outbound, attached, asks, nextId,
                   clientVars, commands, faults, missed>>

(* The completion is there.  A close ends with session.close() and detach. *)
CancelAnswers(k) ==
  /\ handler[k].step = "waiting"
  /\ LET s == handler[k].s
         closed == handler[k].req = "close" /\ s \in attached[k]
     IN /\ s \in attached[k] => turn[s] = "idle"
        /\ owner' = [owner EXCEPT ![s] = IF closed THEN 0 ELSE @]
        /\ attached' = [attached EXCEPT ![k] = IF closed THEN @ \ {s} ELSE @]
  /\ Drained(k)
  /\ UNCHANGED <<seq, turn, unheard, link, inbox, wire, asks, nextId,
                 clientVars, commands, faults, missed>>

-----------------------------------------------------------------------------
(***************************************************************************)
(* The end of a socket.                                                    *)
(***************************************************************************)
(* Mutant: the closed socket resolves none of its requests. *)
DeniedNone(k) == {}

(* The runs that waited for an answer of connection k: its requests resolve *)
(* to nothing, which denies them.                                           *)
Denied(k) == {s \in Sessions : \E a \in asks[k] : a.s = s /\ Asked(a)}

(* The socket of k closes: the lines after the first i are lost. *)
Closes(k, i, links) ==
  /\ link' = [links EXCEPT ![k] = "down"]
  /\ inbox' = [inbox EXCEPT ![k] = SubSeq(@, 1, i)]
  /\ asks' = [asks EXCEPT ![k] = {}]
  /\ turn' = [s \in Sessions |-> IF s \in Denied(k) THEN "running" ELSE turn[s]]
  /\ seq' = [s \in Sessions |-> IF s \in Denied(k) THEN seq[s] + 1 ELSE seq[s]]

Breaks(k) ==
  /\ Fault
  /\ link[k] = "up"
  /\ \E i \in 0..Len(inbox[k]) : Closes(k, i, link)
  /\ UNCHANGED <<unheard, owner, wire, handler, outbound, attached, nextId,
                 clientVars, commands, missed>>

(* Mutant: agent.close() does not wait for the lines before it. *)
LinesHandledOrNot(k) == TRUE

(* tail: every line of k is handled. *)
LinesHandled(k) == handler[k] = Free /\ inbox[k] = <<>>

(* agent.close() follows the last line of the socket. *)
AgentCloses(k) ==
  /\ link[k] = "down"
  /\ LinesHandled(k)
  /\ link' = [link EXCEPT ![k] = "gone"]
  /\ attached' = [attached EXCEPT ![k] = {}]
  /\ owner' = [s \in Sessions |->
       IF s \in attached[k] /\ owner[s] = k THEN 0 ELSE owner[s]]
  /\ outbound' = [outbound EXCEPT ![k] = <<>>]
  /\ UNCHANGED <<seq, turn, unheard, inbox, wire, handler, asks, nextId,
                 clientVars, commands, faults, missed>>

-----------------------------------------------------------------------------
(***************************************************************************)
(* The Desktop.                                                            *)
(***************************************************************************)
(* A line the client writes to connection k; it is lost when nobody reads. *)
Written(k, lines) ==
  inbox' = [inbox EXCEPT ![k] = IF link[k] = "up" /\ alive THEN @ \o lines ELSE @]

(* A request for the entry g of s. *)
Request(type, s, g, why) == [type |-> type, s |-> s, gen |-> g, why |-> why]
Answer(p, allow) ==
  [type |-> "answer", id |-> p.id, s |-> p.s, n |-> p.n, late |-> p.late,
   allow |-> allow]

(* The prompts of the entry of s, not those of one that has left. *)
PromptsOf(s) == {p \in prompts : p.s = s /\ Mine(p)}
Cancelled(P) == SetToSeq({Answer(p, FALSE) : p \in P})

(* The client is not told twice of a Session it opens. *)
Opening(s) == view[s] = "opening"
Known(s) == view[s] # "none"

(* The entries of S leave #sessions. *)
Forgets(S) ==
  /\ view' = [s \in Sessions |-> IF s \in S THEN "none" ELSE view[s]]
  /\ seen' = [s \in Sessions |-> IF s \in S THEN {} ELSE seen[s]]
  /\ shown' = [s \in Sessions |-> IF s \in S THEN 0 ELSE shown[s]]

UserActs == commands < MaxCommands /\ commands' = commands + 1

(* #ensureSession registers the Session and resumes it with a replay. *)
Open(s) ==
  /\ UserActs
  /\ ~Known(s)
  /\ alive
  /\ view' = [view EXCEPT ![s] = "opening"]
  /\ gen' = [gen EXCEPT ![s] = @ + 1]
  /\ rebuilt' = rebuilt \ {s}
  /\ Written(bound, <<Request("resume", s, gen[s] + 1, "open")>>)
  /\ UNCHANGED <<hostVars, link, wire, handler, outbound, attached, asks, nextId,
                 bound, alive, recon, rebuilding, status, seen, shown, prompts,
                 faults, missed>>

Command(type, s) ==
  /\ UserActs
  /\ Known(s)
  /\ alive
  /\ Written(bound, <<Request(type, s, gen[s], "command")>>)
  /\ UNCHANGED <<hostVars, link, wire, handler, outbound, attached, asks, nextId,
                 clientVars, faults, missed>>

Send(s) == Command("prompt", s)
Navigate(s) == Command("navigate", s)

(* abort() answers the open prompts before it cancels. *)
Abort(s) ==
  /\ UserActs
  /\ Known(s)
  /\ alive
  /\ Written(bound, Append(Cancelled(PromptsOf(s)), Request("cancel", s, gen[s], "command")))
  /\ prompts' = prompts \ PromptsOf(s)
  /\ UNCHANGED <<hostVars, link, wire, handler, outbound, attached, asks, nextId,
                 bound, alive, recon, rebuilding, rebuilt, view, gen, status, seen,
                 shown, faults, missed>>

(* closeSession, also while the Session is being resumed. *)
CloseSession(s) ==
  /\ UserActs
  /\ Known(s)
  /\ Written(bound, Append(Cancelled(PromptsOf(s)),
                           Request("close", s, gen[s], "command")))
  /\ prompts' = prompts \ PromptsOf(s)
  /\ view' = [view EXCEPT ![s] = "none"]
  /\ status' = [status EXCEPT ![s] = "ok"]
  /\ seen' = [seen EXCEPT ![s] = {}]
  /\ shown' = [shown EXCEPT ![s] = 0]
  /\ UNCHANGED <<hostVars, link, wire, handler, outbound, attached, asks, nextId,
                 bound, alive, recon, rebuilding, rebuilt, gen, faults, missed>>

(* resolvePermission *)
Resolve(p) ==
  /\ Written(bound, <<Answer(p, TRUE)>>)
  /\ prompts' = prompts \ {p}
  /\ UNCHANGED <<hostVars, link, wire, handler, outbound, attached, asks, nextId,
                 bound, alive, recon, rebuilding, rebuilt, view, gen, status, seen,
                 shown, commands, faults, missed>>

-----------------------------------------------------------------------------
(***************************************************************************)
(* What the client does with a line.                                       *)
(***************************************************************************)
Arrives(type) == wire[bound] # <<>> /\ alive /\ Head(wire[bound]).type = type

Received == wire' = [wire EXCEPT ![bound] = Tail(@)]

(* Mutant: the prompts of an idle Session stay. *)
ProjectKeepingPrompts(s, N, n, idle) ==
  /\ seen' = [seen EXCEPT ![s] = IF Known(s) THEN @ \cup N ELSE @]
  /\ shown' = [shown EXCEPT ![s] = IF Known(s) THEN n ELSE @]
  /\ UNCHANGED <<prompts, inbox>>

(* The projection of s takes the updates N, the last of which is n; the    *)
(* prompts of an idle Session are withdrawn.                               *)
Project(s, N, n, idle) ==
  LET ends == IF idle /\ Known(s) THEN PromptsOf(s) ELSE {}
  IN /\ seen' = [seen EXCEPT ![s] = IF Known(s) THEN @ \cup N ELSE @]
     /\ shown' = [shown EXCEPT ![s] = IF Known(s) THEN n ELSE @]
     /\ prompts' = prompts \ ends
     /\ Written(bound, Cancelled(ends))

DeliverUpdate ==
  /\ Arrives("update")
  /\ Received
  /\ LET m == Head(wire[bound]) IN Project(m.s, {m.n}, m.n, m.idle)
  /\ UNCHANGED <<hostVars, link, handler, outbound, attached, asks, nextId,
                 bound, alive, recon, rebuilding, rebuilt, view, gen, status,
                 commands, faults, missed>>

(* The entry that is rebuilt is still in #sessions. *)
InPlace(s) == rebuilding = s /\ s \in rebuilt /\ Known(s)

(* The response that a rebuild waits for. *)
Restored(s, ok) ==
  /\ status' = [status EXCEPT ![s] =
       IF ~InPlace(s) THEN @ ELSE IF ok THEN "ok" ELSE "restart_failed"]
  /\ rebuilding' = IF rebuilding = s THEN "none" ELSE rebuilding

DeliverReplay ==
  /\ Arrives("replayed")
  /\ Received
  /\ LET m == Head(wire[bound])
     IN /\ Project(m.s, 1..m.n, m.n, m.idle)
        /\ view' = [view EXCEPT ![m.s] =
             IF m.why = "open" /\ Mine(m) THEN "open" ELSE @]
        /\ IF m.why = "rebuild" THEN Restored(m.s, TRUE)
           ELSE UNCHANGED <<status, rebuilding>>
  /\ UNCHANGED <<hostVars, link, handler, outbound, attached, asks, nextId,
                 bound, alive, recon, rebuilt, gen, commands, faults, missed>>

(* An open that fails removes the entry of the Session, whichever it is, and *)
(* leaves its prompts; a projection that was emptied stays so.               *)
DeliverRefusal ==
  /\ Arrives("refused")
  /\ Received
  /\ LET m == Head(wire[bound])
     IN IF m.why = "rebuild"
        THEN Restored(m.s, FALSE) /\ UNCHANGED <<view, seen, shown>>
        ELSE /\ Forgets({s \in Sessions : s = m.s /\ m.why = "open"})
             /\ UNCHANGED <<status, rebuilding>>
  /\ UNCHANGED <<hostVars, link, inbox, handler, outbound, attached, asks, nextId,
                 bound, alive, recon, rebuilt, gen, prompts, commands, faults, missed>>

Emptied(s) ==
  /\ seen' = [seen EXCEPT ![s] = {}]
  /\ shown' = [shown EXCEPT ![s] = 0]

(* navigate() rebuilds the projection of its entry when it is answered, and *)
(* resumes the Session even when the entry has left.                        *)
DeliverNavigated ==
  /\ Arrives("navigated")
  /\ Received
  /\ LET m == Head(wire[bound])
     IN /\ IF Mine(m) THEN Emptied(m.s) ELSE UNCHANGED <<seen, shown>>
        /\ Written(bound, <<Request("resume", m.s, m.gen, "navigate")>>)
  /\ UNCHANGED <<hostVars, link, handler, outbound, attached, asks, nextId,
                 bound, alive, recon, rebuilding, rebuilt, view, gen, status, prompts,
                 commands, faults, missed>>

(* #onRequest *)
DeliverAsk ==
  /\ Arrives("ask")
  /\ Received
  /\ LET m == Head(wire[bound])
         p == [id |-> m.id, s |-> m.s, n |-> m.n, gen |-> gen[m.s],
               late |-> recon = "connecting"]
     IN IF Known(m.s)
        THEN prompts' = prompts \cup {p} /\ UNCHANGED inbox
        ELSE Written(bound, <<Answer(p, FALSE)>>) /\ UNCHANGED prompts
  /\ UNCHANGED <<hostVars, link, handler, outbound, attached, asks, nextId,
                 bound, alive, recon, rebuilding, rebuilt, view, gen, status, seen,
                 shown, commands, faults, missed>>

-----------------------------------------------------------------------------
(***************************************************************************)
(* Losing the connection and restoring it.                                 *)
(***************************************************************************)
(* Mutant: the prompts of the old connection are kept. *)
StartRestoreKeepingPrompts(S) ==
  /\ recon' = "connecting"
  /\ status' = [s \in Sessions |-> IF s \in S THEN "reconnecting" ELSE "ok"]
  /\ UNCHANGED prompts

(* #reconnectClient shows the Sessions S as reconnecting, and the prompts of *)
(* the entries are cancelled; those of an entry that has left stay, with the *)
(* ids of the old connection.  It does nothing when a restore is already     *)
(* under way.                                                                *)
StartRestore(S) ==
  /\ recon' = "connecting"
  /\ status' = [s \in Sessions |-> IF s \in S THEN "reconnecting" ELSE "ok"]
  /\ prompts' = {[p EXCEPT !.late = TRUE] : p \in {q \in prompts : ~Mine(q)}}

(* The client notices that its socket is closed: the listener first, then  *)
(* every request under way fails.                                          *)
Notices ==
  /\ alive
  /\ link[bound] # "up"
  /\ alive' = FALSE
  /\ wire' = [wire EXCEPT ![bound] = <<>>]
  /\ Forgets({s \in Sessions : Opening(s)})
  /\ rebuilding' = "none"
  /\ IF recon = "none"
     THEN StartRestore({s \in Sessions : view[s] = "open"})
     ELSE /\ status' = [s \in Sessions |->
               IF Opening(s) THEN "ok"
               ELSE IF InPlace(s) THEN "restart_failed"
               ELSE status[s]]
          /\ UNCHANGED <<recon, prompts>>
  /\ UNCHANGED <<hostVars, link, inbox, handler, outbound, attached, asks, nextId,
                 bound, rebuilt, gen, commands, faults, missed>>

(* retryConnection, offered for a Session shown as restart_failed. *)
RetryConnection ==
  /\ UserActs
  /\ recon = "none"
  /\ \E s \in Sessions : status[s] = "restart_failed"
  /\ StartRestore({s \in Sessions : Known(s)})
  /\ Written(bound, Cancelled({p \in prompts : Mine(p)}))
  /\ UNCHANGED <<hostVars, link, wire, handler, outbound, attached, asks, nextId,
                 bound, alive, rebuilding, rebuilt, view, gen, seen, shown, faults,
                 missed>>

(* The Supervisor hands over a new client, already initialized; the old one *)
(* is unbound and closed.  A prompt shown since the restore began stays.    *)
Reconnects ==
  /\ recon = "connecting"
  /\ bound < MaxConnections
  /\ bound' = bound + 1
  /\ alive' = TRUE
  /\ recon' = "rebuilding"
  /\ rebuilt' = {}
  /\ IF link[bound] = "up"
     THEN \E i \in 0..Len(inbox[bound]) :
            Closes(bound, i, [link EXCEPT ![bound + 1] = "up"])
     ELSE /\ link' = [link EXCEPT ![bound + 1] = "up"]
          /\ UNCHANGED <<inbox, asks, turn, seq>>
  /\ wire' = [wire EXCEPT ![bound] = <<>>]
  /\ Forgets({s \in Sessions : Opening(s)})
  /\ missed' = [s \in Sessions |->
       IF prompts = {} THEN missed[s] ELSE missed[s] \cup {"outlived"}]
  /\ UNCHANGED <<unheard, owner, handler, outbound, attached, nextId, rebuilding,
                 gen, status, prompts, commands, faults>>

ReconnectFails ==
  /\ recon = "connecting"
  /\ recon' = "none"
  /\ status' = [s \in Sessions |-> IF Known(s) THEN "restart_failed" ELSE "ok"]
  /\ UNCHANGED <<hostVars, serverVars, bound, alive, rebuilding, rebuilt, view, gen,
                 seen, shown, prompts, commands, faults, missed>>

(* #rebuildProjection of the next Session. *)
Rebuilds(s) ==
  /\ recon = "rebuilding"
  /\ rebuilding = "none"
  /\ Known(s) /\ s \notin rebuilt
  /\ rebuilt' = rebuilt \cup {s}
  /\ Emptied(s)
  /\ IF alive
     THEN /\ rebuilding' = s
          /\ Written(bound, <<Request("resume", s, gen[s], "rebuild")>>)
          /\ UNCHANGED status
     ELSE /\ status' = [status EXCEPT ![s] = "restart_failed"]
          /\ UNCHANGED <<rebuilding, inbox>>
  /\ UNCHANGED <<hostVars, link, wire, handler, outbound, attached, asks, nextId,
                 bound, alive, recon, view, gen, prompts, commands, faults, missed>>

RestoreEnds ==
  /\ recon = "rebuilding"
  /\ rebuilding = "none"
  /\ \A s \in Sessions : Known(s) => s \in rebuilt
  /\ recon' = "none"
  /\ UNCHANGED <<hostVars, serverVars, bound, alive, rebuilding, rebuilt, view, gen,
                 status, seen, shown, prompts, commands, faults, missed>>

-----------------------------------------------------------------------------
Init ==
  /\ seq = [s \in Sessions |-> 0]
  /\ turn = [s \in Sessions |-> "idle"]
  /\ unheard = {}
  /\ owner = [s \in Sessions |-> 0]
  /\ link = [k \in Connections |-> IF k = 1 THEN "up" ELSE "unused"]
  /\ inbox = [k \in Connections |-> <<>>]
  /\ wire = [k \in Connections |-> <<>>]
  /\ handler = [k \in Connections |-> Free]
  /\ outbound = [k \in Connections |-> <<>>]
  /\ attached = [k \in Connections |-> {}]
  /\ asks = [k \in Connections |-> {}]
  /\ nextId = [k \in Connections |-> 1]
  /\ bound = 1
  /\ alive = TRUE
  /\ recon = "none"
  /\ rebuilding = "none"
  /\ rebuilt = {}
  /\ view = [s \in Sessions |-> "none"]
  /\ gen = [s \in Sessions |-> 0]
  /\ status = [s \in Sessions |-> "ok"]
  /\ seen = [s \in Sessions |-> {}]
  /\ shown = [s \in Sessions |-> 0]
  /\ prompts = {}
  /\ commands = 0
  /\ faults = 0
  /\ missed = [s \in Sessions |-> {}]

RunStep(s) == RunStarts(s) \/ RunAppends(s) \/ RunAsks(s) \/ RunEnds(s)

HandlerStep(k) ==
  \/ TakeAnswer(k) \/ TakeResume(k) \/ ResumeReads(k) \/ ResumeFails(k)
  \/ ResumeReplays(k)
  \/ TakePrompt(k) \/ TakeNavigate(k) \/ TakeCancel(k) \/ CancelAnswers(k)
  \/ Reply(k)

ClientStep ==
  \/ DeliverUpdate \/ DeliverReplay \/ DeliverRefusal \/ DeliverNavigated
  \/ DeliverAsk
  \/ Notices \/ Reconnects \/ ReconnectFails \/ RestoreEnds
  \/ \E s \in Sessions : Rebuilds(s)

UserStep ==
  \/ \E s \in Sessions : Open(s) \/ Send(s) \/ Navigate(s) \/ Abort(s) \/ CloseSession(s)
  \/ \E p \in prompts : Resolve(p)
  \/ RetryConnection

Next ==
  \/ \E s \in Sessions : RunStep(s)
  \/ \E k \in Connections : HandlerStep(k) \/ Breaks(k) \/ AgentCloses(k)
  \/ ClientStep
  \/ UserStep

Spec == Init /\ [][Next]_vars

-----------------------------------------------------------------------------
(* Every variable has its type. *)
TypeOK ==
  /\ seq \in [Sessions -> Updates]
  /\ turn \in [Sessions -> Turns]
  /\ unheard \subseteq Sessions
  /\ owner \in [Sessions -> 0..MaxConnections]
  /\ link \in [Connections -> {"unused", "up", "down", "gone"}]
  /\ \A k \in Connections : handler[k].step \in
       {"free", "snapshot", "replay", "waiting", "reply"}
  /\ \A k \in Connections : outbound[k] # <<>> => Handling(k)
  /\ attached \in [Connections -> SUBSET Sessions]
  /\ nextId \in [Connections -> Nat]
  /\ bound \in Connections
  /\ alive \in BOOLEAN
  /\ recon \in {"none", "connecting", "rebuilding"}
  /\ rebuilding \in Sessions \cup {"none"}
  /\ rebuilt \subseteq Sessions
  /\ view \in [Sessions -> {"none", "opening", "open"}]
  /\ gen \in [Sessions -> 0..MaxCommands]
  /\ status \in [Sessions -> {"ok", "reconnecting", "restart_failed"}]
  /\ seen \in [Sessions -> SUBSET Updates]
  /\ shown \in [Sessions -> Updates]
  /\ missed \in [Sessions -> SUBSET {"discarded", "overtaken", "outlived", "emptied", "detached"}]

(* Nothing is under way between the Desktop and the Server. *)
AtRest ==
  /\ recon = "none" /\ alive /\ link[bound] = "up"
  /\ inbox[bound] = <<>> /\ wire[bound] = <<>> /\ handler[bound] = Free

(* Once nothing is under way, the Desktop holds every entry of a Session it *)
(* has open and shows its state, whatever was published while it opened,    *)
(* moved a branch or reconnected: the replay and the notifications around   *)
(* it leave no gap.  The exceptions are in `missed`: a resume throws away    *)
(* what was published after its snapshot or for another Session (agent.ts   *)
(* drain() in resumeSession); the resume that was to fill the projection    *)
(* again after a navigation fails, which nothing shows (acp-host.ts         *)
(* #rebuildProjection); a resume that fails on the configuration detaches   *)
(* the Session; and a notification can reach the socket before the older    *)
(* ones that handle() has drained, whose state then wins.                   *)
Converges ==
  AtRest => \A s \in Sessions : view[s] = "open" /\ status[s] = "ok" =>
    /\ missed[s] \subseteq {"outlived", "overtaken"} => seen[s] = 1..seq[s]
    /\ missed[s] \subseteq {"outlived"} => shown[s] = seq[s]

(* A run that awaits the user is waited for by somebody: its question is on *)
(* its way, shown to the user, or its answer is on the way back, over a     *)
(* socket that is up.  A connection that ends, a Session the Desktop does   *)
(* not know and a prompt it withdraws must all answer (local-transport.ts   *)
(* close, acp-host.ts #onRequest and #cancelPendingPermissions).            *)
HostIsAnswered ==
  \A s \in Sessions : turn[s] = "asking" =>
    \E k \in Connections : \E a \in asks[k] :
      /\ link[k] = "up" /\ a.s = s /\ a.n = seq[s]
      /\ \/ \E i \in DOMAIN wire[k] :
              wire[k][i] = [type |-> "ask", id |-> a.id, s |-> a.s, n |-> a.n]
         \/ \E i \in DOMAIN inbox[k] : inbox[k][i].type = "answer" /\ inbox[k][i].id = a.id
         \/ k = bound /\ \E p \in prompts : p.id = a.id /\ p.s = a.s /\ p.n = a.n

(* Once nothing is under way, a prompt the user sees in a Session is one the *)
(* run awaits: none outlives its run or its connection.  The exceptions are  *)
(* a notification that was lost or overtaken, a Session that a resume has    *)
(* detached, and the prompts that outlive their connection: those of an      *)
(* entry that has left, and those that came while the client reconnected     *)
(* with its old socket still up (retryConnection); the answer to one may end *)
(* another question, whose own prompt then stays.                            *)
PromptIsLive ==
  AtRest => \A p \in prompts :
    view[p.s] = "open" /\ Mine(p) /\ missed[p.s] \subseteq {"emptied"} =>
      turn[p.s] = "asking" /\ seq[p.s] = p.n

(* An answer never reaches another question than the one the user was shown, *)
(* although request ids start at 1 on every connection and #pendingPermissions *)
(* outlives connections.  The exceptions are a prompt shown while the client  *)
(* reconnects with its old socket still up (retryConnection), and one whose   *)
(* entry had left #sessions before (an open that failed), which a restore     *)
(* does not withdraw: they are kept, and an answer carries an id of the old   *)
(* connection to the new one.                                                 *)
AnswerIsForItsQuestion ==
  \A k \in Connections : \A i \in DOMAIN inbox[k] :
    LET m == inbox[k][i]
    IN m.type = "answer" /\ ~m.late => \A a \in asks[k] : a.id = m.id => a.s = m.s /\ a.n = m.n

(* The lines of a connection are handled one after the other, so an answer of *)
(* the user waits behind a cancel.  That cancel only waits for a run that is  *)
(* being aborted, never for one that goes on, or that awaits this very answer *)
(* (host.ts cancel and cancelLiveOperation); the exception is a run that was  *)
(* cancelled before it began and did not hear it.                             *)
AnswersAreNotBlocked ==
  \A k \in Connections : handler[k].step = "waiting" =>
    LET s == handler[k].s
    IN s \in attached[k] => turn[s] \in {"aborting", "idle"} \/ s \in unheard

(* A Session is controlled by a connection that still holds it: a line that is *)
(* handled after the socket closed cannot take or keep the slot for ever       *)
(* (local-transport.ts tail.finally, agent.ts close).                          *)
LeaseHasConnection ==
  \A s \in Sessions : owner[s] # 0 =>
    /\ s \in attached[owner[s]]
    /\ link[owner[s]] \in {"up", "down"}
=============================================================================
