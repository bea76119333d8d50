---------------------------- MODULE RuntimeSession ----------------------------
(***************************************************************************)
(* The Runtime Host and its live Sessions (app/server/src/runtime/host.ts) *)
(* over one durable Session.  Clients open, prompt, cancel and close it;   *)
(* the Host admits prompts, drives at most one Operation per Session       *)
(* object, finishes it, and recovers the journal when it opens a Session   *)
(* that is not live.  An await is a place where other steps can happen.    *)
(*                                                                         *)
(* Left out: ephemeral Sessions, retry, navigation, compaction and         *)
(* configuration (they use the same queue), events and telemetry.          *)
(***************************************************************************)
EXTENDS OperationRun

CONSTANTS
  Requests,       \* concurrent openSession requests
  ConnectionOf,   \* the ACP connection each request belongs to
  MaxSessions,    \* RuntimeSession objects over all incarnations
  MaxPrompts,     \* prompts the clients submit
  MaxCloses,      \* times a client detaches
  MaxCrashes      \* crashes of the Host process

NoConnection == "nobody"

ASSUME HostAssumption ==
  /\ MaxSessions \in Nat \ {0}
  /\ MaxPrompts \in Nat
  /\ MaxCloses \in Nat
  /\ MaxCrashes \in Nat
  /\ NoConnection \notin {ConnectionOf[r] : r \in Requests}

Connections == {ConnectionOf[r] : r \in Requests}

Sessions == 1..MaxSessions

VARIABLES
  queue,           \* queue[s]: work chained on #tail, the head is running
  work,            \* work[s]: what the head of the queue has read so far
  active,          \* active[s]: #active, 0 when there is none
  suspended,       \* suspended[s]: #suspended is set
  indeterminate,   \* indeterminate[s]: #indeterminate is set
  closed,          \* closed[s]: #closed
  holder,          \* holder[s]: connection its releaseController lets go of
  owner,           \* owner[o]: Session object that admitted Operation o
  attached,        \* attached[o]: active.resource is set
  abortRequested,  \* abortRequested[o]: active.abortRequested
  created,         \* Session objects made so far
  live,            \* #liveSessions: the registered object, 0 when none
  controller,      \* #controllers: the connection that controls the Session
  stage,           \* stage[r]: where an openSession request stands
  found,           \* found[r]: verdicts of the state it loaded
  prompts,         \* prompts submitted so far (bound)
  closes,          \* detaches so far (bound)
  crashes          \* crashes so far (bound)

sessionVars == <<queue, work, active, suspended, indeterminate, closed>>
operationVars == <<owner, attached, abortRequested>>
hostVars == <<holder, created, live, controller, stage, found>>
boundVars == <<prompts, closes, crashes>>
vars == <<persistenceVars, runVars, ran, sessionVars, operationVars, hostVars, boundVars>>

Item == ({"prompt", "cancel"} \X {0}) \cup ({"complete"} \X Ops)

At(step, leaf, op, input, verdict) ==
  [step |-> step, leaf |-> leaf, op |-> op, input |-> input, verdict |-> verdict]

Idle == At("idle", 0, 0, 0, NoVerdict)

Work ==
  [step : {"idle", "preflight", "deliver", "finish", "abort"}, leaf : Nat,
   op : 0..MaxOps, input : 0..MaxInputs, verdict : Verdict]

SessionTypeOK ==
  /\ queue \in [Sessions -> Seq(Item)]
  /\ work \in [Sessions -> Work]
  /\ active \in [Sessions -> 0..MaxOps]
  /\ suspended \in [Sessions -> BOOLEAN]
  /\ indeterminate \in [Sessions -> BOOLEAN]
  /\ closed \in [Sessions -> BOOLEAN]
  /\ owner \in [Ops -> 0..MaxSessions]
  /\ attached \in [Ops -> BOOLEAN]
  /\ abortRequested \in [Ops -> BOOLEAN]

HostTypeOK ==
  /\ holder \in [Sessions -> Connections \cup {NoConnection}]
  /\ created \in 0..MaxSessions
  /\ live \in 0..MaxSessions
  /\ controller \in Connections \cup {NoConnection}
  /\ stage \in [Requests -> {"idle", "loaded", "claimed", "finalizing"}]
  /\ found \in [Requests -> [Ops -> Verdict]]
  /\ prompts \in 0..MaxPrompts
  /\ closes \in 0..MaxCloses
  /\ crashes \in 0..MaxCrashes

(* Every variable keeps to its type. *)
TypeOK == PersistenceTypeOK /\ RunTypeOK /\ SessionTypeOK /\ HostTypeOK

NothingFound == [o \in Ops |-> NoVerdict]

SessionInit ==
  /\ queue = [s \in Sessions |-> <<>>]
  /\ work = [s \in Sessions |-> Idle]
  /\ active = [s \in Sessions |-> 0]
  /\ suspended = [s \in Sessions |-> FALSE]
  /\ indeterminate = [s \in Sessions |-> FALSE]
  /\ closed = [s \in Sessions |-> TRUE]
  /\ holder = [s \in Sessions |-> NoConnection]
  /\ attached = [o \in Ops |-> FALSE]
  /\ abortRequested = [o \in Ops |-> FALSE]
  /\ live = 0
  /\ controller = NoConnection
  /\ stage = [r \in Requests |-> "idle"]
  /\ found = [r \in Requests |-> NothingFound]

(* The Session exists, nothing was ever asked of it and nobody opened it. *)
Init ==
  /\ PersistenceInit
  /\ RunInit
  /\ SessionInit
  /\ owner = [o \in Ops |-> 0]
  /\ created = 0
  /\ prompts = 0
  /\ closes = 0
  /\ crashes = 0

-----------------------------------------------------------------------------
(* The Session queue: enqueue, and the end of the running item. *)
Enqueue(s, item) == queue' = [queue EXCEPT ![s] = Append(@, item)]

Serving(s, kind, step) ==
  /\ queue[s] # <<>>
  /\ Head(queue[s])[1] = kind
  /\ work[s].step = step

Dequeue(s) ==
  /\ queue' = [queue EXCEPT ![s] = Tail(@)]
  /\ work' = [work EXCEPT ![s] = Idle]

Proceed(s, next) ==
  /\ work' = [work EXCEPT ![s] = next]
  /\ UNCHANGED queue

(* Variant: only a suspended Session refuses prompts. *)
ParkedIfSuspended(s) == suspended[s]

Parked(s) == suspended[s] \/ indeterminate[s]

(***************************************************************************)
(* releaseLiveSessionIfDetached: forget a closed Session object unless its *)
(* driver can still make progress.  The arguments are the state after the  *)
(* caller's own assignments.                                               *)
(***************************************************************************)
KeepsDriver(s, activeOp, parked) == activeOp # 0 /\ ~parked

ReleaseIfDetached(s, isClosed, activeOp, parked) ==
  live' = IF isClosed /\ ~KeepsDriver(s, activeOp, parked) /\ live = s THEN 0 ELSE live

-----------------------------------------------------------------------------
(* prompt: what happens before the queue. *)
Prompt(s) ==
  /\ ~closed[s]
  /\ prompts < MaxPrompts
  /\ prompts' = prompts + 1
  /\ Enqueue(s, <<"prompt", 0>>)
  /\ UNCHANGED <<work, active, suspended, indeterminate, closed, closes, crashes, ran>>
  /\ UNCHANGED <<persistenceVars, runVars, operationVars, hostVars>>

RejectPrompt(s) ==
  /\ Serving(s, "prompt", "idle")
  /\ Parked(s)
  /\ Dequeue(s)
  /\ UNCHANGED <<active, suspended, indeterminate, closed, ran>>
  /\ UNCHANGED <<persistenceVars, runVars, operationVars, hostVars, boundVars>>

(***************************************************************************)
(* queueActiveInput: the record first, then the disposable agent.          *)
(***************************************************************************)
QueuedInputs(o) == {journal[o][k].id : k \in Of(journal[o], "input_queued")}

QueueInput(s) ==
  /\ Serving(s, "prompt", "idle")
  /\ ~Parked(s)
  /\ active[s] # 0
  /\ \E i \in Inputs :
       /\ \A j \in Inputs : j \in QueuedInputs(active[s]) <=> j < i
       /\ AppendRecord(active[s], InputQueued(active[s], i, QueuedEntry(active[s], i)))
       /\ Proceed(s, At("deliver", 0, active[s], i, NoVerdict))
  /\ UNCHANGED <<active, suspended, indeterminate, closed, ran>>
  /\ UNCHANGED <<runVars, operationVars, hostVars, boundVars>>

(* MaxInputs stands for a database that accepts no more records. *)
InputRefused(s) ==
  /\ Serving(s, "prompt", "idle")
  /\ ~Parked(s)
  /\ active[s] # 0
  /\ \/ RecordRefused(active[s])
     \/ Inputs \subseteq QueuedInputs(active[s]) /\ UNCHANGED persistenceVars
  /\ Dequeue(s)
  /\ UNCHANGED <<active, suspended, indeterminate, closed, ran>>
  /\ UNCHANGED <<runVars, operationVars, hostVars, boundVars>>

(* Before the agent is built the input joins its first messages; once it is *)
(* built but not yet attached, nobody hands the input over. *)
JoinsFirstMessages(o) == phase[o] \in {"accepted", "opening"}

DeliverInput(s) ==
  /\ Serving(s, "prompt", "deliver")
  /\ LET o == work[s].op
         i == work[s].input
     IN  /\ inject' = [inject EXCEPT ![o] = IF JoinsFirstMessages(o) THEN Append(@, i) ELSE @]
         /\ inbox' = [inbox EXCEPT ![o] =
                        IF attached[o] /\ phase[o] \in Running THEN Append(@, i) ELSE @]
         /\ suspended' = [suspended EXCEPT ![s] =
                            @ \/ (attached[o] /\ phase[o] \notin Running)]
  /\ Dequeue(s)
  /\ UNCHANGED <<phase, turn, reply, repair, held, reserved, abort, late, last, ran>>
  /\ UNCHANGED <<active, indeterminate, closed>>
  /\ UNCHANGED <<persistenceVars, operationVars, hostVars, boundVars>>

(***************************************************************************)
(* admit: load, preflight, then the admission transaction on the leaf that *)
(* was loaded.                                                             *)
(***************************************************************************)
LoadForPrompt(s) ==
  /\ Serving(s, "prompt", "idle")
  /\ ~Parked(s)
  /\ active[s] = 0
  /\ \/ /\ Proceed(s, At("preflight", revision, 0, 0, NoVerdict))
        /\ UNCHANGED persistenceVars
     \/ Dequeue(s) /\ DatabaseFails
  /\ UNCHANGED <<active, suspended, indeterminate, closed, ran>>
  /\ UNCHANGED <<runVars, operationVars, hostVars, boundVars>>

(* Variant: the admitted Operation is not remembered. *)
ActivateNothing(s, o) == active' = active

Activate(s, o) == active' = [active EXCEPT ![s] = o]

AdmitPrompt(s) ==
  /\ Serving(s, "prompt", "preflight")
  /\ \E o \in Ops :
       /\ \A p \in Ops : Accepted(p) <=> p < o
       /\ AdmitTransaction(o, work[s].leaf)
       /\ Activate(s, o)
       /\ owner' = [owner EXCEPT ![o] = s]
       /\ phase' = [phase EXCEPT ![o] = "accepted"]
  /\ Dequeue(s)
  /\ UNCHANGED <<turn, reply, repair, inject, inbox, held, reserved, abort, late, last, ran>>
  /\ UNCHANGED <<suspended, indeterminate, closed, attached, abortRequested>>
  /\ UNCHANGED <<hostVars, boundVars>>

(* The preflight or the transaction says no. *)
AdmissionFails(s) ==
  /\ Serving(s, "prompt", "preflight")
  /\ UNCHANGED persistenceVars \/ AdmitRefused(work[s].leaf)
  /\ Dequeue(s)
  /\ UNCHANGED <<active, suspended, indeterminate, closed, ran>>
  /\ UNCHANGED <<runVars, operationVars, hostVars, boundVars>>

(* startAdmitted, outside the queue: runOperation begins. *)
StartAdmitted(o) ==
  /\ owner[o] # 0 => ~suspended[owner[o]]
  /\ Goes(o, "accepted", "opening")
  /\ UNCHANGED <<turn, reply, repair, inject, inbox, held, reserved, abort, late, last, ran>>
  /\ UNCHANGED <<persistenceVars, sessionVars, operationVars, hostVars, boundVars>>

(* runOperation gets its resource; a cancel that came earlier is passed on, *)
(* and is lost if the run has not started. *)
AttachResource(o) ==
  /\ ~attached[o]
  /\ phase[o] \in Running \cup {"built", "ended"}
  /\ attached' = [attached EXCEPT ![o] = TRUE]
  /\ abort' = [abort EXCEPT ![o] = @ \/ (abortRequested[o] /\ phase[o] \in Running)]
  /\ UNCHANGED <<phase, turn, reply, repair, inject, inbox, held, reserved, late, last, ran>>
  /\ UNCHANGED <<persistenceVars, sessionVars, owner, abortRequested, hostVars, boundVars>>

-----------------------------------------------------------------------------
(* completeOperation joins the queue. *)
SubmitCompletion(o) ==
  /\ owner[o] # 0
  /\ \/ Goes(o, "ended", "completing") /\ attached[o]
     \/ Goes(o, "unopened", "completing")
  /\ Enqueue(owner[o], <<"complete", o>>)
  /\ UNCHANGED <<turn, reply, repair, inject, inbox, held, reserved, abort, late, last, ran>>
  /\ UNCHANGED <<work, active, suspended, indeterminate, closed>>
  /\ UNCHANGED <<persistenceVars, operationVars, hostVars, boundVars>>

Leaves(o) == phase' = [phase EXCEPT ![o] = "done"]

Deactivate(s, o) ==
  active' = [active EXCEPT ![s] = IF @ = o THEN 0 ELSE @]

(* A failed read, or a journal the reducer refuses: #active stays set. *)
CompletionUnreadable(s, o) ==
  /\ \/ Unreadable(Verdicts) /\ UNCHANGED persistenceVars
     \/ DatabaseFails
  /\ Dequeue(s)
  /\ Leaves(o)
  /\ UNCHANGED <<active, suspended, indeterminate, live>>

(* T1 without T2: park the Session object. *)
ParkIndeterminate(s, o) ==
  /\ ~Unreadable(Verdicts)
  /\ VerdictOf(o).status = "indeterminate_tool"
  /\ indeterminate' = [indeterminate EXCEPT ![s] = TRUE]
  /\ Deactivate(s, o)
  /\ ReleaseIfDetached(s, closed[s], active'[s], TRUE)
  /\ Dequeue(s)
  /\ Leaves(o)
  /\ UNCHANGED suspended
  /\ UNCHANGED persistenceVars

(* Variant: a run that ended before or between two requests is not at rest. *)
AtRestIfInterrupted(verdict) == verdict.status = "provider_interrupted"

(* Nothing but inputs is missing from the journal. *)
AtRest(verdict) == verdict.status \in {"ready", "provider_interrupted"}

(* Accepted inputs never reached the Session Journal: suspend. *)
SuspendPending(s, o) ==
  /\ ~Unreadable(Verdicts)
  /\ AtRest(VerdictOf(o))
  /\ VerdictOf(o).pending
  /\ suspended' = [suspended EXCEPT ![s] = TRUE]
  /\ Dequeue(s)
  /\ Leaves(o)
  /\ UNCHANGED <<active, indeterminate, live>>
  /\ UNCHANGED persistenceVars

(* Somebody finished the Operation already. *)
AlreadyFinished(s, o) ==
  /\ ~Unreadable(Verdicts)
  /\ VerdictOf(o).finalization = "durable"
  /\ Deactivate(s, o)
  /\ ReleaseIfDetached(s, closed[s], active'[s], Parked(s))
  /\ Dequeue(s)
  /\ Leaves(o)
  /\ UNCHANGED <<suspended, indeterminate>>
  /\ UNCHANGED persistenceVars

DecideOutcome(s, o) ==
  /\ ~Unreadable(Verdicts)
  /\ LET v == VerdictOf(o)
     IN  /\ \/ AtRest(v) /\ ~v.pending
            \/ v.finalization = "inferred"
         /\ Proceed(s, At("finish", 0, o, 0, v))
  /\ UNCHANGED <<active, suspended, indeterminate, live, phase>>
  /\ UNCHANGED persistenceVars

(* completeOperation up to its decision. *)
LoadForCompletion(s) ==
  /\ Serving(s, "complete", "idle")
  /\ LET o == Head(queue[s])[2]
     IN  \/ CompletionUnreadable(s, o) \/ ParkIndeterminate(s, o)
         \/ SuspendPending(s, o) \/ AlreadyFinished(s, o) \/ DecideOutcome(s, o)
  /\ UNCHANGED <<closed, turn, reply, repair, inject, inbox, held, reserved, abort, late, last, ran>>
  /\ UNCHANGED <<holder, created, controller, stage, found>>
  /\ UNCHANGED <<operationVars, boundVars>>

(* The inferred outcome wins over what the driver reported. *)
TerminalOutcomeFor(o, verdict) ==
  IF verdict.finalization = "inferred" THEN verdict.outcome ELSE ResolveOutcome(o)

(* ... and the terminal record it then appends. *)
FinishOperation(s) ==
  /\ Serving(s, "complete", "finish")
  /\ LET o == work[s].op
     IN  /\ \/ /\ AppendRecord(o, OperationFinished(o, TerminalOutcomeFor(o, work[s].verdict)))
               /\ Deactivate(s, o)
               /\ ReleaseIfDetached(s, closed[s], active'[s], Parked(s))
            \/ RecordRefused(o) /\ UNCHANGED <<active, live>>
         /\ Leaves(o)
  /\ Dequeue(s)
  /\ UNCHANGED <<turn, reply, repair, inject, inbox, held, reserved, abort, late, last, ran>>
  /\ UNCHANGED <<suspended, indeterminate, closed, holder, created, controller, stage, found>>
  /\ UNCHANGED <<operationVars, boundVars>>

-----------------------------------------------------------------------------
(* cancel of a running Operation: immediate, no queue. *)
CancelLive(s) ==
  /\ ~closed[s]
  /\ ~Parked(s)
  /\ active[s] # 0
  /\ LET o == active[s]
     IN  /\ abortRequested' = [abortRequested EXCEPT ![o] = TRUE]
         /\ abort' = [abort EXCEPT ![o] = @ \/ (attached[o] /\ phase[o] \in Running)]
  /\ UNCHANGED <<phase, turn, reply, repair, inject, inbox, held, reserved, late, last, ran>>
  /\ UNCHANGED <<persistenceVars, sessionVars, owner, attached, hostVars, boundVars>>

(* cancel with nothing active goes through the queue, be it empty (one at a time: bound). *)
CancelQueued(s) ==
  /\ ~closed[s]
  /\ ~Parked(s)
  /\ active[s] = 0
  /\ \A k \in DOMAIN queue[s] : queue[s][k][1] # "cancel"
  /\ Enqueue(s, <<"cancel", 0>>)
  /\ UNCHANGED <<work, active, suspended, indeterminate, closed, ran>>
  /\ UNCHANGED <<persistenceVars, runVars, operationVars, hostVars, boundVars>>

(* The first Operation that is not terminal, if it may be cancelled. *)
LoadForCancel(s) ==
  /\ Serving(s, "cancel", "idle")
  /\ LET open == {o \in Ops : ~Settled(VerdictOf(o))}
     IN  \/ /\ ~Unreadable(Verdicts)
            /\ \E o \in open :
                 /\ \A p \in open : o <= p
                 /\ VerdictOf(o).status # "indeterminate_tool"
                 /\ Proceed(s, At("abort", 0, o, 0, NoVerdict))
            /\ UNCHANGED persistenceVars
         \/ /\ \/ Unreadable(Verdicts)
               \/ open = {}
               \/ \E o \in open : VerdictOf(o).status = "indeterminate_tool" /\ \A p \in open : o <= p
            /\ UNCHANGED persistenceVars
            /\ Dequeue(s)
         \/ DatabaseFails /\ Dequeue(s)
  /\ UNCHANGED <<active, suspended, indeterminate, closed, ran>>
  /\ UNCHANGED <<runVars, operationVars, hostVars, boundVars>>

AbortByCancel(s) ==
  /\ Serving(s, "cancel", "abort")
  /\ \/ AppendRecord(work[s].op, OperationFinished(work[s].op, "aborted"))
     \/ RecordRefused(work[s].op)
  /\ Dequeue(s)
  /\ UNCHANGED <<active, suspended, indeterminate, closed, ran>>
  /\ UNCHANGED <<runVars, operationVars, hostVars, boundVars>>

(* Variant: the slot is kept. *)
KeepController(connection) == controller' = controller

ReleaseController(connection) ==
  controller' = IF controller = connection THEN NoConnection ELSE controller

(* close: detach, keep the object registered while it drives. *)
Close(s) ==
  /\ ~closed[s]
  /\ closes < MaxCloses
  /\ closes' = closes + 1
  /\ closed' = [closed EXCEPT ![s] = TRUE]
  /\ ReleaseController(holder[s])
  /\ ReleaseIfDetached(s, TRUE, active[s], Parked(s))
  /\ UNCHANGED <<queue, work, active, suspended, indeterminate, ran>>
  /\ UNCHANGED <<holder, created, stage, found, prompts, crashes>>
  /\ UNCHANGED <<persistenceVars, runVars, operationVars>>

-----------------------------------------------------------------------------
(***************************************************************************)
(* openSession, resume.  The durable state is loaded before the request    *)
(* claims the Session and looks for a live object.                         *)
(***************************************************************************)
OpenLoad(r) ==
  /\ stage[r] = "idle"
  /\ created < MaxSessions
  /\ stage' = [stage EXCEPT ![r] = "loaded"]
  /\ found' = [found EXCEPT ![r] = Verdicts]
  /\ UNCHANGED <<holder, created, live, controller, ran>>
  /\ UNCHANGED <<persistenceVars, runVars, sessionVars, operationVars, boundVars>>

OpenEnds(r) ==
  /\ stage' = [stage EXCEPT ![r] = "idle"]
  /\ found' = [found EXCEPT ![r] = NothingFound]

(* Variant: nobody asks who controls the Session. *)
MayControlAny(r) == ConnectionOf[r] \in Connections

MayControl(r) == controller \in {NoConnection, ConnectionOf[r]}

(* acquireController: another connection holds the Session. *)
OpenRefused(r) ==
  /\ stage[r] = "loaded"
  /\ ~MayControl(r)
  /\ OpenEnds(r)
  /\ UNCHANGED <<holder, created, live, controller, ran>>
  /\ UNCHANGED <<persistenceVars, runVars, sessionVars, operationVars, boundVars>>

(* attachController: back to the live object, no recovery. *)
OpenAttach(r) ==
  /\ stage[r] = "loaded"
  /\ MayControl(r)
  /\ live # 0
  /\ controller' = ConnectionOf[r]
  /\ closed' = [closed EXCEPT ![live] = FALSE]
  /\ holder' = [holder EXCEPT ![live] = IF closed[live] THEN ConnectionOf[r] ELSE @]
  /\ OpenEnds(r)
  /\ UNCHANGED <<queue, work, active, suspended, indeterminate, created, live, ran>>
  /\ UNCHANGED <<persistenceVars, runVars, operationVars, boundVars>>

(* Nobody drives the Session: recovery decides on the loaded state. *)
OpenClaim(r) ==
  /\ stage[r] = "loaded"
  /\ MayControl(r)
  /\ live = 0
  /\ IF Unreadable(found[r])
       THEN ReleaseController(ConnectionOf[r]) /\ OpenEnds(r)
       ELSE /\ controller' = ConnectionOf[r]
            /\ stage' = [stage EXCEPT ![r] = "claimed"]
            /\ UNCHANGED found
  /\ UNCHANGED <<holder, created, live, ran>>
  /\ UNCHANGED <<persistenceVars, runVars, sessionVars, operationVars, boundVars>>

(* finalizeRecoveredOperations: one terminal record after the other. *)
ToFinalize(r) == {o \in Ops : Finalizable(found[r][o])}

OpenFinalize(r) ==
  /\ stage[r] \in {"claimed", "finalizing"}
  /\ \E o \in ToFinalize(r) :
       /\ \A p \in ToFinalize(r) : o <= p
       /\ \/ /\ AppendRecord(o, OperationFinished(o, RecoveredOutcome(found[r][o])))
             /\ stage' = [stage EXCEPT ![r] = "finalizing"]
             /\ found' = [found EXCEPT ![r][o] = Terminal(RecoveredOutcome(found[r][o]), "durable")]
             /\ UNCHANGED controller
          \/ RecordRefused(o) /\ ReleaseController(ConnectionOf[r]) /\ OpenEnds(r)
  /\ UNCHANGED <<holder, created, live, ran>>
  /\ UNCHANGED <<runVars, sessionVars, operationVars, boundVars>>

(* The verdicts the new object starts from: reloaded if anything was written. *)
Recovered(r) == IF stage[r] = "claimed" THEN found[r] ELSE Verdicts

Resumable(verdicts) ==
  LET open == {o \in Ops : ~Settled(verdicts[o])}
  IN  \A o, p \in open : o = p /\ verdicts[o].status = "indeterminate_tool"

(* Variant: resume forgets the tool it found. *)
ResumesUnparked(verdicts) == FALSE

(* resume: the tool whose effect is unknown parks the new object. *)
ResumesParked(verdicts) == \E o \in Ops : ~Settled(verdicts[o])

OpenFails(r) ==
  /\ stage[r] \in {"claimed", "finalizing"}
  /\ ToFinalize(r) = {}
  /\ \/ /\ stage[r] = "finalizing" /\ DatabaseFails /\ UNCHANGED live
     \/ /\ Unreadable(Recovered(r)) /\ UNCHANGED <<persistenceVars, live>>
     \/ /\ ~Resumable(Recovered(r)) /\ UNCHANGED persistenceVars
        /\ live' = 0                    \* registered, then closed again
     \/ /\ created = MaxSessions /\ UNCHANGED <<persistenceVars, live>>
  /\ ReleaseController(ConnectionOf[r])
  /\ OpenEnds(r)
  /\ UNCHANGED <<holder, created, ran>>
  /\ UNCHANGED <<runVars, sessionVars, operationVars, boundVars>>

(* A new RuntimeSession object, registered as live and resumed. *)
OpenRegister(r) ==
  /\ stage[r] \in {"claimed", "finalizing"}
  /\ ToFinalize(r) = {}
  /\ created < MaxSessions
  /\ ~Unreadable(Recovered(r))
  /\ Resumable(Recovered(r))
  /\ created' = created + 1
  /\ live' = created'
  /\ closed' = [closed EXCEPT ![created'] = FALSE]
  /\ holder' = [holder EXCEPT ![created'] = ConnectionOf[r]]
  /\ indeterminate' = [indeterminate EXCEPT ![created'] = ResumesParked(Recovered(r))]
  /\ OpenEnds(r)
  /\ UNCHANGED <<queue, work, active, suspended, controller, ran>>
  /\ UNCHANGED <<persistenceVars, runVars, operationVars, boundVars>>

-----------------------------------------------------------------------------
(* The Host process dies; the database survives. *)
RunLost ==
  /\ phase' = [o \in Ops |-> IF phase[o] = "none" THEN "none" ELSE "lost"]
  /\ turn' = [o \in Ops |-> 0]
  /\ reply' = [o \in Ops |-> "none"]
  /\ repair' = [o \in Ops |-> "none"]
  /\ inject' = [o \in Ops |-> <<>>]
  /\ inbox' = [o \in Ops |-> <<>>]
  /\ held' = [o \in Ops |-> 0]
  /\ reserved' = [o \in Ops |-> FALSE]
  /\ abort' = [o \in Ops |-> FALSE]
  /\ late' = [o \in Ops |-> "none"]
  /\ last' = [o \in Ops |-> "none"]

HostLost ==
  /\ queue' = [s \in Sessions |-> <<>>]
  /\ work' = [s \in Sessions |-> Idle]
  /\ active' = [s \in Sessions |-> 0]
  /\ suspended' = [s \in Sessions |-> FALSE]
  /\ indeterminate' = [s \in Sessions |-> FALSE]
  /\ closed' = [s \in Sessions |-> TRUE]
  /\ holder' = [s \in Sessions |-> NoConnection]
  /\ attached' = [o \in Ops |-> FALSE]
  /\ abortRequested' = [o \in Ops |-> FALSE]
  /\ live' = 0
  /\ controller' = NoConnection
  /\ stage' = [r \in Requests |-> "idle"]
  /\ found' = [r \in Requests |-> NothingFound]

Crash ==
  /\ crashes < MaxCrashes
  /\ created > 0
  /\ crashes' = crashes + 1
  /\ RunLost
  /\ HostLost
  /\ UNCHANGED <<persistenceVars, owner, created, prompts, closes, ran>>

-----------------------------------------------------------------------------
(* The queue's own steps, which nothing outside the Host holds up. *)
QueueStep(s) ==
  \/ RejectPrompt(s) \/ QueueInput(s) \/ InputRefused(s) \/ DeliverInput(s)
  \/ LoadForPrompt(s) \/ AdmitPrompt(s) \/ AdmissionFails(s)
  \/ LoadForCompletion(s) \/ FinishOperation(s)
  \/ LoadForCancel(s) \/ AbortByCancel(s)

ClientStep(s) == Prompt(s) \/ CancelLive(s) \/ CancelQueued(s) \/ Close(s)

DriverStep(o) == StartAdmitted(o) \/ AttachResource(o) \/ SubmitCompletion(o)

OpenStep(r) ==
  \/ OpenLoad(r) \/ OpenRefused(r) \/ OpenAttach(r) \/ OpenClaim(r)
  \/ OpenFinalize(r) \/ OpenFails(r) \/ OpenRegister(r)

RunAlone(o) ==
  /\ RunStep(o)
  /\ UNCHANGED <<sessionVars, operationVars, hostVars, boundVars>>

Next ==
  \/ \E o \in Ops : RunAlone(o)
  \/ \E o \in Ops : DriverStep(o)
  \/ \E s \in Sessions : QueueStep(s)
  \/ \E s \in Sessions : ClientStep(s)
  \/ \E r \in Requests : OpenStep(r)
  \/ Crash

Spec == Init /\ [][Next]_vars

(***************************************************************************)
(* Fairness.  The Host's own code runs on an event loop that starves       *)
(* nobody, and a provider stream whose signal is aborted ends.  Nothing    *)
(* makes a provider answer, a tool return, a user approve, or a client     *)
(* call.                                                                   *)
(***************************************************************************)
AbortedStreamEnds(o) == abort[o] /\ ProviderStep(o)

RunProceeds(o) ==
  /\ LoopStep(o) \/ AbortedStreamEnds(o)
  /\ UNCHANGED <<sessionVars, operationVars, hostVars, boundVars>>

Fairness ==
  /\ \A o \in Ops : WF_vars(RunProceeds(o)) /\ WF_vars(DriverStep(o))
  /\ \A s \in Sessions : WF_vars(QueueStep(s))

FairSpec == Spec /\ Fairness

-----------------------------------------------------------------------------
(* Operation o has a driver in this process. *)
Driving(o) == phase[o] \notin {"none", "done", "lost"}

Incomplete(o) == IncompleteDispatches(journal[o], entries) # {}

(***************************************************************************)
(* Whatever order driver, queue, cancel and recovery write in, the records *)
(* of an Operation pass the reducer's structural checks: the store itself  *)
(* checks only that the Operation is accepted and not finished.            *)
(***************************************************************************)
JournalWellFormed ==
  \A o \in Ops : Accepted(o) => ~Malformed(journal[o], entries)

(***************************************************************************)
(* A tool is invoked at most once per call, and only after its             *)
(* tool_dispatched record is durable, also when the call outlived the      *)
(* abort of its run.                                                       *)
(***************************************************************************)
Dispatched(o) == {journal[o][k].id : k \in Of(journal[o], "tool_dispatched")}

EffectNeedsIntent ==
  \A o \in Ops, t \in Attempts :
    /\ ran[<<o, t>>] <= 1
    /\ ran[<<o, t>>] > 0 => t \in Dispatched(o)

(***************************************************************************)
(* Records are never taken back, and a finished Operation gets no more.    *)
(***************************************************************************)
JournalIsFinal ==
  \A o \in Ops :
    /\ Len(journal[o]) <= Len(journal'[o])
    /\ \A k \in DOMAIN journal[o] : journal'[o][k] = journal[o][k]
    /\ Finished(o) => journal'[o] = journal[o]

TerminalIsFinal == [][JournalIsFinal]_vars

(***************************************************************************)
(* A Session object drives one Operation at a time, the one it holds as    *)
(* #active.                                                                *)
(***************************************************************************)
OneDriver == \A o \in Ops : Driving(o) => active[owner[o]] = o

(***************************************************************************)
(* A prompt starts a new Operation only when every Operation its Session   *)
(* object drove, and every one a crash interrupted, is over.  (Two Session *)
(* objects over one journal are another matter: NoRecoveryWhileDriving.)   *)
(***************************************************************************)
AdmissionAfterFinish ==
  [][\A o, p \in Ops :
       /\ ~Accepted(o) /\ Accepted(o)'
       /\ Accepted(p)
       /\ owner[p] = owner'[o] \/ phase[p] = "lost"
       => Finished(p)]_vars

(***************************************************************************)
(* An open Session belongs to the connection that opened it: no other      *)
(* connection holds its controller slot, and nobody took it away.          *)
(***************************************************************************)
ControllerHeld ==
  \A s \in Sessions : ~closed[s] => controller = holder[s]

(***************************************************************************)
(* ... and the slot never outlives its use: who holds it has the Session   *)
(* open or is opening it.  A leaked slot would refuse every other client   *)
(* for the life of the process.                                            *)
(***************************************************************************)
ControllerInUse ==
  controller # NoConnection =>
    \/ \E s \in Sessions : ~closed[s] /\ holder[s] = controller
    \/ \E r \in Requests : stage[r] \in {"claimed", "finalizing"} /\ ConnectionOf[r] = controller

(***************************************************************************)
(* After a crash, a registered Session has decided every Operation the     *)
(* crash interrupted, or is parked on the tool whose effect is unknown.    *)
(***************************************************************************)
RecoveryDecides ==
  live # 0 =>
    \A o \in Ops : phase[o] = "lost" =>
      Finished(o) \/ (indeterminate[live] /\ Incomplete(o))

(***************************************************************************)
(* Recovery finishes an Operation only with what the journal proves: the   *)
(* durable last reply, or "interrupted"; never over an unknown effect.     *)
(***************************************************************************)
LatestReply(o) ==
  {journal[o][k].entry : k \in {j \in DOMAIN journal[o] : IsLatestAttempt(journal[o], j)}}

RecoveryInventsNothing ==
  [][\A o \in Ops : phase[o] = "lost" /\ ~Finished(o) /\ Finished(o)' =>
       LET outcome == journal'[o][Len(journal'[o])].outcome
       IN  /\ ~Incomplete(o)
           /\ \/ outcome = "interrupted"
              \/ \E e \in LatestReply(o) \cap entries : ending[e] = outcome]_vars

(***************************************************************************)
(* Read through the journal alone, every Operation keeps the promise of    *)
(* OperationLifecycle.                                                     *)
(***************************************************************************)
StatusOf(o) ==
  IF Finished(o) THEN journal[o][Len(journal[o])].outcome
  ELSE IF Accepted(o) THEN "open" ELSE "none"

Lifecycle ==
  INSTANCE OperationLifecycle WITH
    Operation <- Ops,
    Effect    <- Attempts,
    Outcome   <- TerminalOutcome,
    status    <- [o \in Ops |-> StatusOf(o)],
    intended  <- [o \in Ops |-> Dispatched(o)],
    performed <- [o \in Ops |-> [t \in Attempts |-> ran[<<o, t>>]]]

ImplementsLifecycle == Lifecycle!Spec

-----------------------------------------------------------------------------
(***************************************************************************)
(* A cancelled run stops, also when its tool or the user never answers:    *)
(* the abort reaches whatever the run is waiting for.                      *)
(***************************************************************************)
CancelStopsRun ==
  \A o \in Ops : abort[o] ~> phase[o] \notin Running

(***************************************************************************)
(* Every run that ended is decided: its Operation gets a terminal record,  *)
(* or its Session object is parked, whatever waits in the Session's queue  *)
(* before the completion.  completeOperation gives up, and leaves the      *)
(* Operation #active, only over a database that failed or a journal that   *)
(* cannot be read (host.ts:1552-1572).                                     *)
(***************************************************************************)
GivenUp(o) ==
  /\ phase[o] = "done"
  /\ owner[o] # 0 /\ active[owner[o]] = o
  /\ faults > 0 \/ Unreadable(Verdicts)

Stopped(o) == phase[o] \in {"ended", "unopened", "completing"}

EndedIsDecided ==
  \A o \in Ops : Stopped(o) ~>
    \/ Finished(o) \/ GivenUp(o)
    \/ owner[o] # 0 /\ Parked(owner[o])

-----------------------------------------------------------------------------
(***************************************************************************)
(* What comments of host.ts say of suspended and live Sessions.            *)
(***************************************************************************)
(* host.ts:702: the reducer can safely recover a suspended Session. *)
SuspendedIsRecoverable ==
  \A s \in Sessions :
    suspended[s] /\ active[s] # 0 /\ ~Finished(active[s]) => ~Unreadable(Verdicts)

(* host.ts:747: no journal recovery while a driver is live. *)
NoRecoveryWhileDriving ==
  \A r \in Requests : stage[r] \in {"claimed", "finalizing"} =>
    \A o \in Ops : ~Driving(o)
=============================================================================
