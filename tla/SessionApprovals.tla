--------------------------- MODULE SessionApprovals ---------------------------
(***************************************************************************)
(* Approvals of tool calls in one Runtime Session: the permission          *)
(* middleware of every call, the FIFO of the Operation it belongs to       *)
(* (approval-queue.ts) and the requests the Host shows to its client       *)
(* (host.ts, #pendingApprovals).  A call of a detached subagent is aborted *)
(* with the run, but a run that completes leaves it behind.                *)
(*                                                                         *)
(* A step runs from one await to the next.  A promise that is already      *)
(* settled is awaited within the step, except where the Host answers.      *)
(* Left out: calls that never reach the queue, grants saved in a project   *)
(* file, the wording of requests, and events.                              *)
(***************************************************************************)
EXTENDS Naturals, FiniteSets, Sequences

CONSTANTS
  Calls,          \* tool calls whose permission is "ask"; each asks once
  NoCall,         \* the empty slot of a queue
  OperationOf,    \* the Operation whose middleware runs the call
  Detached,       \* calls of background subagents
  Extension,      \* calls that go through evaluateExtensionPermission
  Reviewed,       \* calls in "auto" mode, which a reviewer sees first
  Rememberable,   \* calls with a suggested rule: "always allow" is offered
  ScopeOf,        \* the rule "always allow" remembers for a call
  MaxOperations,  \* Operations of the Session
  MaxCloses,      \* times the client detaches
  MaxChanges      \* changes of the configuration during the runs

Operations == 1..MaxOperations

ASSUME ApprovalAssumption ==
  /\ MaxOperations \in Nat
  /\ MaxCloses \in Nat
  /\ MaxChanges \in Nat
  /\ NoCall \notin Calls
  /\ OperationOf \in [Calls -> Operations]
  /\ Detached \subseteq Calls
  /\ Extension \subseteq Calls
  /\ Rememberable \cap Extension = {}
  /\ DOMAIN ScopeOf = Calls

Scopes == {ScopeOf[c] : c \in Calls}

VARIABLES
  active,       \* operationId of #active, 0 when there is none
  phase,        \* phase[o]: how far the Host is with Operation o
  closed,       \* #closed
  closes,       \* detaches so far
  pending,      \* #pendingApprovals: the calls whose request is shown
  queue,        \* queue[o]: the approval queue of Operation o
  aborted,      \* calls whose own signal is aborted
  controllers,  \* calls whose entry's controller is aborted (queueSignal)
  body,         \* body[c]: where the queued function of call c is
  verdict,      \* verdict[c]: what the promise of enqueue settled with
  answer,       \* answer[c]: what the client or the reviewer said
  outcome,      \* outcome[c]: what became of the tool call
  grants,       \* sessionAllowRules
  changes       \* changes of the configuration so far

hostVars == <<active, phase, closed, closes>>
callVars == <<queue, body, verdict>>
vars == <<hostVars, pending, callVars, aborted, controllers, answer, outcome,
          grants, changes>>

Phases == {"none", "running", "ending", "over", "stuck"}
Bodies == {"none", "queued", "scheduled", "review", "asked", "failing",
           "decided", "recheck", "done"}
Decisions == {"deny", "allowOnce", "alwaysAllow"}
Verdicts == Decisions \cup {"none", "rejected", "unneeded"}
Outcomes == {"none", "refused", "reread", "approved", "intended", "executed"}

Queue == [slot : Calls \cup {NoCall}, entries : Seq(Calls), cancelled : BOOLEAN]

Init ==
  /\ active = 0
  /\ phase = [o \in Operations |-> "none"]
  /\ closed = FALSE
  /\ closes = 0
  /\ pending = {}
  /\ queue = [o \in Operations |->
                [slot |-> NoCall, entries |-> <<>>, cancelled |-> FALSE]]
  /\ aborted = {}
  /\ controllers = {}
  /\ body = [c \in Calls |-> "none"]
  /\ verdict = [c \in Calls |-> "none"]
  /\ answer = [c \in Calls |-> "none"]
  /\ outcome = [c \in Calls |-> "none"]
  /\ grants = {}
  /\ changes = 0

\* What the settings say of these calls: they change between "ask" and "deny".
Policy == IF changes % 2 = 0 THEN "ask" ELSE "deny"

(***************************************************************************)
(* The queue of one Operation.                                             *)
(***************************************************************************)

CallsOf(o) == {c \in Calls : OperationOf[c] = o}
RunCalls(o) == CallsOf(o) \ Detached

\* Entries of the queue of o whose promise is open.
Unsettled(o) == {c \in CallsOf(o) : body[c] # "none" /\ verdict[c] = "none"}

\* Variant: pump starts the next entry beside the active one.
SlotIgnored(o, gone) == TRUE

\* Variant: settle forgets to free the slot.
SlotKept(o, gone) == queue[o].slot = NoCall

\* pump may start an entry once `gone` have settled.
SlotFree(o, gone) == queue[o].slot \in gone \cup {NoCall}

\* settle, then pump: `gone` settle with v and, when the slot is free, the first
\* entry that has not settled is started; settled ones before it are skipped.
Settle(o, gone, v, entries, bodies) ==
  LET waiting == {i \in DOMAIN entries :
                    entries[i] \notin gone /\ verdict[entries[i]] = "none"}
  IN
  /\ verdict' = [c \in Calls |->
        IF c \in gone /\ verdict[c] = "none" THEN v ELSE verdict[c]]
  /\ \/ \E i \in waiting :
          /\ SlotFree(o, gone)
          /\ \A j \in waiting : i <= j
          /\ queue' = [queue EXCEPT
                ![o].slot = entries[i],
                ![o].entries = SubSeq(entries, i + 1, Len(entries))]
          /\ body' = [bodies EXCEPT ![entries[i]] = "scheduled"]
     \/ /\ SlotFree(o, gone)
        /\ waiting = {}
        /\ queue' = [queue EXCEPT ![o].slot = NoCall, ![o].entries = <<>>]
        /\ body' = bodies
     \/ /\ ~SlotFree(o, gone)
        /\ queue' = [queue EXCEPT ![o].entries = entries]
        /\ body' = bodies

\* The queued function of c returns v or throws ("rejected").
Ends(c, v) ==
  Settle(OperationOf[c], {c}, v, queue[OperationOf[c]].entries,
         [body EXCEPT ![c] = "done"])

Moves(c, where) ==
  /\ body' = [body EXCEPT ![c] = where]
  /\ UNCHANGED <<queue, verdict>>

\* Variant: a cancelled queue takes entries again.
StaysOpen(o) == FALSE

IsCancelled(o) == queue[o].cancelled

\* enqueue on an open queue, and on one that cancel() has closed for good.
Call(c) ==
  LET o == OperationOf[c] IN
  /\ body[c] = "none"
  /\ c \notin aborted
  /\ IF c \in Detached THEN phase[o] # "none" ELSE phase[o] = "running"
  /\ \/ /\ ~IsCancelled(o)
        /\ Settle(o, {}, "none", Append(queue[o].entries, c),
                  [body EXCEPT ![c] = "queued"])
     \/ /\ IsCancelled(o)
        /\ verdict' = [verdict EXCEPT ![c] = "rejected"]
        /\ body' = [body EXCEPT ![c] = "done"]
        /\ UNCHANGED queue
  /\ UNCHANGED <<hostVars, pending, aborted, controllers, answer, outcome,
                 grants, changes>>

(***************************************************************************)
(* The queued function: recheck, review, request, recheck.                 *)
(***************************************************************************)

BuiltIn(c) == c \notin Extension

\* The signal requestApproval is given: the queue's for a built-in tool, the
\* call's own for an Extension tool.
RequestAborted(c) == c \in (IF BuiltIn(c) THEN controllers ELSE aborted)

\* requestApproval of the Host.
Request(c) ==
  \/ /\ ~closed
     /\ active = OperationOf[c]
     /\ ~RequestAborted(c)
     /\ pending' = pending \cup {c}
     /\ Moves(c, "asked")
  \/ /\ closed \/ active # OperationOf[c] \/ RequestAborted(c)
     /\ Ends(c, "rejected")
     /\ UNCHANGED pending

\* A rule remembered by now allows the call.
Granted(c) == ScopeOf[c] \in grants

\* The function is called; a built-in tool evaluates its permission again.
Run(c) ==
  LET ask == BuiltIn(c) => Policy = "ask" /\ ~Granted(c) IN
  /\ body[c] = "scheduled"
  /\ \/ BuiltIn(c) /\ Policy = "deny" /\ Ends(c, "rejected") /\ UNCHANGED pending
     \/ /\ BuiltIn(c) /\ Policy = "ask" /\ Granted(c)
        /\ Ends(c, "unneeded") /\ UNCHANGED pending
     \/ ask /\ c \in Reviewed /\ Moves(c, "review") /\ UNCHANGED pending
     \/ ask /\ c \notin Reviewed /\ Request(c)
  /\ UNCHANGED <<hostVars, aborted, controllers, answer, outcome, grants, changes>>

\* reviewPermission: the verdict counts unless the queue's signal is aborted; that
\* and the deadline make it "ask".
VerdictCounts(c) == c \notin controllers

\* Only the built-in path looks at the signals before it goes on.
Review(c) ==
  LET stopped == BuiltIn(c) /\ c \in controllers \cup aborted IN
  /\ body[c] = "review"
  /\ \/ stopped /\ Ends(c, "rejected") /\ UNCHANGED <<pending, answer>>
     \/ /\ ~stopped /\ VerdictCounts(c)
        /\ Ends(c, IF BuiltIn(c) THEN "rejected" ELSE "deny")
        /\ UNCHANGED <<pending, answer>>
     \/ /\ ~stopped /\ VerdictCounts(c)
        /\ answer' = [answer EXCEPT ![c] = "reviewed"]
        /\ IF BuiltIn(c) THEN Moves(c, "recheck") ELSE Ends(c, "allowOnce")
        /\ UNCHANGED pending
     \/ ~stopped /\ Request(c) /\ UNCHANGED answer
  /\ UNCHANGED <<hostVars, aborted, controllers, outcome, grants, changes>>

\* The request was answered: an Extension tool is done, a built-in tool
\* evaluates its permission once more.
Decide(c) ==
  /\ body[c] = "decided"
  /\ \/ (BuiltIn(c) => answer[c] = "deny") /\ Ends(c, answer[c])
     \/ /\ BuiltIn(c) /\ answer[c] # "deny" /\ c \in controllers \cup aborted
        /\ Ends(c, "rejected")
     \/ /\ BuiltIn(c) /\ answer[c] # "deny" /\ c \notin controllers \cup aborted
        /\ Moves(c, "recheck")
  /\ UNCHANGED <<hostVars, pending, aborted, controllers, answer, outcome,
                 grants, changes>>

\* rememberSessionAllows.
Remembered(c) == grants \cup {ScopeOf[c]}

\* The permission once more, on what is configured by then; "always allow" is
\* remembered.
Recheck(c) ==
  /\ body[c] = "recheck"
  /\ \/ Policy = "deny" /\ Ends(c, "rejected") /\ UNCHANGED grants
     \/ /\ Policy = "ask" /\ answer[c] = "alwaysAllow"
        /\ grants' = Remembered(c)
        /\ Ends(c, "alwaysAllow")
     \/ /\ Policy = "ask" /\ answer[c] # "alwaysAllow"
        /\ Ends(c, "allowOnce")
        /\ UNCHANGED grants
  /\ UNCHANGED <<hostVars, pending, aborted, controllers, answer, outcome, changes>>

\* The Host rejected the request and the function throws.
Fail(c) ==
  /\ body[c] = "failing"
  /\ Ends(c, "rejected")
  /\ UNCHANGED <<hostVars, pending, aborted, controllers, answer, outcome,
                 grants, changes>>

\* Variant: the signal is not looked at again after the answer.
AllowedThoughAborted(c) == verdict[c] \in {"unneeded", "allowOnce", "alwaysAllow"}

\* The middleware's last look at the signal and the decision.
Allowed(c) ==
  /\ c \notin aborted
  /\ verdict[c] \in IF BuiltIn(c) THEN {"unneeded", "allowOnce", "alwaysAllow"}
                   ELSE {"allowOnce"}

Becomes(c, what) ==
  /\ outcome' = [outcome EXCEPT ![c] = what]
  /\ UNCHANGED <<hostVars, pending, callVars, aborted, controllers, answer,
                 grants, changes>>

\* After `await enqueue`.  Nothing below looks at the signal again.
Return(c) ==
  /\ verdict[c] # "none"
  /\ outcome[c] = "none"
  /\ Becomes(c, IF ~Allowed(c) THEN "refused"
                ELSE IF BuiltIn(c) THEN "approved" ELSE "reread")

\* An Extension tool reads the settings once more.
Reread(c) ==
  /\ outcome[c] = "reread"
  /\ Becomes(c, IF Policy = "deny" THEN "refused" ELSE "approved")

\* A call of the run writes its intent, which its Operation refuses when it is
\* over; a subagent has no Operation.  The execution policy may not compile and
\* the intent may not be written.
Intend(c) ==
  /\ outcome[c] = "approved"
  /\ \/ Becomes(c, "refused")
     \/ /\ c \notin Detached => phase[OperationOf[c]] # "over"
        /\ Becomes(c, "intended")

\* tool.execute, when the events of the call have been awaited.
Execute(c) ==
  /\ outcome[c] = "intended"
  /\ Becomes(c, "executed")

(***************************************************************************)
(* The client.                                                             *)
(***************************************************************************)

\* An item of the Session's queue runs while no completion does.
QueueFree == \A o \in Operations : phase[o] # "ending"

\* Variant: the requests stay on the screen.
KeptAfter(gone) == pending

\* #takeApproval of the requests of `gone`.
Without(gone) == pending \ gone

\* respondToApproval with a request that is still pending.
Respond(c, decision) ==
  /\ ~closed
  /\ QueueFree
  /\ c \in pending
  /\ pending' = Without({c})
  /\ IF decision = "alwaysAllow" /\ c \notin Rememberable
     THEN Moves(c, "failing") /\ UNCHANGED answer
     ELSE /\ Moves(c, "decided")
          /\ answer' = [answer EXCEPT ![c] = decision]
  /\ UNCHANGED <<hostVars, aborted, controllers, outcome, grants, changes>>

\* close() rejects every request; the queues are left alone.
Close ==
  /\ ~closed
  /\ closes < MaxCloses
  /\ closed' = TRUE
  /\ closes' = closes + 1
  /\ pending' = {}
  /\ body' = [c \in Calls |-> IF c \in pending THEN "failing" ELSE body[c]]
  /\ UNCHANGED <<active, phase, queue, verdict, aborted, controllers, answer,
                 outcome, grants, changes>>

\* attachController.
Reopen ==
  /\ closed
  /\ closed' = FALSE
  /\ UNCHANGED <<active, phase, closes, pending, callVars, aborted, controllers,
                 answer, outcome, grants, changes>>

\* The signal of `gone`, all of Operation o, is aborted.  The listener of the
\* queue settles each open entry; the listener of the Host takes its request.
SignalAborted(o, gone) ==
  LET open == gone \cap Unsettled(o) IN
  /\ aborted' = aborted \cup gone
  /\ controllers' = controllers \cup open
  /\ pending' = Without(gone)
  /\ Settle(o, open, "rejected", queue[o].entries,
            [c \in Calls |-> IF \/ c \in open /\ body[c] = "queued"
                                \/ c \in gone \cap pending
                             THEN "done" ELSE body[c]])
  /\ UNCHANGED <<hostVars, answer, outcome, grants, changes>>

\* A subagent is detached from its tool call, not from the signal of the run; a
\* run that has ended can no longer be aborted.
AbortRun(o) ==
  /\ phase[o] = "running"
  /\ ~(CallsOf(o) \subseteq aborted)
  /\ SignalAborted(o, CallsOf(o))

\* stopSubagent.
StopSubagent(c) ==
  /\ c \in Detached \ aborted
  /\ phase[OperationOf[c]] # "none"
  /\ SignalAborted(OperationOf[c], {c})

(***************************************************************************)
(* The Operation.                                                          *)
(***************************************************************************)

StartOperation(o) ==
  /\ active = 0
  /\ phase[o] = "none"
  /\ \A p \in Operations : p < o => phase[p] # "none"
  /\ active' = o
  /\ phase' = [phase EXCEPT ![o] = "running"]
  /\ UNCHANGED <<closed, closes, pending, callVars, aborted, controllers, answer,
                 outcome, grants, changes>>

\* The tool has been called, or the call has failed.
Decided(c) == outcome[c] \in {"executed", "refused"}

\* The run is over and completeOperation begins: it rejects the requests of the
\* Operation and cancels its queue.  An aborted run leaves its calls behind.
CancelApprovals(o) ==
  LET gone == Unsettled(o) IN
  /\ phase[o] = "running"
  /\ \A c \in RunCalls(o) : body[c] = "none" \/ c \in aborted \/ Decided(c)
  /\ phase' = [phase EXCEPT ![o] = "ending"]
  /\ pending' = Without(CallsOf(o))
  /\ controllers' = controllers \cup {c \in gone : c = queue[o].slot}
  /\ queue' = [queue EXCEPT ![o] =
                 [slot |-> NoCall, entries |-> <<>>, cancelled |-> TRUE]]
  /\ verdict' = [c \in Calls |-> IF c \in gone THEN "rejected" ELSE verdict[c]]
  /\ body' = [c \in Calls |-> IF \/ c \in gone /\ body[c] = "queued"
                                 \/ c \in pending \cap CallsOf(o)
                              THEN "done" ELSE body[c]]
  /\ UNCHANGED <<active, closed, closes, aborted, answer, outcome, grants, changes>>

\* The journal is read and the terminal record written.
FinishOperation(o) ==
  /\ phase[o] = "ending"
  /\ phase' = [phase EXCEPT ![o] = "over"]
  /\ active' = 0
  /\ UNCHANGED <<closed, closes, pending, callVars, aborted, controllers, answer,
                 outcome, grants, changes>>

\* The journal cannot be read or written, or holds pending inputs: #active stays.
KeepOperation(o) ==
  /\ phase[o] = "ending"
  /\ phase' = [phase EXCEPT ![o] = "stuck"]
  /\ UNCHANGED <<active, closed, closes, pending, callVars, aborted, controllers,
                 answer, outcome, grants, changes>>

\* The configuration file changes under the run.
ChangePolicy ==
  /\ changes < MaxChanges
  /\ changes' = changes + 1
  /\ UNCHANGED <<hostVars, pending, callVars, aborted, controllers, answer,
                 outcome, grants>>

BodyStep(c) == Run(c) \/ Review(c) \/ Decide(c) \/ Recheck(c) \/ Fail(c)
CallStep(c) == Return(c) \/ Reread(c) \/ Intend(c) \/ Execute(c)

Next ==
  \/ \E c \in Calls : Call(c) \/ BodyStep(c) \/ CallStep(c) \/ StopSubagent(c)
  \/ \E c \in Calls, d \in Decisions : Respond(c, d)
  \/ \E o \in Operations : \/ StartOperation(o) \/ AbortRun(o)
                           \/ CancelApprovals(o) \/ FinishOperation(o)
                           \/ KeepOperation(o)
  \/ Close \/ Reopen \/ ChangePolicy

Spec == Init /\ [][Next]_vars

\* Microtasks and the reviewer's deadline; the store answers; and, an assumption
\* about the client, a request that stays on the screen is answered.
Fairness ==
  /\ \A c \in Calls : /\ WF_vars(BodyStep(c))
                      /\ WF_vars(CallStep(c))
                      /\ WF_vars(\E d \in Decisions : Respond(c, d))
  /\ \A o \in Operations : WF_vars(FinishOperation(o) \/ KeepOperation(o))

FairSpec == Spec /\ Fairness

(***************************************************************************)
(* Properties.                                                             *)
(***************************************************************************)

TypeOK ==
  /\ active \in {0} \cup Operations
  /\ phase \in [Operations -> Phases]
  /\ closed \in BOOLEAN
  /\ closes \in 0..MaxCloses
  /\ pending \subseteq Calls
  /\ queue \in [Operations -> Queue]
  /\ aborted \subseteq Calls
  /\ controllers \subseteq Calls
  /\ body \in [Calls -> Bodies]
  /\ verdict \in [Calls -> Verdicts]
  /\ answer \in [Calls -> Decisions \cup {"none", "reviewed"}]
  /\ outcome \in [Calls -> Outcomes]
  /\ grants \subseteq Scopes
  /\ changes \in 0..MaxChanges

\* The FIFO of an Operation shows its requests one at a time, also when its
\* entries are aborted, or the queue is cancelled, between two awaits.  (For the
\* Session as a whole, as approval-queue.ts:4 has it, this is not so: a request
\* that was LeftBehind may stand beside one of the next Operation.)
OneRequestShown ==
  \A c, d \in pending : OperationOf[c] = OperationOf[d] => c = d

\* The one request that nobody waits for: an Extension tool of a detached subagent
\* was under review when its Operation ended.  Its queue is cancelled, but the
\* request is made with the signal of the call, which is not aborted.
LeftBehind(c) ==
  /\ c \in Detached \cap Extension
  /\ c \in controllers \ aborted
  /\ phase[OperationOf[c]] \notin {"none", "running"}

\* A request is shown only while its Operation runs and the call behind it still
\* waits for the answer.
AnswerIsAwaited ==
  \A c \in pending :
    \/ verdict[c] = "none" /\ phase[OperationOf[c]] = "running"
    \/ LeftBehind(c)

\* settle frees the slot and starts the next entry: no entry waits in a queue
\* with a free slot, and what holds the slot has not settled.
QueueNeverIdle ==
  \A o \in Operations :
    LET q == queue[o] IN
    /\ q.slot = NoCall => q.entries = <<>>
    /\ q.slot # NoCall => verdict[q.slot] = "none"

\* An Operation that is over keeps no call waiting in its queue.
CancelSettles ==
  \A o \in Operations :
    phase[o] \in {"ending", "over", "stuck"} => Unsettled(o) = {}

\* A tool runs only if the client, the reviewer or a remembered rule has allowed
\* it, and never when the call was aborted before the middleware's last look.  (An
\* abort after it, during the awaits before tool.execute, no longer stops the tool.)
Consent(c) ==
  \/ answer[c] \in {"allowOnce", "alwaysAllow", "reviewed"}
  \/ BuiltIn(c) /\ ScopeOf[c] \in grants

ExecutesWithConsent ==
  [][\A c \in Calls :
       /\ outcome[c] # "executed" /\ outcome'[c] = "executed" => Consent(c)
       /\ outcome[c] = "none" /\ c \in aborted => outcome'[c] \in {"none", "refused"}
       /\ outcome[c] = "refused" => outcome'[c] = "refused"]_vars

\* If the client answers, every call is executed or refused, whatever was aborted,
\* closed or finished meanwhile.
EveryCallDecided ==
  \A c \in Calls : body[c] # "none" ~> Decided(c)
=============================================================================
