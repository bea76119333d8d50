----------------------------- MODULE OperationRun -----------------------------
(***************************************************************************)
(* One execution of an accepted Operation: the Coding Agent that the       *)
(* driver opens, its agent loop, and the Effect Boundary that makes the    *)
(* intent of every external effect durable before the effect               *)
(* (app/server/src/agents/coding-agent.ts, packages/agent/src/core,        *)
(* app/server/src/operations/effect-boundary.ts).                          *)
(*                                                                         *)
(* A reply asks for at most one tool call, named after the attempt that    *)
(* produced it.  Compaction, capability notices and streaming are left     *)
(* out.  Everything here is volatile: Crash (RuntimeSession) loses it.     *)
(***************************************************************************)
EXTENDS SessionPersistence

VARIABLES
  phase,     \* phase[o]: where the execution stands
  turn,      \* turn[o]: model attempts made
  reply,     \* reply[o]: what the last attempt produced
  repair,    \* repair[o]: retries of the current turn, none / repaired / recovered
  inject,    \* inject[o]: inputs the next turn starts with
  inbox,     \* inbox[o]: the agent's steering and follow-up queues
  held,      \* held[o]: revision the agent's Session handle last saw
  reserved,  \* reserved[o]: the pending tool result has a T1 reservation
  abort,     \* abort[o]: the run's abort signal
  late,      \* late[o]: a tool call that outlived the abort of its run
  last,      \* last[o]: how the last assistant message of the run ended
  ran        \* ran[c]: times the implementation of tool call c was invoked

runVars == <<phase, turn, reply, repair, inject, inbox, held, reserved, abort, late, last>>

(* Phases in which the agent holds an active run: abort() and steer() act. *)
Running ==
  {"starting", "turn", "asking", "replied", "gate", "t1", "tool", "result", "drain",
   "limit", "failing", "closing"}

Phase ==
  Running \cup {"none", "accepted", "opening", "built", "unopened", "ended", "completing", "done", "lost"}

(***************************************************************************)
(* What a model attempt can produce.  "cut" is an error or an abort that   *)
(* left tool calls in the message, "violation" a text-based tool call.     *)
(***************************************************************************)
Reply == {"none", "final", "tools", "failed", "aborted", "cut", "violation"}

LastMessage == {"none", "toolUse"} \cup TerminalOutcome

Calls == Ops \X Attempts

RunTypeOK ==
  /\ phase \in [Ops -> Phase]
  /\ turn \in [Ops -> 0..MaxAttempts]
  /\ reply \in [Ops -> Reply]
  /\ repair \in [Ops -> {"none", "repaired", "recovered"}]
  /\ inject \in [Ops -> Seq(Inputs)]
  /\ inbox \in [Ops -> Seq(Inputs)]
  /\ held \in [Ops -> Nat]
  /\ reserved \in [Ops -> BOOLEAN]
  /\ abort \in [Ops -> BOOLEAN]
  /\ late \in [Ops -> {"none", "gate", "t1"}]
  /\ last \in [Ops -> LastMessage]
  /\ ran \in [Calls -> Nat]

RunInit ==
  /\ phase = [o \in Ops |-> "none"]
  /\ turn = [o \in Ops |-> 0]
  /\ reply = [o \in Ops |-> "none"]
  /\ repair = [o \in Ops |-> "none"]
  /\ inject = [o \in Ops |-> <<>>]
  /\ inbox = [o \in Ops |-> <<>>]
  /\ held = [o \in Ops |-> 0]
  /\ reserved = [o \in Ops |-> FALSE]
  /\ abort = [o \in Ops |-> FALSE]
  /\ late = [o \in Ops |-> "none"]
  /\ last = [o \in Ops |-> "none"]
  /\ ran = [c \in Calls |-> 0]

(* Operation o moves from one phase to another. *)
Goes(o, from, to) ==
  /\ phase[o] = from
  /\ phase' = [phase EXCEPT ![o] = to]

-----------------------------------------------------------------------------
(***************************************************************************)
(* openOperation: the agent loads the Session through a new handle.  The   *)
(* inputs queued so far become the run's first messages.                   *)
(***************************************************************************)
BuildAgent(o) ==
  /\ Goes(o, "opening", "built")
  /\ held' = [held EXCEPT ![o] = revision]
  /\ UNCHANGED <<turn, reply, repair, inject, inbox, reserved, abort, late, last, ran>>
  /\ UNCHANGED persistenceVars

(* Configuration, extensions or the Session could not be opened. *)
BuildFails(o) ==
  /\ Goes(o, "opening", "unopened")
  /\ last' = [last EXCEPT ![o] = "failed"]
  /\ UNCHANGED <<turn, reply, repair, inject, inbox, held, reserved, abort, late, ran>>
  /\ UNCHANGED persistenceVars

(* advance: the run starts once the capability inventory was read. *)
StartRun(o) ==
  /\ Goes(o, "built", "starting")
  /\ UNCHANGED <<turn, reply, repair, inject, inbox, held, reserved, abort, late, last, ran>>
  /\ UNCHANGED persistenceVars

(* driveAgentLoop: one steering message joins the first turn. *)
BeginLoop(o) ==
  /\ Goes(o, "starting", "turn")
  /\ IF inbox[o] = <<>> THEN UNCHANGED <<inject, inbox>>
       ELSE /\ inject' = [inject EXCEPT ![o] = Append(@, Head(inbox[o]))]
            /\ inbox' = [inbox EXCEPT ![o] = Tail(@)]
  /\ UNCHANGED <<turn, reply, repair, held, reserved, abort, late, last, ran>>
  /\ UNCHANGED persistenceVars

-----------------------------------------------------------------------------
(***************************************************************************)
(* runTurn: inject the pending inputs under their reserved entry ids.      *)
(***************************************************************************)
InjectInput(o) ==
  /\ phase[o] = "turn"
  /\ inject[o] # <<>>
  /\ AppendEntries({QueuedEntry(o, Head(inject[o]))}, held[o])
  /\ inject' = [inject EXCEPT ![o] = Tail(@)]
  /\ held' = [held EXCEPT ![o] = revision']
  /\ UNCHANGED <<phase, turn, reply, repair, inbox, reserved, abort, late, last, ran, ending>>

InjectFails(o) ==
  /\ inject[o] # <<>>
  /\ Goes(o, "turn", "failing")
  /\ EntryRefused(held[o])
  /\ UNCHANGED <<turn, reply, repair, inject, inbox, held, reserved, abort, late, last, ran>>

(***************************************************************************)
(* beforeModelEffect: the attempt and the id of its reply are durable      *)
(* before the request leaves.                                              *)
(***************************************************************************)
AttemptModel(o) ==
  /\ inject[o] = <<>>
  /\ turn[o] < MaxAttempts
  /\ Goes(o, "turn", "asking")
  /\ AppendRecord(o, ModelAttempted(o, turn[o] + 1, AssistantEntry(o, turn[o] + 1)))
  /\ turn' = [turn EXCEPT ![o] = @ + 1]
  /\ UNCHANGED <<reply, repair, inject, inbox, held, reserved, abort, late, last, ran>>

AttemptRefused(o) ==
  /\ inject[o] = <<>>
  /\ turn[o] < MaxAttempts
  /\ Goes(o, "turn", "failing")
  /\ RecordRefused(o)
  /\ UNCHANGED <<turn, reply, repair, inject, inbox, held, reserved, abort, late, last, ran>>

(***************************************************************************)
(* The provider's stream ends and afterModelEffect settles its usage.  An  *)
(* aborted reply needs an abort signal; the bound leaves room for the      *)
(* retry a protocol violation is owed.                                     *)
(***************************************************************************)
SettleUsage(o, r) ==
  /\ r # "none"
  /\ r = "aborted" => abort[o]
  /\ r = "violation" => repair[o] # "none" \/ turn[o] < MaxAttempts
  /\ Goes(o, "asking", "replied")
  /\ AppendRecord(o, UsageSettled(o, turn[o]))
  /\ reply' = [reply EXCEPT ![o] = r]
  /\ UNCHANGED <<turn, repair, inject, inbox, held, reserved, abort, late, last, ran>>

SettleRefused(o) ==
  /\ Goes(o, "asking", "failing")
  /\ RecordRefused(o)
  /\ UNCHANGED <<turn, reply, repair, inject, inbox, held, reserved, abort, late, last, ran>>

(***************************************************************************)
(* streamAssistantResponse: one repair of a protocol violation, then one   *)
(* recovery of a request that failed before its stream started.  The       *)
(* discarded attempt's entry never becomes durable.                        *)
(***************************************************************************)
DiscardReply(o) ==
  /\ turn[o] < MaxAttempts
  /\ \/ /\ reply[o] = "violation" /\ repair[o] = "none"
        /\ repair' = [repair EXCEPT ![o] = "repaired"]
     \/ /\ reply[o] = "failed" /\ repair[o] # "recovered"
        /\ repair' = [repair EXCEPT ![o] = "recovered"]
  /\ Goes(o, "replied", "turn")
  /\ UNCHANGED <<turn, reply, inject, inbox, held, reserved, abort, late, last, ran>>
  /\ UNCHANGED persistenceVars

(* The repair failed too: the run stops, and neither the reply nor the *)
(* message that says so enters the transcript.                          *)
GiveUpRepair(o) ==
  /\ reply[o] = "violation" /\ repair[o] # "none"
  /\ Goes(o, "replied", "closing")
  /\ UNCHANGED <<turn, reply, repair, inject, inbox, held, reserved, abort, late, last, ran>>
  /\ UNCHANGED persistenceVars

(***************************************************************************)
(* message_end of the reply: its entry becomes durable under the reserved  *)
(* id.  Only a reply with tool calls keeps the turn going.                 *)
(***************************************************************************)
ImpliedOutcome(r) ==
  CASE r = "final"   -> "completed"
    [] r = "failed"  -> "failed"
    [] r = "aborted" -> "aborted"
    [] OTHER         -> NoOutcome

MessageEnd(o, r) ==
  CASE r = "tools" -> "toolUse"
    [] r = "cut"   -> IF abort[o] THEN "aborted" ELSE "failed"
    [] OTHER       -> ImpliedOutcome(r)

AfterReply(r) ==
  CASE r = "tools" -> "gate"
    [] r = "final" -> "drain"
    [] OTHER       -> "closing"

CommitReply(o) ==
  /\ reply[o] \notin {"none", "violation"}
  /\ Goes(o, "replied", AfterReply(reply[o]))
  /\ AppendEntries({AssistantEntry(o, turn[o])}, held[o])
  /\ ending' = [ending EXCEPT ![AssistantEntry(o, turn[o])] = ImpliedOutcome(reply[o])]
  /\ held' = [held EXCEPT ![o] = revision']
  /\ last' = [last EXCEPT ![o] = MessageEnd(o, reply[o])]
  /\ repair' = [repair EXCEPT ![o] = "none"]
  /\ UNCHANGED <<turn, reply, inject, inbox, reserved, abort, late, ran>>

CommitRefused(o) ==
  /\ reply[o] \notin {"none", "violation"}
  /\ Goes(o, "replied", "failing")
  /\ EntryRefused(held[o])
  /\ UNCHANGED <<turn, reply, repair, inject, inbox, held, reserved, abort, late, last, ran>>

-----------------------------------------------------------------------------
(***************************************************************************)
(* executeToolCall.  The call is refused before T1: unknown tool, invalid  *)
(* arguments, a middleware or the user says no, or the signal is set.      *)
(***************************************************************************)
RefuseTool(o) ==
  /\ Goes(o, "gate", "result")
  /\ reserved' = [reserved EXCEPT ![o] = FALSE]
  /\ UNCHANGED <<turn, reply, repair, inject, inbox, held, abort, late, last, ran>>
  /\ UNCHANGED persistenceVars

(* beforeToolEffect (T1): arguments and result id are durable. *)
Dispatch(o) ==
  AppendRecord(o, ToolDispatched(o, turn[o], AssistantEntry(o, turn[o]), ResultEntry(o, turn[o])))

DispatchTool(o) ==
  /\ Goes(o, "gate", "t1")
  /\ Dispatch(o)
  /\ reserved' = [reserved EXCEPT ![o] = TRUE]
  /\ UNCHANGED <<turn, reply, repair, inject, inbox, held, abort, late, last, ran>>

(* Variant: a refused T1 does not keep the tool from running. *)
DispatchRefusalIgnored(o) ==
  /\ Goes(o, "gate", "t1")
  /\ RecordRefused(o)
  /\ reserved' = [reserved EXCEPT ![o] = FALSE]
  /\ UNCHANGED <<turn, reply, repair, inject, inbox, held, abort, late, last, ran>>

DispatchRefused(o) ==
  /\ Goes(o, "gate", "result")
  /\ RecordRefused(o)
  /\ reserved' = [reserved EXCEPT ![o] = FALSE]
  /\ UNCHANGED <<turn, reply, repair, inject, inbox, held, abort, late, last, ran>>

ExecuteTool(o) ==
  /\ Goes(o, "t1", "tool")
  /\ ran' = [ran EXCEPT ![<<o, turn[o]>>] = @ + 1]
  /\ UNCHANGED <<turn, reply, repair, inject, inbox, held, reserved, abort, late, last>>
  /\ UNCHANGED persistenceVars

ToolReturns(o) ==
  /\ Goes(o, "tool", "result")
  /\ UNCHANGED <<turn, reply, repair, inject, inbox, held, reserved, abort, late, last, ran>>
  /\ UNCHANGED persistenceVars

(***************************************************************************)
(* raceAbort: the run stops waiting for the call, which goes on without it *)
(* in the middleware chain or between T1 and the tool.  The result keeps   *)
(* the reservation the call had when the run let go of it.                 *)
(***************************************************************************)
(* Variant: only the wait for the user is raced against the signal. *)
AbandonApproval(o) ==
  /\ abort[o]
  /\ Goes(o, "gate", "result")
  /\ reserved' = [reserved EXCEPT ![o] = FALSE]
  /\ late' = [late EXCEPT ![o] = "gate"]
  /\ UNCHANGED <<turn, reply, repair, inject, inbox, held, abort, last, ran>>
  /\ UNCHANGED persistenceVars

AbandonTool(o) ==
  /\ abort[o]
  /\ \E p \in {"gate", "t1", "tool"} :
       /\ Goes(o, p, "result")
       /\ reserved' = [reserved EXCEPT ![o] = p # "gate"]
       /\ late' = [late EXCEPT ![o] = IF p = "tool" THEN "none" ELSE p]
  /\ UNCHANGED <<turn, reply, repair, inject, inbox, held, abort, last, ran>>
  /\ UNCHANGED persistenceVars

(* The abandoned call reaches the Effect Boundary after its run let go. *)
LateDispatch(o) ==
  /\ late[o] = "gate"
  /\ \/ Dispatch(o) /\ late' = [late EXCEPT ![o] = "t1"]
     \/ RecordRefused(o) /\ late' = [late EXCEPT ![o] = "none"]
  /\ UNCHANGED <<phase, turn, reply, repair, inject, inbox, held, reserved, abort, last, ran>>

(* Variant: the abandoned call is invoked again. *)
LateExecuteAgain(o) ==
  /\ late[o] = "t1"
  /\ ran' = [ran EXCEPT ![<<o, turn[o]>>] = @ + 1]
  /\ UNCHANGED <<phase, turn, reply, repair, inject, inbox, held, reserved, abort, late, last>>
  /\ UNCHANGED persistenceVars

LateExecute(o) ==
  /\ late[o] = "t1"
  /\ late' = [late EXCEPT ![o] = "none"]
  /\ ran' = [ran EXCEPT ![<<o, turn[o]>>] = @ + 1]
  /\ UNCHANGED <<phase, turn, reply, repair, inject, inbox, held, reserved, abort, last>>
  /\ UNCHANGED persistenceVars

(* message_end of the result (T2), under the reserved id if there is one. *)
PublishResult(o) ==
  /\ Goes(o, "result", "drain")
  /\ AppendEntries(IF reserved[o] THEN {ResultEntry(o, turn[o])} ELSE {}, held[o])
  /\ held' = [held EXCEPT ![o] = revision']
  /\ UNCHANGED <<turn, reply, repair, inject, inbox, reserved, abort, late, last, ran, ending>>

PublishRefused(o) ==
  /\ Goes(o, "result", "failing")
  /\ EntryRefused(held[o])
  /\ UNCHANGED <<turn, reply, repair, inject, inbox, held, reserved, abort, late, last, ran>>

-----------------------------------------------------------------------------
(***************************************************************************)
(* driveAgentLoop between two turns: stop on the signal, else one steering *)
(* message, else one follow-up once no tool call is left.  A batch whose   *)
(* results all ask to terminate counts as having none left.  The next turn *)
(* may hit the iteration limit, which drops what was drained.              *)
(***************************************************************************)
StopOnAbort(o) ==
  /\ abort[o]
  /\ Goes(o, "drain", "closing")
  /\ UNCHANGED <<turn, reply, repair, inject, inbox, held, reserved, abort, late, last, ran>>
  /\ UNCHANGED persistenceVars

NextTurn(o) ==
  IF turn[o] < MaxAttempts THEN {"turn", "limit"} ELSE {"limit"}

TakeInput(o) ==
  /\ ~abort[o]
  /\ inbox[o] # <<>>
  /\ \E p \in NextTurn(o) : Goes(o, "drain", p)
  /\ inject' = [inject EXCEPT ![o] = <<Head(inbox[o])>>]
  /\ inbox' = [inbox EXCEPT ![o] = Tail(@)]
  /\ UNCHANGED <<turn, reply, repair, held, reserved, abort, late, last, ran>>
  /\ UNCHANGED persistenceVars

(* With tool results to show the model, only follow-ups may be waiting. *)
NextRequest(o) ==
  /\ ~abort[o]
  /\ reply[o] = "tools"
  /\ \E p \in NextTurn(o) : Goes(o, "drain", p)
  /\ UNCHANGED <<turn, reply, repair, inject, inbox, held, reserved, abort, late, last, ran>>
  /\ UNCHANGED persistenceVars

NothingLeft(o) ==
  /\ ~abort[o]
  /\ inbox[o] = <<>>
  /\ Goes(o, "drain", "closing")
  /\ UNCHANGED <<turn, reply, repair, inject, inbox, held, reserved, abort, late, last, ran>>
  /\ UNCHANGED persistenceVars

(* The limit message; a refused append rejects the run instead. *)
ReachLimit(o) ==
  /\ Goes(o, "limit", "closing")
  /\ \/ /\ AppendEntries({}, held[o])
        /\ held' = [held EXCEPT ![o] = revision']
        /\ last' = [last EXCEPT ![o] = "completed"]
        /\ UNCHANGED ending
     \/ /\ EntryRefused(held[o])
        /\ last' = [last EXCEPT ![o] = "failed"]
        /\ UNCHANGED held
  /\ UNCHANGED <<turn, reply, repair, inject, inbox, reserved, abort, late, ran>>

(* An append threw: the loop reports it in one unreserved message. *)
ReportFailure(o) ==
  /\ Goes(o, "failing", "closing")
  /\ last' = [last EXCEPT ![o] = "failed"]
  /\ \/ /\ AppendEntries({}, held[o])
        /\ held' = [held EXCEPT ![o] = revision']
        /\ UNCHANGED ending
     \/ EntryRefused(held[o]) /\ UNCHANGED held
  /\ UNCHANGED <<turn, reply, repair, inject, inbox, reserved, abort, late, ran>>

(***************************************************************************)
(* agent_end was emitted and finishRun clears the active run.  Until then  *)
(* the agent still accepts inputs, which nobody will drain.                *)
(***************************************************************************)
FinishRun(o) ==
  /\ Goes(o, "closing", "ended")
  /\ UNCHANGED <<turn, reply, repair, inject, inbox, held, reserved, abort, late, last, ran>>
  /\ UNCHANGED persistenceVars

(* resolveOutcome: what the driver reports from the run's messages. *)
ResolveOutcome(o) ==
  CASE last[o] = "none"    -> "failed"
    [] last[o] = "toolUse" -> "completed"
    [] OTHER               -> last[o]

(* The agent's own steps: they need neither the provider nor a tool. *)
LoopStep(o) ==
  \/ BuildAgent(o) \/ BuildFails(o) \/ StartRun(o) \/ BeginLoop(o)
  \/ InjectInput(o) \/ InjectFails(o)
  \/ AttemptModel(o) \/ AttemptRefused(o)
  \/ DiscardReply(o) \/ GiveUpRepair(o) \/ CommitReply(o) \/ CommitRefused(o)
  \/ ExecuteTool(o) \/ AbandonTool(o)
  \/ PublishResult(o) \/ PublishRefused(o)
  \/ StopOnAbort(o) \/ TakeInput(o) \/ NextRequest(o) \/ NothingLeft(o)
  \/ ReachLimit(o) \/ ReportFailure(o) \/ FinishRun(o)

(* The provider's stream ends. *)
ProviderStep(o) == (\E r \in Reply : SettleUsage(o, r)) \/ SettleRefused(o)

(* Permissions, the user and the tool decide. *)
ToolStep(o) == RefuseTool(o) \/ DispatchTool(o) \/ DispatchRefused(o) \/ ToolReturns(o)

LateStep(o) == LateDispatch(o) \/ LateExecute(o)

RunStep(o) == LoopStep(o) \/ ProviderStep(o) \/ ToolStep(o) \/ LateStep(o)
=============================================================================
