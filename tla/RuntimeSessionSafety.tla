------------------------ MODULE RuntimeSessionSafety ------------------------
(***************************************************************************)
(* Safety of RuntimeSession for every value of its constants: types, the   *)
(* journal that is append-only and closed by its terminal record, one      *)
(* driver per Session object, the controller slot of the Session, and the  *)
(* intent that precedes every effect, with the refinement of the lifecycle *)
(* of an Operation that rests on it; then the journal the reducer can      *)
(* always read, what recovery decides, and what a terminal record may      *)
(* close over.                                                             *)
(***************************************************************************)
EXTENDS RuntimeSession, TLAPS

LEMMA LastIsTerminal ==
  ASSUME NEW records, NEW durable, ~Malformed(records, durable), IsFinished(records)
  PROVE  /\ Len(records) \in DOMAIN records
         /\ records[Len(records)].type = "operation_finished"
BY DEF Malformed, IsFinished, Of

LEMMA VerdictType ==
  ASSUME PersistenceTypeOK, NEW o \in Ops
  PROVE  VerdictOf(o) \in Verdict
<1> DEFINE records == journal[o]
<1>1. records \in Seq(Record)
  BY DEF PersistenceTypeOK
<1>2. ASSUME NEW i \in DOMAIN records, records[i].type = "operation_finished"
      PROVE  records[i].outcome \in TerminalOutcome
  <2>1. records[i] \in Record
    BY <1>1
  <2> QED BY <2>1, <1>2 DEF Record
<1>3. ASSUME NEW i \in DOMAIN records, records[i].type = "model_attempted"
      PROVE  records[i].entry \in AssistantEntries
  <2>1. records[i] \in Record
    BY <1>1
  <2> QED BY <2>1, <1>3 DEF Record
<1>4. ASSUME ~Malformed(records, entries), IsFinished(records)
      PROVE  RecoverFinished(records, entries) \in Verdict
  BY <1>2, <1>4, LastIsTerminal DEF RecoverFinished, Corrupted, Open, Terminal, Verdict, VerdictStatus
<1>5. RecoverOpen(records, entries, ending) \in Verdict
  <2> DEFINE latest == {records[i].entry : i \in {j \in DOMAIN records : IsLatestAttempt(records, j)}}
             ended == {e \in latest : ending[e] # NoOutcome}
             pending == PendingInputs(records, entries) # {}
  <2>1. latest \subseteq AssistantEntries
    BY <1>3 DEF IsLatestAttempt, Of
  <2>2. \A e \in ended : ending[e] \in TerminalOutcome
    BY <2>1 DEF PersistenceTypeOK
  <2>3. \A e \in ended : Terminal(ending[e], "inferred") \in Verdict
    BY <2>2 DEF Terminal, Verdict, VerdictStatus
  <2>4. ended # {} => (CHOOSE e \in ended : TRUE) \in ended
    OBVIOUS
  <2>5. pending \in BOOLEAN
    OBVIOUS
  <2>6. \A p \in BOOLEAN : /\ Open("provider_interrupted", p) \in Verdict
                           /\ Open("ready", p) \in Verdict
    BY DEF Open, Verdict, VerdictStatus
  <2>7. Corrupted \in Verdict
    BY DEF Corrupted, Open, Verdict, VerdictStatus
  <2> HIDE DEF latest, ended, pending
  <2>8. RecoverOpen(records, entries, ending) =
          IF latest \ entries # {} THEN Open("provider_interrupted", pending)
          ELSE IF ended = {} THEN Open("ready", pending)
          ELSE IF pending THEN Corrupted
          ELSE Terminal(ending[CHOOSE e \in ended : TRUE], "inferred")
    BY DEF RecoverOpen, latest, ended, pending
  <2> QED BY <2>3, <2>4, <2>5, <2>6, <2>7, <2>8
<1>6. Corrupted \in Verdict /\ Open("indeterminate_tool", FALSE) \in Verdict /\ NoVerdict \in Verdict
  BY DEF Corrupted, NoVerdict, Open, Verdict, VerdictStatus
<1>7. RecoverOperation(records, entries, ending) \in Verdict
  BY <1>4, <1>5, <1>6 DEF RecoverOperation
<1> QED BY <1>6, <1>7 DEF VerdictOf

-----------------------------------------------------------------------------
(* A run that has asked the model, and a call it abandoned, know their attempt. *)
TurnKnown ==
  \A o \in Ops :
    \/ phase[o] \in {"asking", "replied", "gate", "t1", "tool", "result"}
    \/ late[o] # "none"
    => turn[o] \in Attempts

(* A work item that has read its Operation names one. *)
Known(w) ==
  /\ w.step \in {"deliver", "finish", "abort"} => w.op \in Ops
  /\ w.step = "deliver" => w.input \in Inputs

WorkKnown == \A s \in Sessions : Known(work[s])

TypeInv == TypeOK /\ TurnKnown /\ WorkKnown

LEMMA RecordTypes ==
  ASSUME NEW o \in Ops
  PROVE  /\ \A t \in Attempts :
              /\ ModelAttempted(o, t, AssistantEntry(o, t)) \in Record
              /\ UsageSettled(o, t) \in Record
              /\ ToolDispatched(o, t, AssistantEntry(o, t), ResultEntry(o, t)) \in Record
         /\ \A i \in Inputs : InputQueued(o, i, QueuedEntry(o, i)) \in Record
         /\ \A outcome \in TerminalOutcome : OperationFinished(o, outcome) \in Record
         /\ OperationAccepted(o, InputEntry(o)) \in Record
BY DEF Record, ModelAttempted, UsageSettled, ToolDispatched, InputQueued, OperationFinished,
       OperationAccepted, Entry, AssistantEntries, AssistantEntry, ResultEntry, QueuedEntry,
       InputEntry

LEMMA EntryTypes ==
  ASSUME NEW o \in Ops
  PROVE  /\ \A t \in Attempts : AssistantEntry(o, t) \in AssistantEntries
         /\ \A t \in Attempts : AssistantEntry(o, t) \in Entry /\ ResultEntry(o, t) \in Entry
         /\ \A i \in Inputs : QueuedEntry(o, i) \in Entry
         /\ InputEntry(o) \in Entry
BY DEF Entry, AssistantEntries, AssistantEntry, ResultEntry, QueuedEntry, InputEntry

LEMMA WriteTypes ==
  ASSUME PersistenceTypeOK
  PROVE  /\ UNCHANGED persistenceVars => PersistenceTypeOK'
         /\ DatabaseFails => PersistenceTypeOK'
         /\ \A o \in Ops : RecordRefused(o) => PersistenceTypeOK'
         /\ \A held0 : EntryRefused(held0) => PersistenceTypeOK'
         /\ \A o \in Ops, record \in Record : AppendRecord(o, record) => PersistenceTypeOK'
         /\ \A new \in SUBSET Entry : \A held0 :
              AppendEntries(new, held0) /\ UNCHANGED ending => PersistenceTypeOK'
<1> USE BoundsAssumption DEF PersistenceTypeOK, persistenceVars
<1>1. DatabaseFails => PersistenceTypeOK'
  BY DEF DatabaseFails
<1>2. UNCHANGED persistenceVars => PersistenceTypeOK'
  OBVIOUS
<1>3. \A o \in Ops : RecordRefused(o) => PersistenceTypeOK'
  BY <1>1, <1>2 DEF RecordRefused
<1>4. \A held0 : EntryRefused(held0) => PersistenceTypeOK'
  BY <1>1, <1>2 DEF EntryRefused
<1>5. ASSUME NEW o \in Ops, NEW record \in Record, AppendRecord(o, record)
      PROVE  PersistenceTypeOK'
  BY <1>5 DEF AppendRecord
<1>6. ASSUME NEW new \in SUBSET Entry, NEW held0, AppendEntries(new, held0), UNCHANGED ending
      PROVE  PersistenceTypeOK'
  BY <1>6 DEF AppendEntries
<1> QED BY <1>1, <1>2, <1>3, <1>4, <1>5, <1>6

LEMMA OutcomeTypes ==
  ASSUME NEW o \in Ops, NEW r \in Reply
  PROVE  /\ ImpliedOutcome(r) \in TerminalOutcome \cup {NoOutcome}
         /\ r \notin {"none", "violation"} => MessageEnd(o, r) \in LastMessage
         /\ AfterReply(r) \in {"gate", "drain", "closing"}
BY DEF ImpliedOutcome, MessageEnd, AfterReply, Reply, LastMessage, TerminalOutcome, NoOutcome

LEMMA RunTypes ==
  ASSUME TypeInv, NEW o \in Ops, RunAlone(o)
  PROVE  TypeInv'
<1> DEFINE Goal == PersistenceTypeOK' /\ RunTypeOK' /\ TurnKnown'
<1> USE BoundsAssumption, WriteTypes
    DEF TypeInv, TypeOK, RunTypeOK, TurnKnown, Phase, Running, Goes
<1> SUFFICES Goal
  BY DEF RunAlone, SessionTypeOK, HostTypeOK, WorkKnown, sessionVars, operationVars,
         hostVars, boundVars, Work
<1>1. CASE BuildAgent(o)
  BY <1>1 DEF BuildAgent, PersistenceTypeOK
<1>2. CASE BuildFails(o)
  BY <1>2 DEF BuildFails, LastMessage, TerminalOutcome
<1>3. CASE StartRun(o)
  BY <1>3 DEF StartRun
<1>31. CASE BeginLoop(o)
  <2>1. CASE inbox[o] = <<>>
    BY <1>31, <2>1 DEF BeginLoop
  <2>2. CASE inbox[o] # <<>>
    <3>1. inbox[o] \in Seq(Inputs) /\ inject[o] \in Seq(Inputs)
      OBVIOUS
    <3>2. Head(inbox[o]) \in Inputs /\ Tail(inbox[o]) \in Seq(Inputs)
      BY <2>2, <3>1
    <3>3. Append(inject[o], Head(inbox[o])) \in Seq(Inputs)
      BY <3>1, <3>2
    <3>4. inject' \in [Ops -> Seq(Inputs)] /\ inbox' \in [Ops -> Seq(Inputs)]
      BY <1>31, <2>2, <3>2, <3>3 DEF BeginLoop
    <3> QED BY <1>31, <3>4 DEF BeginLoop
  <2> QED BY <2>1, <2>2
<1>4. CASE InjectInput(o)
  BY <1>4, EntryTypes DEF InjectInput, AppendEntries, PersistenceTypeOK
<1>5. CASE InjectFails(o)
  BY <1>5 DEF InjectFails
<1>6. CASE AttemptModel(o)
  BY <1>6, RecordTypes DEF AttemptModel, Attempts
<1>7. CASE AttemptRefused(o)
  BY <1>7 DEF AttemptRefused
<1>8. CASE DiscardReply(o)
  BY <1>8 DEF DiscardReply
<1>9. CASE GiveUpRepair(o)
  BY <1>9 DEF GiveUpRepair, AppendEntries, PersistenceTypeOK
<1>10. CASE CommitReply(o)
  <2>1. turn[o] \in Attempts /\ reply[o] \in Reply /\ reply[o] \notin {"none", "violation"}
    BY <1>10 DEF CommitReply
  <2>2. PersistenceTypeOK'
    BY <1>10, <2>1, EntryTypes, OutcomeTypes DEF CommitReply, AppendEntries, PersistenceTypeOK
  <2>3. held'[o] \in Nat
    BY <1>10 DEF CommitReply, AppendEntries, PersistenceTypeOK
  <2>4. MessageEnd(o, reply[o]) \in LastMessage /\ AfterReply(reply[o]) \in {"gate", "drain", "closing"}
    BY <2>1, OutcomeTypes
  <2>5. RunTypeOK'
    BY <1>10, <2>3, <2>4 DEF CommitReply
  <2>6. TurnKnown'
    BY <1>10, <2>1 DEF CommitReply
  <2> QED BY <2>2, <2>5, <2>6
<1>11. CASE CommitRefused(o)
  BY <1>11 DEF CommitRefused
<1>12. CASE ExecuteTool(o)
  BY <1>12 DEF ExecuteTool, Calls
<1>13. CASE AbandonTool(o)
  BY <1>13 DEF AbandonTool
<1>14. CASE PublishResult(o)
  BY <1>14, EntryTypes DEF PublishResult, AppendEntries, PersistenceTypeOK
<1>15. CASE PublishRefused(o)
  BY <1>15 DEF PublishRefused
<1>16. CASE StopOnAbort(o)
  BY <1>16 DEF StopOnAbort
<1>17. CASE TakeInput(o)
  BY <1>17 DEF TakeInput, NextTurn
<1>18. CASE NextRequest(o)
  BY <1>18 DEF NextRequest, NextTurn
<1>19. CASE NothingLeft(o)
  BY <1>19 DEF NothingLeft
<1>20. CASE ReachLimit(o)
  <2>1. PersistenceTypeOK'
    BY <1>20 DEF ReachLimit
  <2>2. held' \in [Ops -> Nat]
    BY <1>20 DEF ReachLimit, AppendEntries, PersistenceTypeOK
  <2>3. last' \in [Ops -> LastMessage]
    BY <1>20 DEF ReachLimit, LastMessage, TerminalOutcome
  <2> QED BY <1>20, <2>1, <2>2, <2>3 DEF ReachLimit
<1>21. CASE ReportFailure(o)
  <2>1. PersistenceTypeOK'
    BY <1>21 DEF ReportFailure
  <2>2. held' \in [Ops -> Nat]
    BY <1>21 DEF ReportFailure, AppendEntries, PersistenceTypeOK
  <2>3. last' \in [Ops -> LastMessage]
    BY <1>21 DEF ReportFailure, LastMessage, TerminalOutcome
  <2> QED BY <1>21, <2>1, <2>2, <2>3 DEF ReportFailure
<1>22. CASE FinishRun(o)
  BY <1>22 DEF FinishRun
<1>23. ASSUME NEW r \in Reply, SettleUsage(o, r) PROVE Goal
  BY <1>23, RecordTypes DEF SettleUsage
<1>24. CASE SettleRefused(o)
  BY <1>24 DEF SettleRefused
<1>25. CASE RefuseTool(o)
  BY <1>25 DEF RefuseTool
<1>26. CASE DispatchTool(o)
  BY <1>26, RecordTypes DEF DispatchTool, Dispatch
<1>27. CASE DispatchRefused(o)
  BY <1>27 DEF DispatchRefused
<1>28. CASE ToolReturns(o)
  BY <1>28 DEF ToolReturns
<1>29. CASE LateDispatch(o)
  BY <1>29, RecordTypes DEF LateDispatch, Dispatch
<1>30. CASE LateExecute(o)
  BY <1>30 DEF LateExecute, Calls
<1> QED
  BY <1>1, <1>2, <1>3, <1>4, <1>5, <1>6, <1>7, <1>8, <1>9, <1>10, <1>11,
     <1>12, <1>13, <1>14, <1>15, <1>16, <1>17, <1>18, <1>19, <1>20, <1>21,
     <1>22, <1>23, <1>24, <1>25, <1>26, <1>27, <1>28, <1>29, <1>30, <1>31 DEF
     RunAlone, RunStep, LoopStep, ProviderStep, ToolStep, LateStep

-----------------------------------------------------------------------------
LEMMA IdleTypes == Idle \in Work /\ NoVerdict \in Verdict
BY BoundsAssumption DEF Idle, At, Work, NoVerdict, Open, Verdict, VerdictStatus

LEMMA FinishKnown ==
  ASSUME NEW o \in Ops, NEW verdict \in Verdict
  PROVE  At("finish", 0, o, 0, verdict) \in Work /\ Known(At("finish", 0, o, 0, verdict))
BY BoundsAssumption DEF At, Work, Known, Ops

LEMMA ActiveOp ==
  ASSUME TypeInv, NEW s \in Sessions, active[s] # 0
  PROVE  active[s] \in Ops
BY BoundsAssumption DEF TypeInv, TypeOK, SessionTypeOK, Ops

(* The queues and what their heads have read. *)
QueueOK ==
  /\ queue \in [Sessions -> Seq(Item)]
  /\ work \in [Sessions -> Work]
  /\ WorkKnown

LEMMA QueueMoves ==
  ASSUME TypeInv, NEW s \in Sessions
  PROVE  /\ UNCHANGED <<queue, work>> => QueueOK'
         /\ queue[s] # <<>> /\ Dequeue(s) => QueueOK'
         /\ \A w \in Work : Known(w) /\ Proceed(s, w) => QueueOK'
         /\ \A item \in Item : Enqueue(s, item) /\ UNCHANGED work => QueueOK'
<1> USE DEF TypeInv, TypeOK, SessionTypeOK, QueueOK, WorkKnown
<1>1. Idle \in Work /\ Known(Idle)
  BY IdleTypes DEF Idle, At, Known
<1>2. UNCHANGED <<queue, work>> => QueueOK'
  BY DEF Known
<1>3. queue[s] # <<>> /\ Dequeue(s) => QueueOK'
  BY <1>1 DEF Dequeue, Known
<1>4. ASSUME NEW w \in Work, Known(w), Proceed(s, w) PROVE QueueOK'
  BY <1>4 DEF Proceed, Known
<1>5. ASSUME NEW item \in Item, Enqueue(s, item), UNCHANGED work PROVE QueueOK'
  BY <1>5 DEF Enqueue, Known
<1> QED BY <1>2, <1>3, <1>4, <1>5

LEMMA DriverTypes ==
  ASSUME TypeInv, NEW o \in Ops, DriverStep(o)
  PROVE  TypeInv'
<1> USE HostAssumption, WriteTypes
    DEF TypeInv, TypeOK, RunTypeOK, TurnKnown, WorkKnown, SessionTypeOK, HostTypeOK,
        Phase, Running, Goes, sessionVars, operationVars, hostVars, boundVars
<1>1. CASE StartAdmitted(o)
  BY <1>1 DEF StartAdmitted
<1>2. CASE AttachResource(o)
  BY <1>2 DEF AttachResource
<1>3. CASE SubmitCompletion(o)
  <2>1. owner[o] \in Sessions /\ <<"complete", o>> \in Item
    BY <1>3 DEF SubmitCompletion, Sessions, Item
  <2>2. QueueOK'
    BY <1>3, <2>1, QueueMoves DEF SubmitCompletion
  <2> QED BY <1>3, <2>2 DEF SubmitCompletion, QueueOK
<1> QED
  BY <1>1, <1>2, <1>3 DEF DriverStep

LEMMA OutcomeOfCompletion ==
  ASSUME TypeInv, NEW o \in Ops, NEW v \in Verdict
  PROVE  /\ TerminalOutcomeFor(o, v) \in TerminalOutcome
         /\ Finalizable(v) => RecoveredOutcome(v) \in TerminalOutcome
<1>1. last[o] \in LastMessage
  BY DEF TypeInv, TypeOK, RunTypeOK
<1>2. ResolveOutcome(o) \in TerminalOutcome
  BY <1>1 DEF ResolveOutcome, LastMessage, TerminalOutcome
<1>3. v.finalization = "inferred" => v.outcome \in TerminalOutcome
  BY DEF Verdict
<1> QED BY <1>2, <1>3 DEF TerminalOutcomeFor, Finalizable, RecoveredOutcome, TerminalOutcome

LEMMA QueueTypes ==
  ASSUME TypeInv, NEW s \in Sessions, QueueStep(s)
  PROVE  TypeInv'
<1> USE HostAssumption, WriteTypes
<1> DEFINE RunOK == RunTypeOK /\ TurnKnown
           FlagsOK == /\ active \in [Sessions -> 0..MaxOps]
                      /\ suspended \in [Sessions -> BOOLEAN]
                      /\ indeterminate \in [Sessions -> BOOLEAN]
                      /\ closed \in [Sessions -> BOOLEAN]
                      /\ owner \in [Ops -> 0..MaxSessions]
                      /\ attached \in [Ops -> BOOLEAN]
                      /\ abortRequested \in [Ops -> BOOLEAN]
<1>0. /\ PersistenceTypeOK /\ QueueOK /\ RunOK /\ FlagsOK /\ HostTypeOK
      /\ QueueOK' /\ PersistenceTypeOK' /\ RunOK' /\ FlagsOK' /\ HostTypeOK' => TypeInv'
  BY DEF TypeInv, TypeOK, QueueOK, SessionTypeOK
<1>1. CASE RejectPrompt(s)
  <2>1. QueueOK'
    BY <1>1, QueueMoves DEF RejectPrompt, Serving
  <2>2. PersistenceTypeOK'
    BY <1>1, <1>0 DEF RejectPrompt
  <2>3. RunOK' /\ FlagsOK' /\ HostTypeOK'
    BY <1>1, <1>0 DEF RejectPrompt, RunTypeOK, TurnKnown, HostTypeOK, runVars,
       operationVars, hostVars, boundVars
  <2> QED BY <1>0, <2>1, <2>2, <2>3
<1>2. CASE QueueInput(s)
  <2>1. PICK i \in Inputs :
          /\ AppendRecord(active[s], InputQueued(active[s], i, QueuedEntry(active[s], i)))
          /\ Proceed(s, At("deliver", 0, active[s], i, NoVerdict))
    BY <1>2 DEF QueueInput
  <2>2. active[s] \in Ops
    BY <1>2, <1>0, ActiveOp DEF QueueInput
  <2>3. At("deliver", 0, active[s], i, NoVerdict) \in Work
    BY <2>2, IdleTypes, BoundsAssumption DEF At, Work, Inputs, Ops
  <2>4. QueueOK'
    BY <2>1, <2>2, <2>3, QueueMoves DEF Known, At
  <2>5. PersistenceTypeOK'
    BY <1>0, <2>1, <2>2, RecordTypes
  <2>6. RunOK' /\ FlagsOK' /\ HostTypeOK'
    BY <1>2, <1>0 DEF QueueInput, RunTypeOK, TurnKnown, HostTypeOK, runVars, operationVars, hostVars, boundVars
  <2> QED BY <1>0, <2>4, <2>5, <2>6
<1>3. CASE InputRefused(s)
  <2>1. QueueOK'
    BY <1>3, QueueMoves DEF InputRefused, Serving
  <2>2. PersistenceTypeOK'
    BY <1>3, <1>0, ActiveOp DEF InputRefused, TypeInv, TypeOK, SessionTypeOK
  <2>3. RunOK' /\ FlagsOK' /\ HostTypeOK'
    BY <1>3, <1>0 DEF InputRefused, RunTypeOK, TurnKnown, HostTypeOK, runVars,
       operationVars, hostVars, boundVars
  <2> QED BY <1>0, <2>1, <2>2, <2>3
<1>4. CASE DeliverInput(s)
  <2>1. work[s].op \in Ops /\ work[s].input \in Inputs
    BY <1>4, <1>0 DEF DeliverInput, Serving, QueueOK, WorkKnown, Known
  <2>2. QueueOK'
    BY <1>4, QueueMoves DEF DeliverInput, Serving
  <2>3. PersistenceTypeOK'
    BY <1>4, <1>0 DEF DeliverInput
  <2>4. inject' \in [Ops -> Seq(Inputs)] /\ inbox' \in [Ops -> Seq(Inputs)]
    BY <1>4, <1>0, <2>1 DEF DeliverInput, RunTypeOK
  <2>5. suspended' \in [Sessions -> BOOLEAN]
    BY <1>4, <1>0 DEF DeliverInput
  <2>6. RunOK' /\ FlagsOK' /\ HostTypeOK'
    BY <1>4, <1>0, <2>4, <2>5
       DEF DeliverInput, RunTypeOK, TurnKnown, HostTypeOK, operationVars, hostVars, boundVars
  <2> QED BY <1>0, <2>2, <2>3, <2>6
<1>5. CASE LoadForPrompt(s)
  <2>1. At("preflight", revision, 0, 0, NoVerdict) \in Work
    BY <1>0, IdleTypes, BoundsAssumption DEF At, Work, PersistenceTypeOK
  <2>2. QueueOK'
    BY <1>5, <2>1, QueueMoves DEF LoadForPrompt, Serving, Known, At
  <2>3. PersistenceTypeOK'
    BY <1>5, <1>0 DEF LoadForPrompt
  <2>4. RunOK' /\ FlagsOK' /\ HostTypeOK'
    BY <1>5, <1>0 DEF LoadForPrompt, RunTypeOK, TurnKnown, HostTypeOK, runVars, operationVars, hostVars, boundVars
  <2> QED BY <1>0, <2>2, <2>3, <2>4
<1>6. CASE AdmitPrompt(s)
  <2>1. PICK o \in Ops :
          /\ AdmitTransaction(o, work[s].leaf)
          /\ Activate(s, o)
          /\ owner' = [owner EXCEPT ![o] = s]
          /\ phase' = [phase EXCEPT ![o] = "accepted"]
    BY <1>6 DEF AdmitPrompt
  <2>2. QueueOK'
    BY <1>6, QueueMoves DEF AdmitPrompt, Serving
  <2>3. PersistenceTypeOK'
    BY <1>0, <2>1, RecordTypes, EntryTypes DEF AdmitTransaction, PersistenceTypeOK
  <2>4. RunOK'
    BY <1>6, <1>0, <2>1 DEF AdmitPrompt, RunTypeOK, TurnKnown, Phase
  <2>5. FlagsOK' /\ HostTypeOK'
    BY <1>6, <1>0, <2>1 DEF AdmitPrompt, Activate, HostTypeOK, hostVars, boundVars, Ops, Sessions
  <2> QED BY <1>0, <2>2, <2>3, <2>4, <2>5
<1>7. CASE AdmissionFails(s)
  <2>1. QueueOK'
    BY <1>7, QueueMoves DEF AdmissionFails, Serving
  <2>2. PersistenceTypeOK'
    BY <1>7, <1>0 DEF AdmissionFails, AdmitRefused
  <2>3. RunOK' /\ FlagsOK' /\ HostTypeOK'
    BY <1>7, <1>0 DEF AdmissionFails, RunTypeOK, TurnKnown, HostTypeOK, runVars,
       operationVars, hostVars, boundVars
  <2> QED BY <1>0, <2>1, <2>2, <2>3
<1>8. CASE LoadForCompletion(s)
  <2> DEFINE o == Head(queue[s])[2]
             next == At("finish", 0, o, 0, VerdictOf(o))
             Cases == \/ CompletionUnreadable(s, o) \/ ParkIndeterminate(s, o)
                      \/ SuspendPending(s, o) \/ AlreadyFinished(s, o) \/ DecideOutcome(s, o)
  <2>1. queue[s] # <<>> /\ Head(queue[s]) \in Item /\ Head(queue[s])[1] = "complete"
    BY <1>8, <1>0 DEF LoadForCompletion, Serving, QueueOK
  <2>2. o \in Ops
    BY <2>1 DEF Item
  <2>3. next \in Work /\ Known(next)
    <3>1. VerdictOf(o) \in Verdict
      BY <1>0, <2>2, VerdictType
    <3> QED BY <2>2, <3>1, FinishKnown
  <2>4. Cases
    BY <1>8 DEF LoadForCompletion
  <2> HIDE DEF o, next
  <2>5. QueueOK'
    BY <2>1, <2>3, <2>4, QueueMoves
       DEF CompletionUnreadable, ParkIndeterminate, SuspendPending, AlreadyFinished,
           DecideOutcome, next
  <2>6. PersistenceTypeOK'
    BY <1>0, <2>4
       DEF CompletionUnreadable, ParkIndeterminate, SuspendPending, AlreadyFinished, DecideOutcome
  <2>7. phase' \in [Ops -> Phase] /\ TurnKnown'
    BY <1>8, <1>0, <2>2, <2>4
       DEF LoadForCompletion, CompletionUnreadable, ParkIndeterminate, SuspendPending,
           AlreadyFinished, DecideOutcome, Leaves, Phase, RunTypeOK, TurnKnown
  <2>8. RunOK'
    BY <1>8, <1>0, <2>7 DEF LoadForCompletion, RunTypeOK
  <2>9. Deactivate(s, o) \/ UNCHANGED active
    BY <2>4
       DEF CompletionUnreadable, ParkIndeterminate, SuspendPending, AlreadyFinished, DecideOutcome
  <2>9a. active' \in [Sessions -> 0..MaxOps]
    BY <1>0, <2>9, BoundsAssumption DEF Deactivate
  <2>10. UNCHANGED live \/ \E c, p : ReleaseIfDetached(s, c, active'[s], p)
    BY <2>4
       DEF CompletionUnreadable, ParkIndeterminate, SuspendPending, AlreadyFinished, DecideOutcome
  <2>10a. live' \in 0..MaxSessions
    BY <1>0, <2>10, HostAssumption DEF ReleaseIfDetached, HostTypeOK
  <2>11. suspended' \in [Sessions -> BOOLEAN] /\ indeterminate' \in [Sessions -> BOOLEAN]
    BY <1>0, <2>4
       DEF CompletionUnreadable, ParkIndeterminate, SuspendPending, AlreadyFinished, DecideOutcome
  <2>12. FlagsOK' /\ HostTypeOK'
    BY <1>8, <1>0, <2>9a, <2>10a, <2>11 DEF LoadForCompletion, HostTypeOK, operationVars, boundVars
  <2> QED BY <1>0, <2>5, <2>6, <2>8, <2>12
<1>9. CASE FinishOperation(s)
  <2>1. work[s].op \in Ops /\ work[s].verdict \in Verdict
    BY <1>9, <1>0 DEF FinishOperation, Serving, QueueOK, WorkKnown, Known, Work
  <2>2. QueueOK'
    BY <1>9, QueueMoves DEF FinishOperation, Serving
  <2>3. PersistenceTypeOK'
    BY <1>9, <1>0, <2>1, RecordTypes, OutcomeOfCompletion DEF FinishOperation
  <2>4. RunOK'
    BY <1>9, <1>0, <2>1 DEF FinishOperation, Leaves, RunTypeOK, TurnKnown, Phase
  <2>5. FlagsOK' /\ HostTypeOK'
    BY <1>9, <1>0, <2>1, BoundsAssumption
       DEF FinishOperation, Deactivate, ReleaseIfDetached, HostTypeOK, operationVars, boundVars
  <2> QED BY <1>0, <2>2, <2>3, <2>4, <2>5
<1>10. CASE LoadForCancel(s)
  <2>1. \A o \in Ops : /\ At("abort", 0, o, 0, NoVerdict) \in Work
                      /\ Known(At("abort", 0, o, 0, NoVerdict))
    BY IdleTypes, BoundsAssumption DEF At, Work, Known, Ops
  <2>2. QueueOK'
    BY <1>10, <2>1, QueueMoves DEF LoadForCancel, Serving
  <2>3. PersistenceTypeOK'
    BY <1>10, <1>0 DEF LoadForCancel
  <2>4. RunOK' /\ FlagsOK' /\ HostTypeOK'
    BY <1>10, <1>0 DEF LoadForCancel, RunTypeOK, TurnKnown, HostTypeOK, runVars, operationVars, hostVars, boundVars
  <2> QED BY <1>0, <2>2, <2>3, <2>4
<1>11. CASE AbortByCancel(s)
  <2>1. work[s].op \in Ops
    BY <1>11, <1>0 DEF AbortByCancel, Serving, QueueOK, WorkKnown, Known
  <2>2. QueueOK'
    BY <1>11, QueueMoves DEF AbortByCancel, Serving
  <2>3. PersistenceTypeOK'
    BY <1>11, <1>0, <2>1, RecordTypes DEF AbortByCancel, TerminalOutcome
  <2>4. RunOK' /\ FlagsOK' /\ HostTypeOK'
    BY <1>11, <1>0 DEF AbortByCancel, RunTypeOK, TurnKnown, HostTypeOK, runVars, operationVars, hostVars, boundVars
  <2> QED BY <1>0, <2>2, <2>3, <2>4
<1> QED
  BY <1>1, <1>2, <1>3, <1>4, <1>5, <1>6, <1>7, <1>8, <1>9, <1>10, <1>11 DEF
     QueueStep

LEMMA ClientTypes ==
  ASSUME TypeInv, NEW s \in Sessions, ClientStep(s)
  PROVE  TypeInv'
<1> USE HostAssumption, WriteTypes
    DEF TypeInv, TypeOK, RunTypeOK, TurnKnown, WorkKnown, SessionTypeOK, HostTypeOK,
        Phase, Running, runVars, sessionVars, operationVars, hostVars, boundVars
<1>1. CASE Prompt(s)
  BY <1>1 DEF Prompt, Enqueue, Item
<1>2. CASE CancelLive(s)
  BY <1>2 DEF CancelLive
<1>3. CASE CancelQueued(s)
  BY <1>3 DEF CancelQueued, Enqueue, Item
<1>4. CASE Close(s)
  BY <1>4 DEF Close, ReleaseController, ReleaseIfDetached
<1> QED
  BY <1>1, <1>2, <1>3, <1>4 DEF ClientStep

LEMMA OpenTypes ==
  ASSUME TypeInv, NEW r \in Requests, OpenStep(r)
  PROVE  TypeInv'
<1> USE HostAssumption, WriteTypes, VerdictType
    DEF TypeInv, TypeOK, RunTypeOK, TurnKnown, WorkKnown, SessionTypeOK, HostTypeOK,
        runVars, sessionVars, operationVars, hostVars, boundVars
<1>0. NothingFound \in [Ops -> Verdict] /\ Verdicts \in [Ops -> Verdict]
  BY DEF NothingFound, Verdicts, NoVerdict, Open, Verdict, VerdictStatus
<1>1. CASE OpenLoad(r)
  BY <1>1, <1>0 DEF OpenLoad
<1>2. CASE OpenRefused(r)
  BY <1>2, <1>0 DEF OpenRefused, OpenEnds
<1>3. CASE OpenAttach(r)
  BY <1>3, <1>0 DEF OpenAttach, OpenEnds, Connections
<1>4. CASE OpenClaim(r)
  <2>1. PersistenceTypeOK'
    BY <1>4 DEF OpenClaim
  <2>2. \/ ReleaseController(ConnectionOf[r]) /\ OpenEnds(r)
        \/ /\ controller' = ConnectionOf[r]
           /\ stage' = [stage EXCEPT ![r] = "claimed"]
           /\ UNCHANGED found
    BY <1>4, Zenon DEF OpenClaim
  <2>3. /\ stage' \in [Requests -> {"idle", "loaded", "claimed", "finalizing"}]
        /\ found' \in [Requests -> [Ops -> Verdict]]
    BY <1>0, <2>2 DEF OpenEnds
  <2>4. controller' \in Connections \cup {NoConnection}
    BY <2>2 DEF ReleaseController, Connections
  <2> QED BY <1>4, <2>1, <2>3, <2>4 DEF OpenClaim
<1>5. CASE OpenFinalize(r)
  <2>1. PICK o \in ToFinalize(r) :
          \/ /\ AppendRecord(o, OperationFinished(o, RecoveredOutcome(found[r][o])))
             /\ stage' = [stage EXCEPT ![r] = "finalizing"]
             /\ found' = [found EXCEPT ![r][o] = Terminal(RecoveredOutcome(found[r][o]), "durable")]
             /\ UNCHANGED controller
          \/ RecordRefused(o) /\ ReleaseController(ConnectionOf[r]) /\ OpenEnds(r)
    BY <1>5 DEF OpenFinalize
  <2>2. o \in Ops /\ RecoveredOutcome(found[r][o]) \in TerminalOutcome
    BY <2>1, OutcomeOfCompletion DEF ToFinalize
  <2>3. Terminal(RecoveredOutcome(found[r][o]), "durable") \in Verdict
    BY <2>2 DEF Terminal, Verdict
  <2>4. PersistenceTypeOK'
    BY <2>1, <2>2, RecordTypes
  <2>5. stage' \in [Requests -> {"idle", "loaded", "claimed", "finalizing"}]
    BY <2>1 DEF OpenEnds
  <2>6. found' \in [Requests -> [Ops -> Verdict]]
    <3> DEFINE v == Terminal(RecoveredOutcome(found[r][o]), "durable")
    <3>1. found' = [found EXCEPT ![r][o] = v] \/ found' = [found EXCEPT ![r] = NothingFound]
      BY <2>1 DEF OpenEnds
    <3>2. v \in Verdict
      BY <2>3
    <3>3. [found[r] EXCEPT ![o] = v] \in [Ops -> Verdict]
      <4> HIDE DEF v
      <4> QED BY <2>2, <3>2
    <3>4. found' = [found EXCEPT ![r] = [found[r] EXCEPT ![o] = v]]
            \/ found' = [found EXCEPT ![r] = NothingFound]
      BY <3>1
    <3> HIDE DEF v
    <3> QED BY <1>0, <3>3, <3>4
  <2>7. controller' \in Connections \cup {NoConnection}
    BY <2>1 DEF ReleaseController
  <2> QED BY <1>5, <2>4, <2>5, <2>6, <2>7 DEF OpenFinalize
<1>6. CASE OpenFails(r)
  <2>1. PersistenceTypeOK'
    BY <1>6 DEF OpenFails
  <2>2. /\ stage' \in [Requests -> {"idle", "loaded", "claimed", "finalizing"}]
        /\ found' \in [Requests -> [Ops -> Verdict]]
        /\ controller' \in Connections \cup {NoConnection}
        /\ live' \in 0..MaxSessions
    BY <1>6, <1>0 DEF OpenFails, OpenEnds, ReleaseController
  <2> QED BY <1>6, <2>1, <2>2 DEF OpenFails
<1>7. CASE OpenRegister(r)
  <2>1. PersistenceTypeOK'
    BY <1>7 DEF OpenRegister
  <2>2. created' \in Sessions
    BY <1>7 DEF OpenRegister, Sessions
  <2>3. ResumesParked(Recovered(r)) \in BOOLEAN
    BY DEF ResumesParked
  <2>4. /\ stage' \in [Requests -> {"idle", "loaded", "claimed", "finalizing"}]
        /\ found' \in [Requests -> [Ops -> Verdict]]
        /\ holder' \in [Sessions -> Connections \cup {NoConnection}]
        /\ closed' \in [Sessions -> BOOLEAN]
        /\ indeterminate' \in [Sessions -> BOOLEAN]
    BY <1>7, <1>0, <2>2, <2>3 DEF OpenRegister, OpenEnds, Connections
  <2>5. live' \in 0..MaxSessions /\ created' \in 0..MaxSessions
    BY <1>7, <2>2 DEF OpenRegister, Sessions
  <2> QED BY <1>7, <2>1, <2>4, <2>5 DEF OpenRegister
<1> QED
  BY <1>1, <1>2, <1>3, <1>4, <1>5, <1>6, <1>7 DEF OpenStep

LEMMA CrashTypes ==
  ASSUME TypeInv, Crash
  PROVE  TypeInv'
BY BoundsAssumption, HostAssumption, WriteTypes, IdleTypes
   DEF TypeInv, TypeOK, RunTypeOK, TurnKnown, WorkKnown, Known, SessionTypeOK, HostTypeOK, Phase,
       Reply, LastMessage, Crash, RunLost, HostLost, Idle, At, NothingFound, NoVerdict, Open, Verdict,
       VerdictStatus

-----------------------------------------------------------------------------
LEMMA TypesAtStart ==
  ASSUME Init
  PROVE  TypeInv
BY BoundsAssumption, HostAssumption, IdleTypes
   DEF Init, PersistenceInit, RunInit, SessionInit, TypeInv, TypeOK, PersistenceTypeOK, RunTypeOK,
       SessionTypeOK, HostTypeOK, TurnKnown, WorkKnown, Known, Idle, At, NothingFound, Phase, Reply,
       LastMessage, Calls, AssistantEntries, TerminalOutcome, NoOutcome

LEMMA TypesKept ==
  ASSUME TypeInv, [Next]_vars
  PROVE  TypeInv'
<1>1. CASE UNCHANGED vars
  BY <1>1 DEF vars, persistenceVars, runVars, sessionVars, operationVars, hostVars, boundVars,
       TypeInv, TypeOK, PersistenceTypeOK, RunTypeOK, SessionTypeOK, HostTypeOK, TurnKnown,
       WorkKnown, Known
<1>2. CASE Next
  BY <1>2, RunTypes, DriverTypes, QueueTypes, ClientTypes, OpenTypes, CrashTypes DEF Next
<1> QED BY <1>1, <1>2

(***************************************************************************)
(* Every variable keeps to its type: the run, the queue, recovery and a    *)
(* crash leave the Host, and the journal, in a state they can all read.    *)
(***************************************************************************)
THEOREM TypeCorrect == Spec => []TypeOK
<1>1. Init => TypeInv
  BY TypesAtStart
<1>2. TypeInv /\ [Next]_vars => TypeInv'
  BY TypesKept
<1>3. TypeInv => TypeOK
  BY DEF TypeInv
<1> QED BY <1>1, <1>2, <1>3, PTL DEF Spec

-----------------------------------------------------------------------------
(***************************************************************************)
(* The three ways a step can treat the Operation Journal.  Whoever appends *)
(* to an Operation writes records of that Operation, and the entry ids in  *)
(* them follow from the attempt or the input they are about.               *)
(***************************************************************************)
OwnRecord(o, r) ==
  /\ r.op = o
  /\ r.type # "operation_accepted"
  /\ r.type = "model_attempted" => r.entry = AssistantEntry(o, r.id)
  /\ r.type = "tool_dispatched" =>
       r.assistant = AssistantEntry(o, r.id) /\ r.entry = ResultEntry(o, r.id)
  /\ r.type = "input_queued" => r.entry = QueuedEntry(o, r.id)

RecordOf(o) == {r \in Record : OwnRecord(o, r)}

LEMMA OwnRecords ==
  ASSUME NEW o \in Ops
  PROVE  /\ \A t \in Attempts :
              /\ ModelAttempted(o, t, AssistantEntry(o, t)) \in RecordOf(o)
              /\ UsageSettled(o, t) \in RecordOf(o)
              /\ ToolDispatched(o, t, AssistantEntry(o, t), ResultEntry(o, t)) \in RecordOf(o)
         /\ \A i \in Inputs : InputQueued(o, i, QueuedEntry(o, i)) \in RecordOf(o)
         /\ \A outcome \in TerminalOutcome : OperationFinished(o, outcome) \in RecordOf(o)
<1>1. /\ \A t \in Attempts :
           /\ OwnRecord(o, ModelAttempted(o, t, AssistantEntry(o, t)))
           /\ OwnRecord(o, UsageSettled(o, t))
           /\ OwnRecord(o, ToolDispatched(o, t, AssistantEntry(o, t), ResultEntry(o, t)))
      /\ \A i \in Inputs : OwnRecord(o, InputQueued(o, i, QueuedEntry(o, i)))
      /\ \A outcome \in TerminalOutcome : OwnRecord(o, OperationFinished(o, outcome))
  BY DEF OwnRecord, ModelAttempted, UsageSettled, ToolDispatched, InputQueued, OperationFinished
<1> QED BY <1>1, RecordTypes DEF RecordOf

Appends == \E o \in Ops : \E record \in RecordOf(o) : AppendRecord(o, record)

Admits == \E o \in Ops, leaf \in Nat : ~Accepted(o) /\ AdmitTransaction(o, leaf)

JournalMoves == UNCHANGED journal \/ Appends \/ Admits

LEMMA RefusalsKeepJournal ==
  /\ DatabaseFails => UNCHANGED journal
  /\ \A o \in Ops : RecordRefused(o) => UNCHANGED journal
  /\ \A held0 : EntryRefused(held0) => UNCHANGED journal
  /\ \A new, held0 : AppendEntries(new, held0) => UNCHANGED journal
  /\ UNCHANGED persistenceVars => UNCHANGED journal
BY DEF DatabaseFails, RecordRefused, EntryRefused, AppendEntries, persistenceVars

LEMMA RunMovesJournal ==
  ASSUME TypeInv, NEW o \in Ops, RunStep(o)
  PROVE  JournalMoves
<1> USE RefusalsKeepJournal DEF JournalMoves
<1>1. CASE ProviderStep(o)
  <2>1. CASE SettleRefused(o)
    BY <2>1 DEF SettleRefused
  <2>2. ASSUME NEW r \in Reply, SettleUsage(o, r) PROVE Appends
    <3>1. turn[o] \in Attempts
      BY <2>2 DEF SettleUsage, Goes, TypeInv, TurnKnown
    <3> QED BY <2>2, <3>1, OwnRecords DEF SettleUsage, Appends
  <2> QED BY <1>1, <2>1, <2>2 DEF ProviderStep
<1>2. CASE AttemptModel(o)
  <2>1. turn[o] + 1 \in Attempts
    BY <1>2, BoundsAssumption DEF AttemptModel, TypeInv, TypeOK, RunTypeOK, Attempts
  <2> QED BY <1>2, <2>1, OwnRecords DEF AttemptModel, Appends
<1>3. CASE DispatchTool(o) \/ LateDispatch(o)
  <2>1. turn[o] \in Attempts
    BY <1>3 DEF DispatchTool, LateDispatch, Goes, TypeInv, TurnKnown
  <2>2. Dispatch(o) \/ RecordRefused(o)
    BY <1>3 DEF DispatchTool, LateDispatch
  <2> QED BY <2>1, <2>2, OwnRecords DEF Dispatch, Appends
<1>4. CASE RefuseTool(o) \/ DispatchRefused(o) \/ ToolReturns(o) \/ LateExecute(o)
  BY <1>4 DEF RefuseTool, DispatchRefused, ToolReturns, LateExecute
<1>5. CASE LoopStep(o) /\ ~AttemptModel(o)
  BY <1>5
     DEF LoopStep, BuildAgent, BuildFails, StartRun, BeginLoop, InjectInput, InjectFails, AttemptRefused,
         DiscardReply, GiveUpRepair, CommitReply, CommitRefused, ExecuteTool, AbandonTool,
         PublishResult, PublishRefused, StopOnAbort, TakeInput, NextRequest, NothingLeft,
         ReachLimit, ReportFailure, FinishRun
<1> QED BY <1>1, <1>2, <1>3, <1>4, <1>5 DEF RunStep, ToolStep, LateStep

LEMMA QueueMovesJournal ==
  ASSUME TypeInv, NEW s \in Sessions, QueueStep(s)
  PROVE  JournalMoves
<1> USE RefusalsKeepJournal DEF JournalMoves
<1>1. CASE QueueInput(s)
  BY <1>1, ActiveOp, OwnRecords DEF QueueInput, Appends
<1>2. CASE AdmitPrompt(s)
  <2>1. work[s].leaf \in Nat
    BY DEF TypeInv, TypeOK, SessionTypeOK, Work
  <2> QED BY <1>2, <2>1 DEF AdmitPrompt, Admits, Ops
<1>3. CASE FinishOperation(s) \/ AbortByCancel(s)
  <2>1. work[s].op \in Ops
    BY <1>3 DEF FinishOperation, AbortByCancel, Serving, TypeInv, WorkKnown, Known
  <2>2. work[s].verdict \in Verdict
    BY DEF TypeInv, TypeOK, SessionTypeOK, Work
  <2> QED BY <1>3, <2>1, <2>2, OwnRecords, OutcomeOfCompletion
          DEF FinishOperation, AbortByCancel, Appends, TerminalOutcome
<1>4. CASE LoadForCompletion(s)
  BY <1>4 DEF LoadForCompletion, CompletionUnreadable, ParkIndeterminate, SuspendPending,
              AlreadyFinished, DecideOutcome
<1>5. CASE InputRefused(s)
  BY <1>5, ActiveOp DEF InputRefused
<1>6. CASE \/ RejectPrompt(s) \/ DeliverInput(s) \/ LoadForPrompt(s) \/ AdmissionFails(s)
           \/ LoadForCancel(s)
  BY <1>6 DEF RejectPrompt, DeliverInput, LoadForPrompt, AdmissionFails, AdmitRefused, LoadForCancel
<1> QED BY <1>1, <1>2, <1>3, <1>4, <1>5, <1>6 DEF QueueStep

LEMMA NextMovesJournal ==
  ASSUME TypeInv, [Next]_vars
  PROVE  JournalMoves
<1> USE RefusalsKeepJournal DEF JournalMoves
<1>1. CASE UNCHANGED vars
  BY <1>1 DEF vars
<1>2. ASSUME NEW o \in Ops, RunAlone(o) PROVE JournalMoves
  BY <1>2, RunMovesJournal DEF RunAlone
<1>3. ASSUME NEW o \in Ops, DriverStep(o) PROVE JournalMoves
  BY <1>3 DEF DriverStep, StartAdmitted, AttachResource, SubmitCompletion
<1>4. ASSUME NEW s \in Sessions, QueueStep(s) PROVE JournalMoves
  BY <1>4, QueueMovesJournal
<1>5. ASSUME NEW s \in Sessions, ClientStep(s) PROVE JournalMoves
  BY <1>5 DEF ClientStep, Prompt, CancelLive, CancelQueued, Close
<1>6. ASSUME NEW r \in Requests, OpenStep(r) PROVE JournalMoves
  <2>1. CASE OpenFinalize(r)
    <3>1. PICK o \in ToFinalize(r) :
            \/ AppendRecord(o, OperationFinished(o, RecoveredOutcome(found[r][o])))
            \/ RecordRefused(o)
      BY <2>1 DEF OpenFinalize
    <3>2. o \in Ops /\ found[r][o] \in Verdict /\ Finalizable(found[r][o])
      BY <3>1 DEF ToFinalize, TypeInv, TypeOK, HostTypeOK
    <3> QED BY <3>1, <3>2, OutcomeOfCompletion, OwnRecords DEF Appends
  <2>2. CASE OpenStep(r) /\ ~OpenFinalize(r)
    BY <2>2 DEF OpenStep, OpenLoad, OpenRefused, OpenAttach, OpenClaim, OpenFails, OpenRegister
  <2> QED BY <1>6, <2>1, <2>2
<1>7. CASE Crash
  BY <1>7 DEF Crash
<1> QED BY <1>1, <1>2, <1>3, <1>4, <1>5, <1>6, <1>7 DEF Next

LEMMA MovesKeepJournal ==
  ASSUME TypeInv, JournalMoves
  PROVE  JournalIsFinal
<1> USE DEF JournalIsFinal
<1>1. \A o \in Ops : journal[o] \in Seq(Record)
  BY DEF TypeInv, TypeOK, PersistenceTypeOK
<1>2. CASE UNCHANGED journal
  BY <1>1, <1>2
<1>3. ASSUME NEW o \in Ops, NEW record \in Record, AppendRecord(o, record) PROVE JournalIsFinal
  <2>1. journal' = [journal EXCEPT ![o] = Append(journal[o], record)] /\ ~Finished(o)
    BY <1>3 DEF AppendRecord, MayAppendTo, OperationAppendAllowed, Finished
  <2>2. journal \in [Ops -> Seq(Record)]
    BY DEF TypeInv, TypeOK, PersistenceTypeOK
  <2>3. ASSUME NEW p \in Ops, p # o PROVE journal'[p] = journal[p]
    BY <2>1, <2>2, <2>3
  <2>4. journal'[o] = Append(journal[o], record)
    BY <2>1, <2>2
  <2>5. /\ Len(journal[o]) <= Len(journal'[o])
        /\ \A k \in DOMAIN journal[o] : journal'[o][k] = journal[o][k]
    BY <1>1, <2>4
  <2> QED BY <1>1, <2>1, <2>3, <2>5
<1>4. ASSUME NEW o \in Ops, NEW leaf \in Nat, ~Accepted(o), AdmitTransaction(o, leaf)
      PROVE  JournalIsFinal
  <2>1. journal[o] = <<>> /\ ~Finished(o)
    BY <1>4 DEF Accepted, Finished, IsFinished, Of
  <2>2. journal'[o] = <<OperationAccepted(o, InputEntry(o))>>
    BY <1>4 DEF AdmitTransaction, TypeInv, TypeOK, PersistenceTypeOK
  <2>3. ASSUME NEW p \in Ops, p # o PROVE journal'[p] = journal[p]
    BY <1>4, <2>3 DEF AdmitTransaction, TypeInv, TypeOK, PersistenceTypeOK
  <2> QED BY <1>1, <2>1, <2>2, <2>3
<1> QED BY <1>2, <1>3, <1>4 DEF JournalMoves, Appends, Admits, RecordOf

(***************************************************************************)
(* Records are never taken back, and a finished Operation gets no more:    *)
(* driver, queue, cancel and recovery all write through the store's check. *)
(***************************************************************************)
THEOREM TerminalFinal == Spec => TerminalIsFinal
<1>1. TypeInv /\ [Next]_vars => JournalIsFinal
  BY NextMovesJournal, MovesKeepJournal
<1>2. Spec => []TypeInv
  BY TypesAtStart, TypesKept, PTL DEF Spec
<1>3. TypeInv /\ [Next]_vars => [JournalIsFinal]_vars
  BY <1>1
<1> QED BY <1>2, <1>3, PTL DEF Spec, TerminalIsFinal

-----------------------------------------------------------------------------
(***************************************************************************)
(* One driver.  Between the preflight and the admission of a prompt its    *)
(* Session object has no active Operation: that is what makes the          *)
(* invariant inductive.                                                    *)
(***************************************************************************)
DriverInv ==
  /\ \A o \in Ops : Driving(o) => owner[o] \in Sessions /\ active[owner[o]] = o
  /\ \A s \in Sessions : work[s].step = "preflight" => active[s] = 0

(* No step of a run or of its driver starts another one. *)
LEMMA RunStartsNoDriver ==
  ASSUME TypeInv, NEW o \in Ops, RunStep(o) \/ DriverStep(o)
  PROVE  \A p \in Ops : Driving(p)' => Driving(p)
<1> USE DEF Driving, Goes, TypeInv, TypeOK, RunTypeOK
<1>1. CASE LoopStep(o)
  BY <1>1
     DEF LoopStep, BuildAgent, BuildFails, StartRun, BeginLoop, InjectInput, InjectFails,
         AttemptModel, AttemptRefused, DiscardReply, GiveUpRepair, CommitReply, CommitRefused,
         ExecuteTool, AbandonTool, PublishResult, PublishRefused, StopOnAbort, TakeInput,
         NextRequest, NothingLeft, ReachLimit, ReportFailure, FinishRun
<1>2. CASE ProviderStep(o)
  BY <1>2 DEF ProviderStep, SettleUsage, SettleRefused
<1>3. CASE ToolStep(o) \/ LateStep(o)
  BY <1>3 DEF ToolStep, LateStep, RefuseTool, DispatchTool, DispatchRefused, ToolReturns,
              LateDispatch, LateExecute
<1>4. CASE DriverStep(o)
  BY <1>4 DEF DriverStep, StartAdmitted, AttachResource, SubmitCompletion
<1> QED BY <1>1, <1>2, <1>3, <1>4 DEF RunStep

(* The end of a run only takes its own Operation from the Session object. *)
LEMMA CompletionKeepsDrivers ==
  ASSUME TypeInv, DriverInv, NEW s \in Sessions, LoadForCompletion(s) \/ FinishOperation(s)
  PROVE  DriverInv'
<1> USE DEF TypeInv, TypeOK, SessionTypeOK, RunTypeOK, DriverInv, Driving, Dequeue, Idle, At,
            Leaves, Deactivate
<1> DEFINE Ends(o) ==
      /\ phase' = [phase EXCEPT ![o] = "done"]
      /\ \/ UNCHANGED active
         \/ active' = [active EXCEPT ![s] = IF active[s] = o THEN 0 ELSE active[s]]
      /\ work' = [work EXCEPT ![s] = Idle]
      /\ UNCHANGED owner
<1>1. ASSUME NEW o, Ends(o) PROVE DriverInv'
  <2>1. ASSUME NEW p \in Ops, Driving(p)'
        PROVE  Driving(p) /\ p # o /\ active'[owner[p]] = p
    <3>1. Driving(p) /\ p # o
      BY <1>1, <2>1
    <3>2. owner[p] \in Sessions /\ active[owner[p]] = p
      BY <3>1
    <3> QED BY <1>1, <3>1, <3>2
  <2>2. ASSUME NEW r \in Sessions, work'[r].step = "preflight" PROVE active'[r] = 0
    <3>1. r # s /\ work[r].step = "preflight"
      BY <1>1, <2>2
    <3> QED BY <1>1, <3>1
  <2> QED BY <1>1, <2>1, <2>2
<1>2. CASE LoadForCompletion(s)
  <2> DEFINE o == Head(queue[s])[2]
  <2>1. CASE DecideOutcome(s, o)
    BY <1>2, <2>1 DEF DecideOutcome, Proceed, LoadForCompletion, operationVars
  <2>2. CASE \/ CompletionUnreadable(s, o) \/ ParkIndeterminate(s, o)
             \/ SuspendPending(s, o) \/ AlreadyFinished(s, o)
    <3>1. Ends(o)
      BY <1>2, <2>2 DEF CompletionUnreadable, ParkIndeterminate, SuspendPending,
                        AlreadyFinished, LoadForCompletion, operationVars
    <3> QED BY <3>1, <1>1
  <2> QED BY <1>2, <2>1, <2>2 DEF LoadForCompletion
<1>3. CASE FinishOperation(s)
  <2>1. Ends(work[s].op)
    BY <1>3 DEF FinishOperation, operationVars
  <2> QED BY <2>1, <1>1
<1> QED BY <1>2, <1>3

LEMMA QueueKeepsDrivers ==
  ASSUME TypeInv, DriverInv, NEW s \in Sessions, QueueStep(s)
  PROVE  DriverInv'
<1> USE DEF TypeInv, TypeOK, SessionTypeOK, RunTypeOK, DriverInv, Driving, Dequeue, Proceed,
            Idle, At, runVars, operationVars
<1>1. CASE AdmitPrompt(s)
  <2>1. PICK o \in Ops : /\ active' = [active EXCEPT ![s] = o]
                         /\ owner' = [owner EXCEPT ![o] = s]
                         /\ phase' = [phase EXCEPT ![o] = "accepted"]
    BY <1>1 DEF AdmitPrompt, Activate
  <2>2. active[s] = 0 /\ work' = [work EXCEPT ![s] = Idle]
    BY <1>1 DEF AdmitPrompt, Serving
  <2> QED BY <2>1, <2>2 DEF Ops, Sessions
<1>2. CASE LoadForCompletion(s) \/ FinishOperation(s)
  BY <1>2, CompletionKeepsDrivers
<1>3. CASE LoadForPrompt(s)
  BY <1>3 DEF LoadForPrompt
<1>4. CASE QueueInput(s) \/ LoadForCancel(s)
  <2>1. PICK w : w.step # "preflight" /\ work' = [work EXCEPT ![s] = w]
    BY <1>4 DEF QueueInput, LoadForCancel
  <2>2. UNCHANGED <<active, owner, phase>>
    BY <1>4 DEF QueueInput, LoadForCancel
  <2> QED BY <2>1, <2>2
<1>5. CASE \/ RejectPrompt(s) \/ InputRefused(s) \/ DeliverInput(s) \/ AdmissionFails(s)
           \/ AbortByCancel(s)
  <2>1. UNCHANGED <<active, owner, phase>> /\ work' = [work EXCEPT ![s] = Idle]
    BY <1>5 DEF RejectPrompt, InputRefused, DeliverInput, AdmissionFails, AbortByCancel
  <2> QED BY <2>1
<1> QED BY <1>1, <1>2, <1>3, <1>4, <1>5 DEF QueueStep

LEMMA DriversKept ==
  ASSUME TypeInv, DriverInv, [Next]_vars
  PROVE  DriverInv'
<1>1. CASE UNCHANGED vars
  BY <1>1 DEF vars, sessionVars, operationVars, runVars, DriverInv, Driving
<1>2. ASSUME NEW o \in Ops, RunAlone(o) PROVE DriverInv'
  BY <1>2, RunStartsNoDriver DEF RunAlone, sessionVars, operationVars, DriverInv
<1>3. ASSUME NEW o \in Ops, DriverStep(o) PROVE DriverInv'
  <2>1. UNCHANGED <<active, owner, work>>
    BY <1>3 DEF DriverStep, StartAdmitted, AttachResource, SubmitCompletion, sessionVars,
                operationVars
  <2> QED BY <1>3, <2>1, RunStartsNoDriver DEF DriverInv
<1>4. ASSUME NEW s \in Sessions, QueueStep(s) PROVE DriverInv'
  BY <1>4, QueueKeepsDrivers
<1>5. ASSUME NEW s \in Sessions, ClientStep(s) PROVE DriverInv'
  BY <1>5 DEF ClientStep, Prompt, CancelLive, CancelQueued, Close, sessionVars, operationVars,
              runVars, DriverInv, Driving
<1>6. ASSUME NEW r \in Requests, OpenStep(r) PROVE DriverInv'
  BY <1>6 DEF OpenStep, OpenLoad, OpenRefused, OpenAttach, OpenClaim, OpenFinalize, OpenFails,
              OpenRegister, sessionVars, operationVars, runVars, DriverInv, Driving
<1>7. CASE Crash
  BY <1>7 DEF Crash, RunLost, HostLost, Idle, At, DriverInv, Driving
<1> QED BY <1>1, <1>2, <1>3, <1>4, <1>5, <1>6, <1>7 DEF Next

(***************************************************************************)
(* A Session object drives one Operation at a time, the one it holds as    *)
(* #active, whatever prompts, cancels and completions queue up on it.      *)
(***************************************************************************)
THEOREM OneDriverHolds == Spec => []OneDriver
<1>1. Init => DriverInv
  BY DEF Init, RunInit, SessionInit, Idle, At, DriverInv, Driving
<1>2. TypeInv /\ DriverInv /\ [Next]_vars => DriverInv'
  BY DriversKept
<1>3. DriverInv => OneDriver
  BY DEF DriverInv, OneDriver
<1>4. Spec => []TypeInv
  BY TypesAtStart, TypesKept, PTL DEF Spec
<1> QED BY <1>1, <1>2, <1>3, <1>4, PTL DEF Spec
-----------------------------------------------------------------------------
(***************************************************************************)
(* The controller slot, when no connection has two openSession requests    *)
(* under way at once.  An open Session is the live one, and while a        *)
(* request has claimed the Session none is live.                           *)
(***************************************************************************)
OneAtATime == \A r, q \in Requests : ConnectionOf[r] = ConnectionOf[q] => r = q

Opening(r) == stage[r] \in {"claimed", "finalizing"}

ControlInv ==
  /\ \A s \in Sessions : ~closed[s] =>
       live = s /\ controller = holder[s] /\ holder[s] \in Connections
  /\ \A r \in Requests : Opening(r) => live = 0 /\ controller = ConnectionOf[r]
  /\ ControllerInUse

LEMMA ConnectionsKnown ==
  /\ \A r \in Requests : ConnectionOf[r] \in Connections
  /\ NoConnection \notin Connections
BY HostAssumption DEF Connections

(* The Host forgets at most a Session object that is closed. *)
MayForget == live' = live \/ (live' = 0 /\ (live \in Sessions => closed[live]))

LEMMA ControlLeftAlone ==
  ASSUME TypeInv, ControlInv, UNCHANGED <<closed, holder, controller, stage>>, MayForget
  PROVE  ControlInv'
<1>1. live \in 0..MaxSessions /\ 0 \notin Sessions
  BY DEF TypeInv, TypeOK, HostTypeOK, Sessions
<1>2. ControllerInUse'
  BY DEF ControlInv, ControllerInUse, Opening
<1>3. \A r \in Requests : Opening(r)' => live' = 0 /\ controller' = ConnectionOf[r]
  BY DEF ControlInv, Opening, MayForget
<1>4. ASSUME NEW s \in Sessions, ~closed'[s]
      PROVE  live' = s /\ controller' = holder'[s] /\ holder'[s] \in Connections
  <2>1. live = s /\ controller = holder[s] /\ holder[s] \in Connections
    BY <1>4 DEF ControlInv
  <2>2. live' = live
    BY <1>4, <2>1 DEF MayForget
  <2> QED BY <2>1, <2>2
<1> QED BY <1>2, <1>3, <1>4 DEF ControlInv

LEMMA QueueControl ==
  ASSUME TypeInv, ControlInv, NEW s \in Sessions, QueueStep(s)
  PROVE  ControlInv'
<1>1. CASE LoadForCompletion(s) \/ FinishOperation(s)
  <2>1. UNCHANGED <<closed, holder, controller, stage>>
    BY <1>1 DEF LoadForCompletion, FinishOperation
  <2>2. MayForget
    BY <1>1 DEF LoadForCompletion, FinishOperation, CompletionUnreadable, ParkIndeterminate,
                SuspendPending, AlreadyFinished, DecideOutcome, ReleaseIfDetached, MayForget
  <2> QED BY <2>1, <2>2, ControlLeftAlone
<1>2. CASE ~LoadForCompletion(s) /\ ~FinishOperation(s)
  <2>1. UNCHANGED <<closed, holder, controller, stage, live>>
    BY <1>2 DEF QueueStep, RejectPrompt, QueueInput, InputRefused, DeliverInput, LoadForPrompt,
                AdmitPrompt, AdmissionFails, LoadForCancel, AbortByCancel, hostVars
  <2> QED BY <2>1, ControlLeftAlone DEF MayForget
<1> QED BY <1>1, <1>2

LEMMA CloseControl ==
  ASSUME TypeInv, ControlInv, NEW s \in Sessions, Close(s)
  PROVE  ControlInv'
<1>1. /\ ~closed[s] /\ closed' = [closed EXCEPT ![s] = TRUE]
      /\ controller' = IF controller = holder[s] THEN NoConnection ELSE controller
      /\ UNCHANGED <<holder, stage>>
      /\ live' \in {0, live}
      /\ closed \in [Sessions -> BOOLEAN]
  BY DEF Close, ReleaseController, ReleaseIfDetached, TypeInv, TypeOK, SessionTypeOK
<1>2. live = s /\ controller = holder[s] /\ live # 0
  BY <1>1 DEF ControlInv, Sessions
<1>3. controller' = NoConnection /\ \A q \in Sessions : closed'[q]
  BY <1>1, <1>2 DEF ControlInv
<1>4. \A r \in Requests : ~Opening(r)
  BY <1>2 DEF ControlInv
<1> QED BY <1>1, <1>3, <1>4 DEF ControlInv, ControllerInUse, Opening

(* A request that is over has left the slot free. *)
LEMMA OpenEndsControl ==
  ASSUME TypeInv, ControlInv, OneAtATime, NEW r \in Requests,
         live = 0, Opening(r) \/ MayControl(r),
         ReleaseController(ConnectionOf[r]), OpenEnds(r), UNCHANGED <<holder, closed>>, live' = 0
  PROVE  ControlInv'
<1>1. \A s \in Sessions : closed[s]
  BY DEF ControlInv, Sessions
<1>2. controller' = NoConnection
  BY DEF ControlInv, ReleaseController, MayControl
<1>3. \A q \in Requests : Opening(q) => q = r
  <2> SUFFICES ASSUME NEW q \in Requests, Opening(q) PROVE q = r
    OBVIOUS
  <2>1. controller = ConnectionOf[q]
    BY DEF ControlInv
  <2>2. ConnectionOf[r] = ConnectionOf[q]
    BY <2>1, ConnectionsKnown DEF ControlInv, MayControl
  <2> QED BY <2>2 DEF OneAtATime
<1>4. \A q \in Requests : ~Opening(q)'
  BY <1>3 DEF OpenEnds, Opening, TypeInv, TypeOK, HostTypeOK
<1> QED BY <1>1, <1>2, <1>4 DEF ControlInv, ControllerInUse, Opening

LEMMA OpenControl ==
  ASSUME TypeInv, ControlInv, OneAtATime, NEW r \in Requests, OpenStep(r)
  PROVE  ControlInv'
<1> USE ConnectionsKnown
<1>1. /\ stage \in [Requests -> {"idle", "loaded", "claimed", "finalizing"}]
      /\ closed \in [Sessions -> BOOLEAN]
      /\ holder \in [Sessions -> Connections \cup {NoConnection}]
      /\ live \in 0..MaxSessions /\ created \in 0..MaxSessions
      /\ 0 \notin Sessions
  BY DEF TypeInv, TypeOK, SessionTypeOK, HostTypeOK, Sessions
<1>2. CASE OpenLoad(r) \/ OpenRefused(r)
  <2>1. /\ UNCHANGED <<closed, holder, controller, live>>
        /\ stage[r] \in {"idle", "loaded"} /\ stage'[r] \in {"idle", "loaded"}
        /\ \A q \in Requests \ {r} : stage'[q] = stage[q]
    BY <1>1, <1>2 DEF OpenLoad, OpenRefused, OpenEnds, sessionVars
  <2>2. \A q \in Requests : Opening(q)' <=> Opening(q)
    BY <2>1 DEF Opening
  <2> QED BY <2>1, <2>2 DEF ControlInv, ControllerInUse, Opening
<1>3. CASE OpenAttach(r)
  <2>1. /\ live \in Sessions /\ controller' = ConnectionOf[r]
        /\ closed' = [closed EXCEPT ![live] = FALSE]
        /\ holder' = [holder EXCEPT ![live] = IF closed[live] THEN ConnectionOf[r] ELSE holder[live]]
        /\ live' = live
        /\ controller \in {NoConnection, ConnectionOf[r]}
        /\ stage' = [stage EXCEPT ![r] = "idle"]
    BY <1>1, <1>3 DEF OpenAttach, OpenEnds, MayControl, Sessions
  <2>2. ~closed'[live] /\ holder'[live] = ConnectionOf[r]
    <3>1. CASE closed[live]
      BY <1>1, <2>1, <3>1
    <3>2. CASE ~closed[live]
      BY <1>1, <2>1, <3>2 DEF ControlInv
    <3> QED BY <3>1, <3>2
  <2>3. \A s \in Sessions \ {live} : closed'[s]
    BY <1>1, <2>1 DEF ControlInv
  <2>4. \A q \in Requests : ~Opening(q)'
    BY <1>1, <2>1 DEF Opening, ControlInv
  <2> QED BY <2>1, <2>2, <2>3, <2>4 DEF ControlInv, ControllerInUse
<1>4. CASE OpenClaim(r)
  <2>1. CASE Unreadable(found[r])
    BY <1>4, <2>1, OpenEndsControl DEF OpenClaim, sessionVars
  <2>2. CASE ~Unreadable(found[r])
    <3>1. /\ controller' = ConnectionOf[r] /\ live' = 0 /\ live = 0
          /\ stage' = [stage EXCEPT ![r] = "claimed"]
          /\ controller \in {NoConnection, ConnectionOf[r]}
          /\ UNCHANGED <<closed, holder>>
      BY <1>4, <2>2 DEF OpenClaim, MayControl, sessionVars
    <3>2. \A s \in Sessions : closed'[s]
      BY <1>1, <3>1 DEF ControlInv
    <3>3. \A q \in Requests : Opening(q)' => controller' = ConnectionOf[q]
      BY <1>1, <3>1 DEF ControlInv, Opening
    <3>4. stage'[r] = "claimed"
      BY <1>1, <3>1
    <3> QED BY <3>1, <3>2, <3>3, <3>4 DEF ControlInv, ControllerInUse
  <2> QED BY <2>1, <2>2
<1>5. CASE OpenFinalize(r)
  <2>1. Opening(r) /\ UNCHANGED <<closed, holder, live>>
    BY <1>5 DEF OpenFinalize, Opening, sessionVars
  <2>2. CASE ReleaseController(ConnectionOf[r]) /\ OpenEnds(r)
    <3>1. live = 0
      BY <2>1 DEF ControlInv
    <3> QED BY <2>1, <2>2, <3>1, OpenEndsControl
  <2>3. CASE stage' = [stage EXCEPT ![r] = "finalizing"] /\ UNCHANGED controller
    <3>1. \A q \in Requests : Opening(q)' <=> Opening(q)
      BY <1>1, <2>1, <2>3 DEF Opening
    <3> QED BY <2>1, <2>3, <3>1 DEF ControlInv, ControllerInUse, Opening
  <2> QED BY <1>5, <2>2, <2>3 DEF OpenFinalize
<1>6. CASE OpenFails(r)
  <2>1. Opening(r) /\ live' \in {0, live} /\ UNCHANGED <<closed, holder>>
    BY <1>6 DEF OpenFails, Opening, sessionVars
  <2>2. live = 0
    BY <2>1 DEF ControlInv
  <2> QED BY <1>6, <2>1, <2>2, OpenEndsControl DEF OpenFails
<1>7. CASE OpenRegister(r)
  <2> DEFINE s == created + 1
  <2>1. /\ Opening(r) /\ s \in Sessions /\ live' = s
        /\ closed' = [closed EXCEPT ![s] = FALSE]
        /\ holder' = [holder EXCEPT ![s] = ConnectionOf[r]]
        /\ stage' = [stage EXCEPT ![r] = "idle"]
        /\ UNCHANGED controller
    BY <1>1, <1>7, HostAssumption DEF OpenRegister, OpenEnds, Opening, Sessions
  <2>2. live = 0 /\ controller = ConnectionOf[r] /\ \A q \in Sessions : closed[q]
    BY <1>1, <2>1 DEF ControlInv
  <2>3. \A q \in Requests : Opening(q) => q = r
    BY <2>2 DEF ControlInv, OneAtATime
  <2>4. \A q \in Requests : ~Opening(q)'
    BY <1>1, <2>1, <2>3 DEF Opening
  <2> HIDE DEF s
  <2>5. /\ ~closed'[s] /\ holder'[s] = ConnectionOf[r]
        /\ \A q \in Sessions \ {s} : closed'[q]
    BY <1>1, <2>1, <2>2
  <2> QED BY <2>1, <2>2, <2>4, <2>5 DEF ControlInv, ControllerInUse
<1> QED BY <1>2, <1>3, <1>4, <1>5, <1>6, <1>7 DEF OpenStep

LEMMA ControlKept ==
  ASSUME TypeInv, ControlInv, OneAtATime, [Next]_vars
  PROVE  ControlInv'
<1>1. ASSUME UNCHANGED <<closed, holder, controller, stage, live>> PROVE ControlInv'
  BY <1>1, ControlLeftAlone DEF MayForget
<1>2. CASE UNCHANGED vars
  BY <1>1, <1>2 DEF vars, sessionVars, hostVars
<1>3. ASSUME NEW o \in Ops, RunAlone(o) \/ DriverStep(o) PROVE ControlInv'
  BY <1>1, <1>3 DEF RunAlone, DriverStep, StartAdmitted, AttachResource, SubmitCompletion,
                    sessionVars, hostVars
<1>4. ASSUME NEW s \in Sessions, QueueStep(s) PROVE ControlInv'
  BY <1>4, QueueControl
<1>5. ASSUME NEW s \in Sessions, ClientStep(s) PROVE ControlInv'
  <2>1. CASE Prompt(s) \/ CancelLive(s) \/ CancelQueued(s)
    BY <1>1, <2>1 DEF Prompt, CancelLive, CancelQueued, sessionVars, hostVars
  <2> QED BY <1>5, <2>1, CloseControl DEF ClientStep
<1>6. ASSUME NEW r \in Requests, OpenStep(r) PROVE ControlInv'
  BY <1>6, OpenControl
<1>7. CASE Crash
  BY <1>7 DEF Crash, HostLost, ControlInv, ControllerInUse, Opening
<1> QED BY <1>2, <1>3, <1>4, <1>5, <1>6, <1>7 DEF Next

LEMMA ControlInvariant == OneAtATime => (Spec => []ControlInv)
<1> SUFFICES ASSUME OneAtATime PROVE Spec => []ControlInv
  OBVIOUS
<1>1. Init => ControlInv
  BY DEF Init, SessionInit, ControlInv, ControllerInUse, Opening
<1>2. TypeInv /\ ControlInv /\ [Next]_vars => ControlInv'
  BY ControlKept
<1>3. Spec => []TypeInv
  BY TypesAtStart, TypesKept, PTL DEF Spec
<1> QED BY <1>1, <1>2, <1>3, PTL DEF Spec

(***************************************************************************)
(* An open Session belongs to the connection that opened it: no detach,    *)
(* failed recovery or other connection takes the controller slot away.     *)
(***************************************************************************)
THEOREM ControllerIsHeld ==
  ASSUME OneAtATime
  PROVE  Spec => []ControllerHeld
<1>1. ControlInv => ControllerHeld
  BY DEF ControlInv, ControllerHeld
<1>2. Spec => []ControlInv
  BY ControlInvariant
<1> QED BY <1>1, <1>2, PTL

(***************************************************************************)
(* The slot never outlives its use: whoever holds it has the Session open  *)
(* or is opening it, also after an opening that failed half-way.           *)
(***************************************************************************)
THEOREM ControllerIsReleased ==
  ASSUME OneAtATime
  PROVE  Spec => []ControllerInUse
<1>1. ControlInv => ControllerInUse
  BY DEF ControlInv
<1>2. Spec => []ControlInv
  BY ControlInvariant
<1> QED BY <1>1, <1>2, PTL

-----------------------------------------------------------------------------
(***************************************************************************)
(* The way in which recovery meets a driver.  releaseLiveSessionIfDetached *)
(* looks at #active, which a prompt in the queue has not set yet, and the  *)
(* parked flags do not say that the driver is gone.  QuietRelease is what  *)
(* the release would have to ensure: no prompt of the object is queued or  *)
(* running, and none of its Operations is driven.  The code does not:      *)
(* NoRecoveryWhileDriving is violated.                                     *)
(***************************************************************************)
Prompted(s) == \E k \in DOMAIN queue[s] : queue[s][k][1] = "prompt"

QuietRelease ==
  \A s \in Sessions : live = s /\ live' = 0 =>
    /\ ~Prompted(s)'
    /\ \A o \in Ops : owner[o] = s => ~Driving(o)'

(* Whoever drives an Operation, or will admit one, is the live object. *)
LiveInv ==
  /\ \A o \in Ops : Driving(o) => live = owner[o]
  /\ \A s \in Sessions : Prompted(s) => live = s

(* A step that brings neither a driver nor a prompt, and at most releases. *)
LEMMA NothingStarts ==
  ASSUME TypeInv, LiveInv, QuietRelease, live' \in {live, 0}, UNCHANGED owner,
         \A o \in Ops : Driving(o)' => Driving(o),
         \A s \in Sessions : Prompted(s)' => Prompted(s)
  PROVE  LiveInv'
<1>1. live \in Sessions \cup {0}
  BY DEF TypeInv, TypeOK, HostTypeOK, Sessions
<1>2. ASSUME NEW o \in Ops, Driving(o)' PROVE live' = owner'[o]
  <2>1. live = owner[o]
    BY <1>2 DEF LiveInv
  <2> QED BY <1>1, <1>2, <2>1 DEF QuietRelease
<1>3. ASSUME NEW s \in Sessions, Prompted(s)' PROVE live' = s
  <2>1. live = s
    BY <1>3 DEF LiveInv
  <2> QED BY <1>3, <2>1 DEF QuietRelease
<1> QED BY <1>2, <1>3 DEF LiveInv

(* The end of an item takes it from its queue; other items are no prompts. *)
LEMMA PromptsLeft ==
  ASSUME TypeInv, NEW s \in Sessions, NEW t \in Sessions, Prompted(t)'
  PROVE  /\ UNCHANGED queue => Prompted(t)
         /\ queue[s] # <<>> /\ Dequeue(s) => Prompted(t)
         /\ \A item \in Item : item[1] # "prompt" /\ Enqueue(s, item) => Prompted(t)
<1> USE DEF TypeInv, TypeOK, SessionTypeOK
<1>1. queue[s] \in Seq(Item) /\ queue[t] \in Seq(Item)
  OBVIOUS
<1>2. PICK k \in DOMAIN queue'[t] : queue'[t][k][1] = "prompt"
  BY DEF Prompted
<1>3. UNCHANGED queue => Prompted(t)
  BY DEF Prompted
<1>4. ASSUME queue[s] # <<>>, Dequeue(s) PROVE Prompted(t)
  <2>1. CASE t # s
    BY <1>2, <1>4, <2>1 DEF Dequeue, Prompted
  <2>2. CASE t = s
    <3>1. queue'[t] = Tail(queue[t])
      BY <1>4, <2>2 DEF Dequeue
    <3>2. k + 1 \in DOMAIN queue[t] /\ queue[t][k + 1] = queue'[t][k]
      BY <1>1, <1>2, <1>4, <2>2, <3>1
    <3> QED BY <1>2, <3>2 DEF Prompted
  <2> QED BY <2>1, <2>2
<1>5. ASSUME NEW item \in Item, item[1] # "prompt", Enqueue(s, item) PROVE Prompted(t)
  <2>1. CASE t # s
    BY <1>2, <1>5, <2>1 DEF Enqueue, Prompted
  <2>2. CASE t = s
    <3>1. queue'[t] = Append(queue[t], item)
      BY <1>5, <2>2 DEF Enqueue
    <3>2. k \in DOMAIN queue[t] /\ queue[t][k] = queue'[t][k]
      BY <1>1, <1>2, <1>5, <3>1
    <3> QED BY <1>2, <3>2 DEF Prompted
  <2> QED BY <2>1, <2>2
<1> QED BY <1>3, <1>4, <1>5

LEMMA QueueStaysLive ==
  ASSUME TypeInv, LiveInv, QuietRelease, NEW s \in Sessions, QueueStep(s)
  PROVE  LiveInv'
<1> USE DEF Serving
<1>1. queue[s] # <<>>
  BY DEF QueueStep, RejectPrompt, QueueInput, InputRefused, DeliverInput, LoadForPrompt,
         AdmitPrompt, AdmissionFails, LoadForCompletion, FinishOperation, LoadForCancel,
         AbortByCancel
<1>2. UNCHANGED queue \/ Dequeue(s)
  BY DEF QueueStep, RejectPrompt, QueueInput, InputRefused, DeliverInput, LoadForPrompt,
         AdmitPrompt, AdmissionFails, LoadForCompletion, FinishOperation, LoadForCancel,
         AbortByCancel, CompletionUnreadable, ParkIndeterminate, SuspendPending,
         AlreadyFinished, DecideOutcome, Proceed
<1>3. \A t \in Sessions : Prompted(t)' => Prompted(t)
  BY <1>1, <1>2, PromptsLeft
<1>4. CASE AdmitPrompt(s)
  <2>1. UNCHANGED live
    BY <1>4 DEF AdmitPrompt, hostVars
  <2>2. PICK o \in Ops : /\ owner' = [owner EXCEPT ![o] = s]
                         /\ phase' = [phase EXCEPT ![o] = "accepted"]
    BY <1>4 DEF AdmitPrompt
  <2>3. Head(queue[s])[1] = "prompt"
    BY <1>4 DEF AdmitPrompt
  <2>4. Prompted(s)
    BY <1>1, <2>3 DEF Prompted, TypeInv, TypeOK, SessionTypeOK
  <2>5. live = s
    BY <2>4 DEF LiveInv
  <2>6. \A p \in Ops : Driving(p)' => live' = owner'[p]
    BY <2>1, <2>2, <2>5 DEF LiveInv, Driving, TypeInv, TypeOK, SessionTypeOK, RunTypeOK
  <2> QED BY <1>3, <2>1, <2>6 DEF LiveInv
<1>5. CASE LoadForCompletion(s) \/ FinishOperation(s)
  <2>1. live' \in {live, 0} /\ UNCHANGED owner
    BY <1>5 DEF LoadForCompletion, FinishOperation, CompletionUnreadable, ParkIndeterminate,
                SuspendPending, AlreadyFinished, DecideOutcome, ReleaseIfDetached, operationVars
  <2>2. UNCHANGED phase \/ \E o : phase' = [phase EXCEPT ![o] = "done"]
    BY <1>5 DEF LoadForCompletion, FinishOperation, CompletionUnreadable, ParkIndeterminate,
                SuspendPending, AlreadyFinished, DecideOutcome, Leaves
  <2>3. \A p \in Ops : Driving(p)' => Driving(p)
    BY <2>2 DEF Driving, TypeInv, TypeOK, RunTypeOK
  <2> QED BY <1>3, <2>1, <2>3, NothingStarts
<1>6. CASE ~AdmitPrompt(s) /\ ~LoadForCompletion(s) /\ ~FinishOperation(s)
  <2>1. UNCHANGED <<live, owner, phase>>
    BY <1>6 DEF QueueStep, RejectPrompt, QueueInput, InputRefused, DeliverInput, LoadForPrompt,
                AdmissionFails, LoadForCancel, AbortByCancel, hostVars, operationVars, runVars
  <2> QED BY <1>3, <2>1, NothingStarts DEF Driving
<1> QED BY <1>4, <1>5, <1>6

LEMMA LiveKept ==
  ASSUME TypeInv, DriverInv, ControlInv, LiveInv, QuietRelease, [Next]_vars
  PROVE  LiveInv'
<1>1. ASSUME UNCHANGED <<queue, owner, phase>>, live' \in {live, 0} PROVE LiveInv'
  <2>1. \A o \in Ops : Driving(o)' => Driving(o)
    BY <1>1 DEF Driving
  <2>2. \A s \in Sessions : Prompted(s)' => Prompted(s)
    BY <1>1 DEF Prompted
  <2> QED BY <1>1, <2>1, <2>2, NothingStarts
<1>2. CASE UNCHANGED vars
  BY <1>1, <1>2 DEF vars, sessionVars, operationVars, runVars, hostVars
<1>3. ASSUME NEW o \in Ops, RunAlone(o) \/ DriverStep(o) PROVE LiveInv'
  <2>1. UNCHANGED <<live, owner>>
    BY <1>3 DEF RunAlone, DriverStep, StartAdmitted, AttachResource, SubmitCompletion,
                operationVars, hostVars
  <2>2. \A p \in Ops : Driving(p)' => Driving(p)
    BY <1>3, RunStartsNoDriver DEF RunAlone
  <2>3. ASSUME NEW s \in Sessions, Prompted(s)' PROVE Prompted(s)
    <3>1. CASE SubmitCompletion(o)
      <4>1. owner[o] \in Sessions /\ <<"complete", o>> \in Item
        BY <3>1 DEF SubmitCompletion, Sessions, Item, TypeInv, TypeOK, SessionTypeOK
      <4>2. Enqueue(owner[o], <<"complete", o>>)
        BY <3>1 DEF SubmitCompletion
      <4> QED BY <2>3, <4>1, <4>2, PromptsLeft
    <3>2. CASE ~SubmitCompletion(o)
      BY <1>3, <2>3, <3>2 DEF RunAlone, DriverStep, StartAdmitted, AttachResource, sessionVars,
                              Prompted
    <3> QED BY <3>1, <3>2
  <2> QED BY <2>1, <2>2, <2>3, NothingStarts
<1>4. ASSUME NEW s \in Sessions, QueueStep(s) PROVE LiveInv'
  BY <1>4, QueueStaysLive
<1>5. ASSUME NEW s \in Sessions, ClientStep(s) PROVE LiveInv'
  <2>1. CASE CancelLive(s)
    BY <1>1, <2>1 DEF CancelLive, sessionVars, hostVars
  <2>2. CASE Close(s)
    BY <1>1, <2>2 DEF Close, ReleaseIfDetached, operationVars, runVars
  <2>3. CASE CancelQueued(s)
    <3>1. /\ UNCHANGED <<live, owner, phase>> /\ Enqueue(s, <<"cancel", 0>>)
          /\ <<"cancel", 0>> \in Item
      BY <2>3 DEF CancelQueued, hostVars, operationVars, runVars, Item
    <3>2. \A t \in Sessions : Prompted(t)' => Prompted(t)
      BY <3>1, PromptsLeft
    <3> QED BY <3>1, <3>2, NothingStarts DEF Driving
  <2>4. CASE Prompt(s)
    <3>1. UNCHANGED <<live, owner, phase>> /\ live = s
      BY <2>4 DEF Prompt, hostVars, operationVars, runVars, ControlInv
    <3>2. \A t \in Sessions \ {s} : Prompted(t)' => Prompted(t)
      BY <2>4 DEF Prompt, Enqueue, Prompted, TypeInv, TypeOK, SessionTypeOK
    <3> QED BY <3>1, <3>2 DEF LiveInv, Driving
  <2> QED BY <1>5, <2>1, <2>2, <2>3, <2>4 DEF ClientStep
<1>6. ASSUME NEW r \in Requests, OpenStep(r) PROVE LiveInv'
  <2>1. UNCHANGED <<queue, owner, phase>>
    BY <1>6 DEF OpenStep, OpenLoad, OpenRefused, OpenAttach, OpenClaim, OpenFinalize, OpenFails,
                OpenRegister, sessionVars, operationVars, runVars
  <2>2. CASE OpenRegister(r)
    <3>1. live = 0
      BY <2>2 DEF OpenRegister, ControlInv, Opening
    <3>2. \A o \in Ops : Driving(o) => owner[o] \in Sessions
      BY DEF DriverInv
    <3>3. /\ \A o \in Ops : ~Driving(o)'
          /\ \A s \in Sessions : ~Prompted(s)'
      BY <2>1, <3>1, <3>2 DEF LiveInv, Driving, Prompted, Sessions
    <3> QED BY <3>3 DEF LiveInv
  <2>3. CASE ~OpenRegister(r)
    <3>1. live' \in {live, 0}
      BY <1>6, <2>3 DEF OpenStep, OpenLoad, OpenRefused, OpenAttach, OpenClaim, OpenFinalize,
                        OpenFails
    <3> QED BY <1>1, <2>1, <3>1
  <2> QED BY <2>2, <2>3
<1>7. CASE Crash
  BY <1>7 DEF Crash, RunLost, HostLost, LiveInv, Prompted, Driving
<1> QED BY <1>2, <1>3, <1>4, <1>5, <1>6, <1>7 DEF Next

(***************************************************************************)
(* host.ts:747, "No journal recovery is allowed while this driver is       *)
(* live", fails through the release alone: as long as no release forgets   *)
(* an object that still drives, or that a prompt is queued on, no request  *)
(* recovers the journal under a driver, for every value of the constants,  *)
(* whatever the clients call and whenever the process dies.                *)
(***************************************************************************)
THEOREM OnlyReleaseUncoversDriver ==
  ASSUME OneAtATime
  PROVE  Spec /\ [][QuietRelease]_vars => []NoRecoveryWhileDriving
<1>1. Init => LiveInv
  BY DEF Init, RunInit, SessionInit, LiveInv, Prompted, Driving
<1>2. Init => DriverInv
  BY DEF Init, RunInit, SessionInit, Idle, At, DriverInv, Driving
<1>3. TypeInv /\ DriverInv /\ [Next]_vars => DriverInv'
  BY DriversKept
<1>4. TypeInv /\ DriverInv /\ ControlInv /\ LiveInv /\ [Next]_vars /\ [QuietRelease]_vars
      => LiveInv'
  <2>1. ASSUME TypeInv, DriverInv, ControlInv, LiveInv, UNCHANGED vars PROVE LiveInv'
    BY <2>1 DEF vars, sessionVars, operationVars, hostVars, runVars, LiveInv, Prompted, Driving
  <2> QED BY <2>1, LiveKept
<1>5. DriverInv /\ ControlInv /\ LiveInv => NoRecoveryWhileDriving
  BY DEF DriverInv, ControlInv, LiveInv, NoRecoveryWhileDriving, Opening, Sessions
<1>6. Spec => []TypeInv
  BY TypesAtStart, TypesKept, PTL DEF Spec
<1>7. Spec => []ControlInv
  BY ControlInvariant
<1> QED BY <1>1, <1>2, <1>3, <1>4, <1>5, <1>6, <1>7, PTL DEF Spec

-----------------------------------------------------------------------------
(***************************************************************************)
(* An effect follows its intent, for every value of the constants: the     *)
(* inductive invariant behind EffectNeedsIntent.  It says which attempts   *)
(* of an Operation may have a tool_dispatched record while its run, or a   *)
(* call the run abandoned, stands where it stands.                         *)
(***************************************************************************)

(* The phases in which a run may have abandoned a call. *)
AfterTool == {"result", "drain", "failing", "closing", "ended", "completing", "done"}

(* An abandoned call belongs to an aborted run that never asks again. *)
LateAfterAbort(o) == late[o] # "none" => abort[o] /\ phase[o] \in AfterTool

AtGate(o) == phase[o] \in {"asking", "replied", "gate"} \/ late[o] = "gate"

AtIntent(o) == phase[o] = "t1" \/ late[o] = "t1"

EffectSafe(o) ==
  /\ phase[o] = "none" <=> ~Accepted(o)
  /\ phase[o] = "none" => turn[o] = 0
  /\ LateAfterAbort(o)
  /\ phase[o] # "lost" => \A t \in Dispatched(o) : t <= turn[o]
  /\ AtGate(o) => turn[o] \notin Dispatched(o)
  /\ AtIntent(o) => turn[o] \in Dispatched(o) /\ ran[<<o, turn[o]>>] = 0
  /\ \A t \in Attempts : ran[<<o, t>>] <= 1 /\ (ran[<<o, t>>] > 0 => t \in Dispatched(o))

InRun(o) == phase[o] \notin {"none", "lost"}

(* A completion that waits, or has decided, belongs to a run of this process. *)
CompletionKnown(s) ==
  /\ \A k \in DOMAIN queue[s] : queue[s][k][1] = "complete" => InRun(queue[s][k][2])
  /\ work[s].step = "finish" => InRun(work[s].op)

EffectInv ==
  /\ \A o \in Ops : EffectSafe(o)
  /\ \A s \in Sessions : CompletionKnown(s)

-----------------------------------------------------------------------------
(* What the three ways to treat the journal do to the intents in it. *)
SameIntents(p) == Dispatched(p)' = Dispatched(p) /\ (Accepted(p)' <=> Accepted(p))

LEMMA JournalKeptIntents ==
  ASSUME UNCHANGED journal
  PROVE  \A p \in Ops : SameIntents(p)
BY DEF SameIntents, Dispatched, Accepted

LEMMA AppendedIntents ==
  ASSUME TypeInv, NEW o \in Ops, NEW record \in Record, AppendRecord(o, record)
  PROVE  /\ \A p \in Ops \ {o} : SameIntents(p)
         /\ Accepted(o)' <=> Accepted(o)
         /\ record.type # "tool_dispatched" => Dispatched(o)' = Dispatched(o)
         /\ record.type = "tool_dispatched" => Dispatched(o)' = Dispatched(o) \cup {record.id}
<1>1. journal \in [Ops -> Seq(Record)] /\ journal' = [journal EXCEPT ![o] = Append(journal[o], record)]
  BY DEF TypeInv, TypeOK, PersistenceTypeOK, AppendRecord
<1>2. \A p \in Ops \ {o} : SameIntents(p)
  BY <1>1 DEF SameIntents, Dispatched, Accepted
<1> DEFINE before == journal[o]
           after == journal'[o]
<1>3. before \in Seq(Record) /\ after = Append(before, record)
  BY <1>1
<1>4. before # <<>> /\ after # <<>>
  BY <1>3 DEF AppendRecord, MayAppendTo, OperationAppendAllowed
<1>5. /\ DOMAIN after = DOMAIN before \cup {Len(before) + 1}
      /\ \A k \in DOMAIN before : after[k] = before[k]
      /\ after[Len(before) + 1] = record
      /\ Len(before) + 1 \notin DOMAIN before
  BY <1>3
<1> HIDE DEF before, after
<1>6. CASE record.type # "tool_dispatched"
  <2>1. Of(after, "tool_dispatched") = Of(before, "tool_dispatched")
    BY <1>5, <1>6 DEF Of
  <2>2. {after[k].id : k \in Of(after, "tool_dispatched")}
          = {before[k].id : k \in Of(before, "tool_dispatched")}
    BY <1>5, <2>1 DEF Of
  <2> QED BY <1>2, <1>4, <1>6, <2>2 DEF Dispatched, Accepted, before, after
<1>7. CASE record.type = "tool_dispatched"
  <2>1. Of(after, "tool_dispatched") = Of(before, "tool_dispatched") \cup {Len(before) + 1}
    BY <1>5, <1>7 DEF Of
  <2>2. {after[k].id : k \in Of(after, "tool_dispatched")}
          = {before[k].id : k \in Of(before, "tool_dispatched")} \cup {record.id}
    BY <1>5, <2>1 DEF Of
  <2> QED BY <1>2, <1>4, <1>7, <2>2 DEF Dispatched, Accepted, before, after
<1> QED BY <1>6, <1>7

LEMMA AdmittedIntents ==
  ASSUME TypeInv, NEW o \in Ops, NEW leaf, ~Accepted(o), AdmitTransaction(o, leaf)
  PROVE  /\ \A p \in Ops \ {o} : SameIntents(p)
         /\ Accepted(o)'
         /\ Dispatched(o) = {} /\ Dispatched(o)' = {}
<1>1. /\ journal \in [Ops -> Seq(Record)]
      /\ journal' = [journal EXCEPT ![o] = <<OperationAccepted(o, InputEntry(o))>>]
  BY DEF TypeInv, TypeOK, PersistenceTypeOK, AdmitTransaction
<1>2. journal[o] = <<>> /\ journal'[o] = <<OperationAccepted(o, InputEntry(o))>>
  BY <1>1 DEF Accepted
<1>3. Of(journal[o], "tool_dispatched") = {} /\ Of(journal'[o], "tool_dispatched") = {}
  BY <1>2 DEF Of, OperationAccepted
<1> QED BY <1>1, <1>2, <1>3 DEF SameIntents, Dispatched, Accepted

(***************************************************************************)
(* Steps that leave the run of p and its intents alone, or only move it    *)
(* between phases no intent depends on.                                    *)
(***************************************************************************)
SameRun(p) ==
  /\ phase'[p] = phase[p]
  /\ turn'[p] = turn[p]
  /\ late'[p] = late[p]
  /\ abort[p] => abort'[p]
  /\ \A t \in Attempts : ran'[<<p, t>>] = ran[<<p, t>>]

LEMMA SameRunSafe ==
  ASSUME TypeInv, NEW p \in Ops, EffectSafe(p), SameIntents(p), SameRun(p)
  PROVE  EffectSafe(p)'
<1>1. AtIntent(p) => turn[p] \in Attempts
  BY DEF AtIntent, TypeInv, TurnKnown
<1> QED BY <1>1 DEF EffectSafe, SameIntents, SameRun, LateAfterAbort, AtGate, AtIntent

LEMMA RunSparesOthers ==
  ASSUME TypeInv, NEW o \in Ops, NEW p \in Ops, p # o, RunStep(o)
  PROVE  SameRun(p)
<1> USE DEF SameRun, Goes, TypeInv, TypeOK, RunTypeOK
<1>1. CASE LoopStep(o) /\ ~ExecuteTool(o)
  BY <1>1
     DEF LoopStep, BuildAgent, BuildFails, StartRun, BeginLoop, InjectInput, InjectFails,
         AttemptModel, AttemptRefused, DiscardReply, GiveUpRepair, CommitReply, CommitRefused,
         AbandonTool, PublishResult, PublishRefused, StopOnAbort, TakeInput,
         NextRequest, NothingLeft, ReachLimit, ReportFailure, FinishRun
<1>2. CASE ProviderStep(o)
  BY <1>2 DEF ProviderStep, SettleUsage, SettleRefused
<1>3. CASE ToolStep(o) \/ LateDispatch(o)
  BY <1>3 DEF ToolStep, RefuseTool, DispatchTool, DispatchRefused, ToolReturns, LateDispatch
<1>4. CASE ExecuteTool(o) \/ LateExecute(o)
  <2>1. \A t \in Attempts : <<p, t>> \in Calls /\ <<p, t>> # <<o, turn[o]>>
    BY DEF Calls
  <2>2. ran' = [ran EXCEPT ![<<o, turn[o]>>] = ran[<<o, turn[o]>>] + 1]
    BY <1>4 DEF ExecuteTool, LateExecute
  <2>3. \A t \in Attempts : ran'[<<p, t>>] = ran[<<p, t>>]
    BY <2>1, <2>2
  <2> QED BY <1>4, <2>3 DEF ExecuteTool, LateExecute
<1> QED BY <1>1, <1>2, <1>3, <1>4 DEF RunStep, LateStep

(***************************************************************************)
(* A step that only moves the run of p between phases: it never reaches    *)
(* the gate or T1, and an aborted run stays past its tool.                 *)
(***************************************************************************)
Quiet(p) ==
  /\ InRun(p)
  /\ phase'[p] \notin {"none", "lost", "t1"}
  /\ phase'[p] \in {"asking", "replied", "gate"} => phase[p] \in {"asking", "replied", "gate"}
  /\ abort[p] /\ phase[p] \in AfterTool => phase'[p] \in AfterTool
  /\ turn'[p] = turn[p]
  /\ late'[p] = late[p]
  /\ abort'[p] = abort[p]
  /\ \A t \in Attempts : ran'[<<p, t>>] = ran[<<p, t>>]

LEMMA QuietSafe ==
  ASSUME TypeInv, NEW p \in Ops, EffectSafe(p), SameIntents(p), Quiet(p)
  PROVE  EffectSafe(p)'
<1>1. AtIntent(p) => turn[p] \in Attempts
  BY DEF AtIntent, TypeInv, TurnKnown
<1> QED BY <1>1 DEF EffectSafe, SameIntents, Quiet, InRun, LateAfterAbort, AtGate, AtIntent

(* The loop's own phases, apart from the attempt and the tool. *)
LEMMA LoopQuiet ==
  ASSUME TypeInv, NEW o \in Ops, LoopStep(o),
         ~AttemptModel(o), ~ExecuteTool(o), ~AbandonTool(o)
  PROVE  UNCHANGED journal /\ Quiet(o)
<1> USE RefusalsKeepJournal
    DEF Quiet, InRun, AfterTool, Goes, TypeInv, TypeOK, RunTypeOK
<1>1. CASE BuildAgent(o) \/ BuildFails(o) \/ StartRun(o) \/ BeginLoop(o)
  BY <1>1 DEF BuildAgent, BuildFails, StartRun, BeginLoop
<1>2. CASE InjectInput(o) \/ InjectFails(o) \/ AttemptRefused(o)
  BY <1>2 DEF InjectInput, InjectFails, AttemptRefused
<1>3. CASE DiscardReply(o) \/ GiveUpRepair(o) \/ CommitRefused(o)
  BY <1>3 DEF DiscardReply, GiveUpRepair, CommitRefused
<1>4. CASE CommitReply(o)
  BY <1>4 DEF CommitReply, AfterReply
<1>5. CASE PublishResult(o) \/ PublishRefused(o) \/ StopOnAbort(o) \/ NothingLeft(o)
  BY <1>5 DEF PublishResult, PublishRefused, StopOnAbort, NothingLeft
<1>6. CASE TakeInput(o) \/ NextRequest(o)
  BY <1>6 DEF TakeInput, NextRequest, NextTurn
<1>7. CASE ReachLimit(o) \/ ReportFailure(o) \/ FinishRun(o)
  BY <1>7 DEF ReachLimit, ReportFailure, FinishRun
<1> QED BY <1>1, <1>2, <1>3, <1>4, <1>5, <1>6, <1>7 DEF LoopStep

LEMMA ProviderQuiet ==
  ASSUME TypeInv, NEW o \in Ops, ProviderStep(o)
  PROVE  Quiet(o) /\ \A p \in Ops : SameIntents(p)
<1> USE DEF Quiet, InRun, AfterTool, Goes, TypeInv, TypeOK, RunTypeOK
<1>1. CASE SettleRefused(o)
  BY <1>1, RefusalsKeepJournal, JournalKeptIntents DEF SettleRefused
<1>2. ASSUME NEW r \in Reply, SettleUsage(o, r) PROVE Quiet(o) /\ \A p \in Ops : SameIntents(p)
  <2>1. turn[o] \in Attempts
    BY <1>2 DEF SettleUsage, TurnKnown
  <2>2. UsageSettled(o, turn[o]) \in Record /\ UsageSettled(o, turn[o]).type = "usage_settled"
    BY <2>1, RecordTypes DEF UsageSettled
  <2>3. \A p \in Ops : SameIntents(p)
    BY <1>2, <2>2, AppendedIntents DEF SettleUsage, SameIntents
  <2>4. Quiet(o)
    BY <1>2 DEF SettleUsage
  <2> QED BY <2>3, <2>4
<1> QED BY <1>1, <1>2 DEF ProviderStep

LEMMA DispatchedTyped ==
  ASSUME TypeInv, NEW o \in Ops
  PROVE  Dispatched(o) \subseteq Attempts
<1>1. journal[o] \in Seq(Record)
  BY DEF TypeInv, TypeOK, PersistenceTypeOK
<1>2. ASSUME NEW k \in Of(journal[o], "tool_dispatched") PROVE journal[o][k].id \in Attempts
  <2>1. journal[o][k] \in Record /\ journal[o][k].type = "tool_dispatched"
    BY <1>1, <1>2 DEF Of
  <2> QED BY <2>1 DEF Record
<1> QED BY <1>2 DEF Dispatched

(***************************************************************************)
(* T1 and the tool: the steps the invariant is about.                      *)
(***************************************************************************)
LEMMA DispatchedIntents ==
  ASSUME TypeInv, NEW o \in Ops, turn[o] \in Attempts, Dispatch(o)
  PROVE  /\ \A p \in Ops \ {o} : SameIntents(p)
         /\ Accepted(o)' <=> Accepted(o)
         /\ Dispatched(o)' = Dispatched(o) \cup {turn[o]}
<1> DEFINE record == ToolDispatched(o, turn[o], AssistantEntry(o, turn[o]), ResultEntry(o, turn[o]))
<1>1. record \in Record /\ record.type = "tool_dispatched" /\ record.id = turn[o]
  BY RecordTypes DEF ToolDispatched
<1>2. AppendRecord(o, record)
  BY DEF Dispatch
<1> HIDE DEF record
<1> QED BY <1>1, <1>2, AppendedIntents

LEMMA ToolKeepsEffects ==
  ASSUME TypeInv, NEW o \in Ops, EffectSafe(o),
         \/ ToolStep(o) \/ LateStep(o) \/ ExecuteTool(o) \/ AbandonTool(o) \/ AttemptModel(o)
  PROVE  EffectSafe(o)' /\ \A p \in Ops \ {o} : SameIntents(p)
<1> DEFINE Others == \A p \in Ops \ {o} : SameIntents(p)
<1> USE DEF Goes, TypeInv, TypeOK, RunTypeOK
<1>1. CASE AttemptModel(o)
  <2>1. turn[o] + 1 \in Attempts
    BY <1>1, BoundsAssumption DEF AttemptModel, Attempts
  <2> DEFINE record == ModelAttempted(o, turn[o] + 1, AssistantEntry(o, turn[o] + 1))
  <2>2. record \in Record /\ record.type = "model_attempted" /\ AppendRecord(o, record)
    BY <1>1, <2>1, RecordTypes DEF AttemptModel, ModelAttempted
  <2> HIDE DEF record
  <2>3. Others /\ Dispatched(o)' = Dispatched(o) /\ (Accepted(o)' <=> Accepted(o))
    BY <2>2, AppendedIntents
  <2>4. /\ phase[o] = "turn" /\ phase'[o] = "asking" /\ turn'[o] = turn[o] + 1
        /\ late' = late /\ abort' = abort /\ ran' = ran
    BY <1>1 DEF AttemptModel
  <2>5. late[o] = "none"
    BY <2>4 DEF EffectSafe, LateAfterAbort, AfterTool
  <2>6. \A t \in Dispatched(o) : t <= turn[o]
    BY <2>4 DEF EffectSafe
  <2>7. turn[o] \in Nat /\ \A t \in Dispatched(o)' : t <= turn'[o]
    BY <2>1, <2>3, <2>4, <2>6, DispatchedTyped DEF Attempts
  <2>8. turn'[o] \notin Dispatched(o)'
    BY <2>3, <2>4, <2>6, <2>7, DispatchedTyped DEF Attempts
  <2> QED BY <2>3, <2>4, <2>5, <2>7, <2>8 DEF EffectSafe, LateAfterAbort, AtGate, AtIntent
<1>2. CASE RefuseTool(o) \/ DispatchRefused(o) \/ ToolReturns(o)
  <2>1. UNCHANGED journal
    BY <1>2, RefusalsKeepJournal DEF RefuseTool, DispatchRefused, ToolReturns
  <2>2. Quiet(o)
    BY <1>2 DEF RefuseTool, DispatchRefused, ToolReturns, Quiet, InRun, AfterTool
  <2> QED BY <2>1, <2>2, JournalKeptIntents, QuietSafe
<1>3. CASE DispatchTool(o)
  <2>1. turn[o] \in Attempts /\ turn[o] \notin Dispatched(o)
    BY <1>3 DEF DispatchTool, TurnKnown, EffectSafe, AtGate
  <2>2. Others /\ (Accepted(o)' <=> Accepted(o)) /\ Dispatched(o)' = Dispatched(o) \cup {turn[o]}
    BY <1>3, <2>1, DispatchedIntents DEF DispatchTool
  <2>3. /\ phase[o] = "gate" /\ phase'[o] = "t1"
        /\ turn' = turn /\ late' = late /\ abort' = abort /\ ran' = ran
    BY <1>3 DEF DispatchTool
  <2>4. late[o] = "none"
    BY <2>3 DEF EffectSafe, LateAfterAbort, AfterTool
  <2>5. ran[<<o, turn[o]>>] = 0
    BY <2>1 DEF EffectSafe, Calls
  <2> QED BY <2>1, <2>2, <2>3, <2>4, <2>5 DEF EffectSafe, LateAfterAbort, AtGate, AtIntent, Attempts
<1>4. CASE ExecuteTool(o) \/ LateExecute(o)
  <2>1. UNCHANGED journal
    BY <1>4 DEF ExecuteTool, LateExecute, persistenceVars
  <2>2. turn[o] \in Attempts /\ turn[o] \in Dispatched(o) /\ ran[<<o, turn[o]>>] = 0
    BY <1>4 DEF ExecuteTool, LateExecute, TurnKnown, EffectSafe, AtIntent
  <2>3. ran' = [ran EXCEPT ![<<o, turn[o]>>] = ran[<<o, turn[o]>>] + 1]
    BY <1>4 DEF ExecuteTool, LateExecute
  <2>4. \A t \in Attempts : ran'[<<o, t>>] = IF t = turn[o] THEN 1 ELSE ran[<<o, t>>]
    BY <2>2, <2>3 DEF Calls
  <2>5. \/ phase[o] = "t1" /\ phase'[o] = "tool" /\ late' = late
        \/ late[o] = "t1" /\ late'[o] = "none" /\ phase' = phase
    BY <1>4 DEF ExecuteTool, LateExecute
  <2>6. turn' = turn /\ abort' = abort
    BY <1>4 DEF ExecuteTool, LateExecute
  <2>7. SameIntents(o) /\ Others
    BY <2>1, JournalKeptIntents
  <2>8. ASSUME NEW t \in Attempts
        PROVE  ran'[<<o, t>>] <= 1 /\ (ran'[<<o, t>>] > 0 => t \in Dispatched(o)')
    <3>1. CASE t = turn[o]
      <4>1. ran'[<<o, t>>] = 1
        BY <2>4, <3>1
      <4>2. t \in Dispatched(o)'
        BY <2>2, <2>7, <3>1 DEF SameIntents
      <4> QED BY <4>1, <4>2
    <3>2. CASE t # turn[o]
      <4>1. ran'[<<o, t>>] = ran[<<o, t>>]
        BY <2>4, <3>2
      <4> QED BY <2>7, <4>1 DEF EffectSafe, SameIntents
    <3> QED BY <3>1, <3>2
  <2>9. late'[o] = "none" /\ phase'[o] \notin {"t1", "asking", "replied", "gate", "none"}
    BY <2>5 DEF EffectSafe, LateAfterAbort, AfterTool
  <2>10. phase[o] \notin {"none", "lost"}
    BY <2>5 DEF EffectSafe, LateAfterAbort, AfterTool
  <2> QED BY <2>6, <2>7, <2>8, <2>9, <2>10
          DEF EffectSafe, SameIntents, LateAfterAbort, AfterTool, AtGate, AtIntent
<1>5. CASE AbandonTool(o)
  <2>1. UNCHANGED journal
    BY <1>5 DEF AbandonTool, persistenceVars
  <2>2. SameIntents(o) /\ Others
    BY <2>1, JournalKeptIntents
  <2>3. PICK p \in {"gate", "t1", "tool"} :
          /\ phase[o] = p /\ phase'[o] = "result"
          /\ late'[o] = IF p = "tool" THEN "none" ELSE p
    BY <1>5 DEF AbandonTool
  <2>4. turn' = turn /\ abort' = abort /\ ran' = ran /\ abort[o]
    BY <1>5 DEF AbandonTool
  <2> QED BY <2>2, <2>3, <2>4
          DEF EffectSafe, SameIntents, LateAfterAbort, AfterTool, AtGate, AtIntent
<1>6. CASE LateDispatch(o)
  <2>1. turn[o] \in Attempts /\ turn[o] \notin Dispatched(o) /\ late[o] = "gate"
    BY <1>6 DEF LateDispatch, TurnKnown, EffectSafe, AtGate
  <2>2. ran[<<o, turn[o]>>] = 0
    BY <2>1 DEF EffectSafe, Calls
  <2>3. phase' = phase /\ turn' = turn /\ abort' = abort /\ ran' = ran
    BY <1>6 DEF LateDispatch
  <2>4. phase[o] \in AfterTool
    BY <2>1 DEF EffectSafe, LateAfterAbort
  <2>5. CASE Dispatch(o) /\ late' = [late EXCEPT ![o] = "t1"]
    <3>1. Others /\ (Accepted(o)' <=> Accepted(o)) /\ Dispatched(o)' = Dispatched(o) \cup {turn[o]}
      BY <2>1, <2>5, DispatchedIntents
    <3> QED BY <2>1, <2>2, <2>3, <2>4, <2>5, <3>1
            DEF EffectSafe, LateAfterAbort, AfterTool, AtGate, AtIntent, Attempts
  <2>6. CASE RecordRefused(o) /\ late' = [late EXCEPT ![o] = "none"]
    <3>1. SameIntents(o) /\ Others
      BY <2>6, RefusalsKeepJournal, JournalKeptIntents
    <3> QED BY <2>1, <2>3, <2>4, <2>6, <3>1
            DEF EffectSafe, SameIntents, LateAfterAbort, AfterTool, AtGate, AtIntent
  <2> QED BY <1>6, <2>5, <2>6 DEF LateDispatch
<1> QED BY <1>1, <1>2, <1>3, <1>4, <1>5, <1>6 DEF ToolStep, LateStep

LEMMA RunKeepsEffects ==
  ASSUME TypeInv, EffectInv, NEW o \in Ops, RunStep(o)
  PROVE  \A p \in Ops : EffectSafe(p)'
<1>1. EffectSafe(o)' /\ \A p \in Ops \ {o} : SameIntents(p)
  <2>1. CASE LoopStep(o) /\ ~AttemptModel(o) /\ ~ExecuteTool(o) /\ ~AbandonTool(o)
    BY <2>1, LoopQuiet, JournalKeptIntents, QuietSafe DEF EffectInv
  <2>2. CASE ProviderStep(o)
    BY <2>2, ProviderQuiet, QuietSafe DEF EffectInv
  <2>3. CASE \/ ToolStep(o) \/ LateStep(o) \/ ExecuteTool(o) \/ AbandonTool(o) \/ AttemptModel(o)
    BY <2>3, ToolKeepsEffects DEF EffectInv
  <2> QED BY <2>1, <2>2, <2>3 DEF RunStep
<1>2. ASSUME NEW p \in Ops, p # o PROVE EffectSafe(p)'
  BY <1>1, <1>2, RunSparesOthers, SameRunSafe DEF EffectInv
<1> QED BY <1>1, <1>2

-----------------------------------------------------------------------------
(* A step that touches no run. *)
RunsKept == UNCHANGED <<phase, turn, late, abort, ran>>

LEMMA RunsKeptSafe ==
  ASSUME TypeInv, EffectInv, RunsKept, \A p \in Ops : SameIntents(p)
  PROVE  \A p \in Ops : EffectSafe(p)'
BY SameRunSafe DEF EffectInv, RunsKept, SameRun

(* A record of any type but tool_dispatched. *)
LEMMA OtherRecordIntents ==
  ASSUME TypeInv, NEW o \in Ops
  PROVE  /\ \A i \in Inputs :
              AppendRecord(o, InputQueued(o, i, QueuedEntry(o, i))) => \A p \in Ops : SameIntents(p)
         /\ \A outcome \in TerminalOutcome :
              AppendRecord(o, OperationFinished(o, outcome)) => \A p \in Ops : SameIntents(p)
<1>1. ASSUME NEW record \in Record, record.type # "tool_dispatched", AppendRecord(o, record)
      PROVE  \A p \in Ops : SameIntents(p)
  BY <1>1, AppendedIntents DEF SameIntents
<1>2. ASSUME NEW i \in Inputs
      PROVE  /\ InputQueued(o, i, QueuedEntry(o, i)) \in Record
             /\ InputQueued(o, i, QueuedEntry(o, i)).type = "input_queued"
  BY RecordTypes DEF InputQueued
<1>3. ASSUME NEW outcome \in TerminalOutcome
      PROVE  /\ OperationFinished(o, outcome) \in Record
             /\ OperationFinished(o, outcome).type = "operation_finished"
  BY RecordTypes DEF OperationFinished
<1> QED BY <1>1, <1>2, <1>3

LEMMA RefusedIntents ==
  ASSUME UNCHANGED persistenceVars \/ DatabaseFails \/ \E o \in Ops : RecordRefused(o)
  PROVE  \A p \in Ops : SameIntents(p)
BY RefusalsKeepJournal, JournalKeptIntents

LEMMA CompletionKeepsEffects ==
  ASSUME TypeInv, EffectInv, NEW s \in Sessions, LoadForCompletion(s) \/ FinishOperation(s)
  PROVE  \A p \in Ops : EffectSafe(p)'
<1> DEFINE Ends(o) == /\ phase' = [phase EXCEPT ![o] = "done"]
                      /\ UNCHANGED <<turn, late, abort, ran>>
                      /\ InRun(o)
<1>1. ASSUME NEW o \in Ops, Ends(o), \A p \in Ops : SameIntents(p)
      PROVE  \A p \in Ops : EffectSafe(p)'
  <2>1. Quiet(o)
    BY <1>1 DEF Quiet, InRun, AfterTool, TypeInv, TypeOK, RunTypeOK
  <2>2. \A p \in Ops \ {o} : SameRun(p)
    BY <1>1 DEF SameRun, TypeInv, TypeOK, RunTypeOK
  <2> QED BY <1>1, <2>1, <2>2, QuietSafe, SameRunSafe DEF EffectInv
<1>2. CASE LoadForCompletion(s)
  <2> DEFINE o == Head(queue[s])[2]
  <2>1. queue[s] # <<>> /\ queue[s] \in Seq(Item) /\ Head(queue[s])[1] = "complete"
    BY <1>2 DEF LoadForCompletion, Serving, TypeInv, TypeOK, SessionTypeOK
  <2>2. 1 \in DOMAIN queue[s] /\ Head(queue[s]) = queue[s][1] /\ Head(queue[s]) \in Item
    BY <2>1
  <2>3. o \in Ops
    BY <2>1, <2>2 DEF Item
  <2>4. InRun(o)
    BY <2>1, <2>2 DEF EffectInv, CompletionKnown
  <2>5. UNCHANGED <<turn, late, abort, ran>>
    BY <1>2 DEF LoadForCompletion
  <2> HIDE DEF o
  <2>6. CASE DecideOutcome(s, o)
    <3>1. RunsKept
      BY <2>5, <2>6 DEF DecideOutcome, RunsKept
    <3> QED BY <2>6, <3>1, RefusedIntents, RunsKeptSafe DEF DecideOutcome
  <2>7. CASE \/ CompletionUnreadable(s, o) \/ ParkIndeterminate(s, o)
             \/ SuspendPending(s, o) \/ AlreadyFinished(s, o)
    <3>1. Ends(o)
      BY <2>4, <2>5, <2>7 DEF CompletionUnreadable, ParkIndeterminate, SuspendPending,
                              AlreadyFinished, Leaves
    <3>2. \A p \in Ops : SameIntents(p)
      BY <2>7, RefusedIntents DEF CompletionUnreadable, ParkIndeterminate, SuspendPending,
                                  AlreadyFinished
    <3> QED BY <1>1, <2>3, <3>1, <3>2
  <2> QED BY <1>2, <2>6, <2>7 DEF LoadForCompletion, o
<1>3. CASE FinishOperation(s)
  <2> DEFINE o == work[s].op
             v == work[s].verdict
  <2>1. o \in Ops /\ InRun(o)
    BY <1>3 DEF FinishOperation, Serving, TypeInv, WorkKnown, Known, EffectInv, CompletionKnown
  <2>2. v \in Verdict
    BY DEF TypeInv, TypeOK, SessionTypeOK, Work
  <2>3. AppendRecord(o, OperationFinished(o, TerminalOutcomeFor(o, v))) \/ RecordRefused(o)
    BY <1>3 DEF FinishOperation
  <2>4. \A p \in Ops : SameIntents(p)
    BY <2>1, <2>2, <2>3, OutcomeOfCompletion, OtherRecordIntents, RefusedIntents
  <2>5. Ends(o)
    BY <1>3, <2>1 DEF FinishOperation, Leaves
  <2> QED BY <1>1, <2>1, <2>4, <2>5
<1> QED BY <1>2, <1>3

LEMMA AdmissionKeepsEffects ==
  ASSUME TypeInv, EffectInv, NEW s \in Sessions, AdmitPrompt(s)
  PROVE  \A p \in Ops : EffectSafe(p)'
<1>1. PICK o \in Ops : /\ \A p \in Ops : Accepted(p) <=> p < o
                       /\ AdmitTransaction(o, work[s].leaf)
                       /\ phase' = [phase EXCEPT ![o] = "accepted"]
  BY DEF AdmitPrompt
<1>2. UNCHANGED <<turn, late, abort, ran>>
  BY DEF AdmitPrompt
<1>3. ~Accepted(o)
  BY <1>1 DEF Ops
<1>4. /\ \A p \in Ops \ {o} : SameIntents(p)
      /\ Accepted(o)' /\ Dispatched(o) = {} /\ Dispatched(o)' = {}
  BY <1>1, <1>3, AdmittedIntents
<1>5. phase[o] = "none" /\ late[o] = "none" /\ turn[o] = 0
  BY <1>3 DEF EffectInv, EffectSafe, LateAfterAbort, AfterTool
<1>6. \A p \in Ops \ {o} : SameRun(p)
  BY <1>1, <1>2 DEF SameRun, TypeInv, TypeOK, RunTypeOK
<1>7. EffectSafe(o)'
  BY <1>1, <1>2, <1>4, <1>5
     DEF EffectInv, EffectSafe, LateAfterAbort, AtGate, AtIntent, TypeInv, TypeOK, RunTypeOK
<1> QED BY <1>4, <1>6, <1>7, SameRunSafe DEF EffectInv

LEMMA QueueKeepsEffects ==
  ASSUME TypeInv, EffectInv, NEW s \in Sessions, QueueStep(s)
  PROVE  \A p \in Ops : EffectSafe(p)'
<1>1. CASE AdmitPrompt(s)
  BY <1>1, AdmissionKeepsEffects
<1>2. CASE LoadForCompletion(s) \/ FinishOperation(s)
  BY <1>2, CompletionKeepsEffects
<1>3. CASE QueueInput(s)
  <2>1. \A p \in Ops : SameIntents(p)
    BY <1>3, ActiveOp, OtherRecordIntents DEF QueueInput
  <2> QED BY <1>3, <2>1, RunsKeptSafe DEF QueueInput, runVars, RunsKept
<1>4. CASE AbortByCancel(s)
  <2>1. work[s].op \in Ops
    BY <1>4 DEF AbortByCancel, Serving, TypeInv, WorkKnown, Known
  <2>2. \A p \in Ops : SameIntents(p)
    BY <1>4, <2>1, OtherRecordIntents, RefusedIntents DEF AbortByCancel, TerminalOutcome
  <2> QED BY <1>4, <2>2, RunsKeptSafe DEF AbortByCancel, runVars, RunsKept
<1>5. CASE InputRefused(s)
  <2>1. \A p \in Ops : SameIntents(p)
    BY <1>5, ActiveOp, RefusedIntents DEF InputRefused
  <2> QED BY <1>5, <2>1, RunsKeptSafe DEF InputRefused, runVars, RunsKept
<1>6. CASE \/ RejectPrompt(s) \/ DeliverInput(s) \/ LoadForPrompt(s) \/ AdmissionFails(s)
           \/ LoadForCancel(s)
  <2>1. UNCHANGED journal
    BY <1>6, RefusalsKeepJournal
       DEF RejectPrompt, DeliverInput, LoadForPrompt, AdmissionFails, AdmitRefused, LoadForCancel
  <2>2. RunsKept
    BY <1>6 DEF RejectPrompt, DeliverInput, LoadForPrompt, AdmissionFails, LoadForCancel,
                runVars, RunsKept
  <2> QED BY <2>1, <2>2, JournalKeptIntents, RunsKeptSafe
<1> QED BY <1>1, <1>2, <1>3, <1>4, <1>5, <1>6 DEF QueueStep

LEMMA DriverKeepsEffects ==
  ASSUME TypeInv, EffectInv, NEW o \in Ops, DriverStep(o)
  PROVE  \A p \in Ops : EffectSafe(p)'
<1> USE DEF Goes, TypeInv, TypeOK, RunTypeOK, SessionTypeOK
<1>1. \A p \in Ops : SameIntents(p)
  BY JournalKeptIntents
     DEF DriverStep, StartAdmitted, AttachResource, SubmitCompletion, persistenceVars
<1>2. CASE AttachResource(o)
  <2>1. \A p \in Ops : SameRun(p)
    BY <1>2 DEF AttachResource, SameRun
  <2> QED BY <1>1, <2>1, SameRunSafe DEF EffectInv
<1>3. CASE StartAdmitted(o) \/ SubmitCompletion(o)
  <2>1. Quiet(o)
    BY <1>3 DEF StartAdmitted, SubmitCompletion, Quiet, InRun, AfterTool
  <2>2. \A p \in Ops \ {o} : SameRun(p)
    BY <1>3 DEF StartAdmitted, SubmitCompletion, SameRun
  <2> QED BY <1>1, <2>1, <2>2, QuietSafe, SameRunSafe DEF EffectInv
<1> QED BY <1>2, <1>3 DEF DriverStep

LEMMA HostKeepsEffects ==
  ASSUME TypeInv, EffectInv,
         (\E s \in Sessions : ClientStep(s)) \/ (\E r \in Requests : OpenStep(r))
  PROVE  \A p \in Ops : EffectSafe(p)'
<1>1. ASSUME NEW s \in Sessions, CancelLive(s) PROVE \A p \in Ops : EffectSafe(p)'
  <2>1. \A p \in Ops : SameIntents(p)
    BY <1>1, JournalKeptIntents DEF CancelLive, persistenceVars
  <2>2. \A p \in Ops : SameRun(p)
    BY <1>1 DEF CancelLive, SameRun, TypeInv, TypeOK, RunTypeOK
  <2> QED BY <2>1, <2>2, SameRunSafe DEF EffectInv
<1>2. ASSUME NEW s \in Sessions, Prompt(s) \/ CancelQueued(s) \/ Close(s)
      PROVE  \A p \in Ops : EffectSafe(p)'
  <2>1. UNCHANGED journal /\ RunsKept
    BY <1>2 DEF Prompt, CancelQueued, Close, persistenceVars, runVars, RunsKept
  <2> QED BY <2>1, JournalKeptIntents, RunsKeptSafe
<1>3. ASSUME NEW r \in Requests, OpenStep(r) PROVE \A p \in Ops : EffectSafe(p)'
  <2>1. RunsKept
    BY <1>3 DEF OpenStep, OpenLoad, OpenRefused, OpenAttach, OpenClaim, OpenFinalize, OpenFails,
                OpenRegister, runVars, RunsKept
  <2>2. CASE OpenFinalize(r)
    <3>1. PICK o \in ToFinalize(r) :
            \/ AppendRecord(o, OperationFinished(o, RecoveredOutcome(found[r][o])))
            \/ RecordRefused(o)
      BY <2>2 DEF OpenFinalize
    <3>2. o \in Ops /\ found[r][o] \in Verdict /\ Finalizable(found[r][o])
      BY <3>1 DEF ToFinalize, TypeInv, TypeOK, HostTypeOK
    <3>3. \A p \in Ops : SameIntents(p)
      BY <3>1, <3>2, OutcomeOfCompletion, OtherRecordIntents, RefusedIntents
    <3> QED BY <2>1, <3>3, RunsKeptSafe
  <2>3. CASE ~OpenFinalize(r)
    <3>1. UNCHANGED journal
      BY <1>3, <2>3, RefusalsKeepJournal
         DEF OpenStep, OpenLoad, OpenRefused, OpenAttach, OpenClaim, OpenFails, OpenRegister
    <3> QED BY <2>1, <3>1, JournalKeptIntents, RunsKeptSafe
  <2> QED BY <2>2, <2>3
<1> QED BY <1>1, <1>2, <1>3 DEF ClientStep

(* A crash takes every run away and leaves the records and what was done. *)
LEMMA CrashKeepsEffects ==
  ASSUME TypeInv, EffectInv, Crash
  PROVE  EffectInv'
<1>1. ASSUME NEW p \in Ops PROVE EffectSafe(p)'
  <2>1. SameIntents(p)
    BY JournalKeptIntents DEF Crash, persistenceVars
  <2>2. /\ phase'[p] = IF phase[p] = "none" THEN "none" ELSE "lost"
        /\ turn'[p] = 0 /\ late'[p] = "none" /\ ran' = ran
    BY DEF Crash, RunLost
  <2>3. phase[p] = "none" => Dispatched(p) = {}
    <3>1. phase[p] = "none" => journal[p] = <<>>
      BY DEF EffectInv, EffectSafe, Accepted
    <3>2. journal[p] = <<>> => Of(journal[p], "tool_dispatched") = {}
      BY DEF Of
    <3> QED BY <3>1, <3>2 DEF Dispatched
  <2> QED BY <2>1, <2>2, <2>3
          DEF EffectInv, EffectSafe, SameIntents, LateAfterAbort, AtGate, AtIntent
<1>2. ASSUME NEW s \in Sessions PROVE CompletionKnown(s)'
  BY DEF Crash, HostLost, CompletionKnown, Idle, At
<1> QED BY <1>1, <1>2 DEF EffectInv

LEMMA EffectsKept ==
  ASSUME TypeInv, EffectInv, [Next]_vars, ~Crash
  PROVE  \A p \in Ops : EffectSafe(p)'
<1>1. CASE UNCHANGED vars
  <2>1. UNCHANGED journal /\ RunsKept
    BY <1>1 DEF vars, persistenceVars, runVars, RunsKept
  <2> QED BY <2>1, JournalKeptIntents, RunsKeptSafe
<1>2. CASE \E o \in Ops : RunAlone(o)
  BY <1>2, RunKeepsEffects DEF RunAlone
<1>3. CASE \E o \in Ops : DriverStep(o)
  BY <1>3, DriverKeepsEffects
<1>4. CASE \E s \in Sessions : QueueStep(s)
  BY <1>4, QueueKeepsEffects
<1>5. CASE (\E s \in Sessions : ClientStep(s)) \/ (\E r \in Requests : OpenStep(r))
  BY <1>5, HostKeepsEffects
<1> QED BY <1>1, <1>2, <1>3, <1>4, <1>5 DEF Next

-----------------------------------------------------------------------------
(* A completion that waits, or has decided, keeps its run. *)
Stays(o) == phase'[o] \notin {"none", "lost"}

RunsStay == \A o \in Ops : InRun(o) => Stays(o)

LEMMA RunsStayHere ==
  ASSUME TypeInv, [Next]_vars, ~Crash
  PROVE  RunsStay
<1> USE DEF RunsStay, Stays, InRun, Goes, TypeInv, TypeOK, RunTypeOK
<1>1. CASE UNCHANGED vars
  BY <1>1 DEF vars, runVars
<1>2. ASSUME NEW o \in Ops, RunStep(o) PROVE RunsStay
  <2>1. CASE LoopStep(o)
    BY <2>1
       DEF LoopStep, BuildAgent, BuildFails, StartRun, BeginLoop, InjectInput, InjectFails,
           AttemptModel, AttemptRefused, DiscardReply, GiveUpRepair, CommitReply, CommitRefused,
           AfterReply, ExecuteTool, AbandonTool, PublishResult, PublishRefused, StopOnAbort,
           NextTurn, TakeInput, NextRequest, NothingLeft, ReachLimit, ReportFailure, FinishRun
  <2>2. CASE ProviderStep(o) \/ ToolStep(o) \/ LateStep(o)
    BY <2>2 DEF ProviderStep, SettleUsage, SettleRefused, ToolStep, LateStep, RefuseTool,
                DispatchTool, DispatchRefused, ToolReturns, LateDispatch, LateExecute
  <2> QED BY <1>2, <2>1, <2>2 DEF RunStep
<1>3. ASSUME NEW o \in Ops, DriverStep(o) PROVE RunsStay
  BY <1>3 DEF DriverStep, StartAdmitted, AttachResource, SubmitCompletion
<1>4. ASSUME NEW s \in Sessions, QueueStep(s) PROVE RunsStay
  <2>1. ASSUME NEW o, phase' = [phase EXCEPT ![o] = "accepted"] \/ Leaves(o) PROVE RunsStay
    BY <2>1 DEF Leaves
  <2>2. CASE AdmitPrompt(s)
    BY <2>1, <2>2 DEF AdmitPrompt
  <2>3. CASE LoadForCompletion(s)
    <3> DEFINE o == Head(queue[s])[2]
    <3>1. Leaves(o) \/ UNCHANGED phase
      BY <2>3 DEF LoadForCompletion, CompletionUnreadable, ParkIndeterminate, SuspendPending,
                  AlreadyFinished, DecideOutcome
    <3> QED BY <2>1, <3>1
  <2>4. CASE FinishOperation(s)
    BY <2>1, <2>4 DEF FinishOperation
  <2>5. CASE \/ RejectPrompt(s) \/ QueueInput(s) \/ InputRefused(s) \/ DeliverInput(s)
             \/ LoadForPrompt(s) \/ AdmissionFails(s) \/ LoadForCancel(s) \/ AbortByCancel(s)
    <3>1. UNCHANGED phase
      BY <2>5 DEF RejectPrompt, QueueInput, InputRefused, DeliverInput, LoadForPrompt,
                  AdmissionFails, LoadForCancel, AbortByCancel, runVars
    <3> QED BY <3>1
  <2> QED BY <1>4, <2>2, <2>3, <2>4, <2>5 DEF QueueStep
<1>5. ASSUME NEW s \in Sessions, ClientStep(s) PROVE RunsStay
  BY <1>5 DEF ClientStep, Prompt, CancelLive, CancelQueued, Close, runVars
<1>6. ASSUME NEW r \in Requests, OpenStep(r) PROVE RunsStay
  BY <1>6 DEF OpenStep, OpenLoad, OpenRefused, OpenAttach, OpenClaim, OpenFinalize, OpenFails,
              OpenRegister, runVars
<1> QED BY <1>1, <1>2, <1>3, <1>4, <1>5, <1>6 DEF Next, RunAlone

(* What a step does to the queue and the work of Session object s. *)
Waiting(s) ==
  \/ UNCHANGED <<queue[s], work[s]>>
  \/ queue'[s] = Tail(queue[s]) /\ queue[s] # <<>> /\ work'[s] = Idle
  \/ queue'[s] = queue[s] /\ work'[s].step # "finish"
  \/ /\ queue'[s] = queue[s] /\ queue[s] # <<>> /\ Head(queue[s])[1] = "complete"
     /\ work'[s].op = Head(queue[s])[2]
  \/ \E item \in Item :
       /\ queue'[s] = Append(queue[s], item) /\ work'[s] = work[s]
       /\ item[1] = "complete" => Stays(item[2])

LEMMA WaitingKnown ==
  ASSUME TypeInv, NEW s \in Sessions, CompletionKnown(s), RunsStay, Waiting(s)
  PROVE  CompletionKnown(s)'
<1> USE DEF CompletionKnown, InRun, Stays
<1>1. queue[s] \in Seq(Item)
  BY DEF TypeInv, TypeOK, SessionTypeOK
<1>2. \A k \in DOMAIN queue[s] : queue[s][k][1] = "complete" =>
        Stays(queue[s][k][2])
  <2>1. ASSUME NEW k \in DOMAIN queue[s], queue[s][k][1] = "complete"
        PROVE  queue[s][k][2] \in Ops
    <3>1. queue[s][k] \in Item
      BY <1>1
    <3> QED BY <2>1, <3>1 DEF Item
  <2> QED BY <2>1 DEF RunsStay
<1>3. work[s].step = "finish" => Stays(work[s].op)
  BY DEF TypeInv, WorkKnown, Known, RunsStay
<1>4. CASE UNCHANGED <<queue[s], work[s]>>
  BY <1>2, <1>3, <1>4
<1>5. CASE queue'[s] = Tail(queue[s]) /\ queue[s] # <<>> /\ work'[s] = Idle
  <2>1. \A k \in DOMAIN queue'[s] : k + 1 \in DOMAIN queue[s] /\ queue'[s][k] = queue[s][k + 1]
    BY <1>1, <1>5
  <2>2. work'[s].step # "finish"
    BY <1>5 DEF Idle, At
  <2> QED BY <1>2, <2>1, <2>2
<1>6. CASE queue'[s] = queue[s] /\ work'[s].step # "finish"
  BY <1>2, <1>6
<1>7. CASE /\ queue'[s] = queue[s] /\ queue[s] # <<>> /\ Head(queue[s])[1] = "complete"
           /\ work'[s].op = Head(queue[s])[2]
  <2>1. 1 \in DOMAIN queue[s] /\ Head(queue[s]) = queue[s][1]
    BY <1>1, <1>7
  <2> QED BY <1>2, <1>7, <2>1
<1>8. ASSUME NEW item \in Item,
             queue'[s] = Append(queue[s], item), work'[s] = work[s],
             item[1] = "complete" => Stays(item[2])
      PROVE  CompletionKnown(s)'
  <2>1. \A k \in DOMAIN queue'[s] :
          (k \in DOMAIN queue[s] /\ queue'[s][k] = queue[s][k]) \/ queue'[s][k] = item
    BY <1>1, <1>8
  <2> QED BY <1>2, <1>3, <1>8, <2>1
<1> QED BY <1>4, <1>5, <1>6, <1>7, <1>8 DEF Waiting

LEMMA QueueWaits ==
  ASSUME TypeInv, NEW s \in Sessions, QueueStep(s)
  PROVE  \A q \in Sessions : Waiting(q)
<1> DEFINE Elsewhere == \A q \in Sessions \ {s} : UNCHANGED <<queue[q], work[q]>>
<1>1. queue \in [Sessions -> Seq(Item)] /\ work \in [Sessions -> Work]
  BY DEF TypeInv, TypeOK, SessionTypeOK
<1>2. ASSUME queue[s] # <<>>, Dequeue(s) PROVE Elsewhere /\ Waiting(s)
  BY <1>1, <1>2 DEF Dequeue, Waiting
<1>3. ASSUME NEW w, Proceed(s, w), w.step # "finish" PROVE Elsewhere /\ Waiting(s)
  BY <1>1, <1>3 DEF Proceed, Waiting
<1>4. Elsewhere /\ Waiting(s)
  <2>1. queue[s] # <<>>
    BY DEF QueueStep, RejectPrompt, QueueInput, InputRefused, DeliverInput, LoadForPrompt,
           AdmitPrompt, AdmissionFails, LoadForCompletion, FinishOperation, LoadForCancel,
           AbortByCancel, Serving
  <2>2. CASE LoadForCompletion(s)
    <3> DEFINE o == Head(queue[s])[2]
    <3>1. Dequeue(s) \/ DecideOutcome(s, o)
      BY <2>2 DEF LoadForCompletion, CompletionUnreadable, ParkIndeterminate, SuspendPending,
                  AlreadyFinished
    <3>2. ASSUME DecideOutcome(s, o) PROVE Elsewhere /\ Waiting(s)
      <4>1. Head(queue[s])[1] = "complete"
        BY <2>2 DEF LoadForCompletion, Serving
      <4>2. queue' = queue /\ \E v : work' = [work EXCEPT ![s] = At("finish", 0, o, 0, v)]
        BY <3>2 DEF DecideOutcome, Proceed
      <4> QED BY <1>1, <2>1, <4>1, <4>2 DEF At, Waiting
    <3> QED BY <1>2, <2>1, <3>1, <3>2
  <2>3. CASE LoadForPrompt(s) \/ QueueInput(s) \/ LoadForCancel(s)
    <3>1. \A leaf, op, input, v : /\ At("preflight", leaf, op, input, v).step # "finish"
                                  /\ At("deliver", leaf, op, input, v).step # "finish"
                                  /\ At("abort", leaf, op, input, v).step # "finish"
      BY DEF At
    <3>2. CASE LoadForPrompt(s)
      BY <1>2, <1>3, <2>1, <3>1, <3>2 DEF LoadForPrompt
    <3>3. CASE QueueInput(s)
      BY <1>2, <1>3, <2>1, <3>1, <3>3 DEF QueueInput
    <3>4. CASE LoadForCancel(s)
      BY <1>2, <1>3, <2>1, <3>1, <3>4 DEF LoadForCancel
    <3> QED BY <2>3, <3>2, <3>3, <3>4
  <2>4. CASE \/ RejectPrompt(s) \/ InputRefused(s) \/ DeliverInput(s) \/ AdmitPrompt(s)
             \/ AdmissionFails(s) \/ FinishOperation(s) \/ AbortByCancel(s)
    BY <1>2, <2>1, <2>4 DEF RejectPrompt, InputRefused, DeliverInput, AdmitPrompt, AdmissionFails,
                            FinishOperation, AbortByCancel
  <2> QED BY <2>2, <2>3, <2>4 DEF QueueStep
<1> QED BY <1>4 DEF Waiting

LEMMA EveryoneWaits ==
  ASSUME TypeInv, [Next]_vars, ~Crash
  PROVE  \A q \in Sessions : Waiting(q)
<1> DEFINE Untouched == UNCHANGED <<queue, work>>
<1>1. Untouched => \A q \in Sessions : Waiting(q)
  BY DEF Waiting
<1>2. ASSUME NEW s \in Sessions, NEW item \in Item,
             Enqueue(s, item), UNCHANGED work, item[1] = "complete" => Stays(item[2])
      PROVE  \A q \in Sessions : Waiting(q)
  <2>1. queue'[s] = Append(queue[s], item) /\ \A q \in Sessions \ {s} : queue'[q] = queue[q]
    BY <1>2 DEF Enqueue, TypeInv, TypeOK, SessionTypeOK
  <2> QED BY <1>2, <2>1 DEF Waiting
<1>3. CASE UNCHANGED vars
  BY <1>1, <1>3 DEF vars, sessionVars
<1>4. ASSUME NEW o \in Ops, RunAlone(o) PROVE Untouched
  BY <1>4 DEF RunAlone, sessionVars
<1>5. ASSUME NEW o \in Ops, DriverStep(o) PROVE \A q \in Sessions : Waiting(q)
  <2>1. CASE StartAdmitted(o) \/ AttachResource(o)
    BY <1>1, <2>1 DEF StartAdmitted, AttachResource, sessionVars
  <2>2. CASE SubmitCompletion(o)
    <3>1. owner[o] \in Sessions
      BY <2>2 DEF SubmitCompletion, TypeInv, TypeOK, SessionTypeOK, Sessions
    <3>2. <<"complete", o>> \in Item /\ <<"complete", o>>[2] = o
      BY DEF Item
    <3>3. Stays(o)
      BY <2>2 DEF SubmitCompletion, Goes, Stays, TypeInv, TypeOK, RunTypeOK
    <3>4. Enqueue(owner[o], <<"complete", o>>) /\ UNCHANGED work
      BY <2>2 DEF SubmitCompletion
    <3> QED BY <1>2, <3>1, <3>2, <3>3, <3>4
  <2> QED BY <1>5, <2>1, <2>2 DEF DriverStep
<1>6. ASSUME NEW s \in Sessions, ClientStep(s) PROVE \A q \in Sessions : Waiting(q)
  <2>1. CASE CancelLive(s) \/ Close(s)
    BY <1>1, <2>1 DEF CancelLive, Close, sessionVars
  <2>2. CASE Prompt(s) \/ CancelQueued(s)
    <3>1. PICK kind \in {"prompt", "cancel"} : Enqueue(s, <<kind, 0>>)
      BY <2>2 DEF Prompt, CancelQueued
    <3>2. <<kind, 0>> \in Item /\ <<kind, 0>>[1] # "complete"
      BY DEF Item
    <3>3. UNCHANGED work
      BY <2>2 DEF Prompt, CancelQueued
    <3> QED BY <1>2, <3>1, <3>2, <3>3
  <2> QED BY <1>6, <2>1, <2>2 DEF ClientStep
<1>7. ASSUME NEW r \in Requests, OpenStep(r) PROVE Untouched
  BY <1>7 DEF OpenStep, OpenLoad, OpenRefused, OpenAttach, OpenClaim, OpenFinalize, OpenFails,
              OpenRegister, sessionVars
<1> QED BY <1>1, <1>3, <1>4, <1>5, <1>6, <1>7, QueueWaits DEF Next

LEMMA EffectInvKept ==
  ASSUME TypeInv, EffectInv, [Next]_vars
  PROVE  EffectInv'
<1>1. CASE Crash
  BY <1>1, CrashKeepsEffects
<1>2. CASE ~Crash
  <2>1. \A s \in Sessions : CompletionKnown(s)'
    BY <1>2, RunsStayHere, EveryoneWaits, WaitingKnown DEF EffectInv
  <2> QED BY <1>2, <2>1, EffectsKept DEF EffectInv
<1> QED BY <1>1, <1>2

LEMMA EffectInvAtStart ==
  ASSUME Init
  PROVE  EffectInv
<1>1. ASSUME NEW o \in Ops PROVE EffectSafe(o)
  <2>1. /\ phase[o] = "none" /\ late[o] = "none" /\ turn[o] = 0 /\ journal[o] = <<>>
        /\ \A t \in Attempts : ran[<<o, t>>] = 0
    BY DEF Init, RunInit, PersistenceInit, Calls
  <2>2. Dispatched(o) = {}
    BY <2>1 DEF Dispatched, Of
  <2> QED BY <2>1, <2>2 DEF EffectSafe, Accepted, LateAfterAbort, AtGate, AtIntent
<1>2. ASSUME NEW s \in Sessions PROVE CompletionKnown(s)
  BY DEF Init, SessionInit, CompletionKnown, Idle, At
<1> QED BY <1>1, <1>2 DEF EffectInv

(***************************************************************************)
(* A tool is invoked at most once per call, and only after its             *)
(* tool_dispatched record is durable: not a refused write, an abandoned    *)
(* call, a crash or a second Session object changes that.                  *)
(***************************************************************************)
THEOREM EffectFollowsIntent == Spec => []EffectNeedsIntent
<1>1. Init => EffectInv
  BY EffectInvAtStart
<1>2. TypeInv /\ EffectInv /\ [Next]_vars => EffectInv'
  BY EffectInvKept
<1>3. EffectInv => EffectNeedsIntent
  BY DEF EffectInv, EffectSafe, EffectNeedsIntent
<1>4. Spec => []TypeInv
  BY TypesAtStart, TypesKept, PTL DEF Spec
<1> QED BY <1>1, <1>2, <1>3, <1>4, PTL DEF Spec
-----------------------------------------------------------------------------
(***************************************************************************)
(* RuntimeSession implements OperationLifecycle: what the journal says of  *)
(* an Operation before and after every way to write it.                    *)
(***************************************************************************)
LEMMA AppendedStatus ==
  ASSUME TypeInv, NEW o \in Ops, NEW record \in Record, AppendRecord(o, record)
  PROVE  /\ StatusOf(o) = "open"
         /\ StatusOf(o)' = IF record.type = "operation_finished" THEN record.outcome ELSE "open"
         /\ \A p \in Ops \ {o} : StatusOf(p)' = StatusOf(p)
<1> DEFINE before == journal[o]
           after == journal'[o]
<1>1. /\ journal \in [Ops -> Seq(Record)]
      /\ journal' = [journal EXCEPT ![o] = Append(journal[o], record)]
      /\ before # <<>> /\ ~IsFinished(before)
  BY DEF TypeInv, TypeOK, PersistenceTypeOK, AppendRecord, MayAppendTo, OperationAppendAllowed
<1>2. \A p \in Ops \ {o} : StatusOf(p)' = StatusOf(p)
  BY <1>1 DEF StatusOf, Finished, Accepted
<1>3. before \in Seq(Record) /\ after = Append(before, record)
  BY <1>1
<1>4. /\ DOMAIN after = DOMAIN before \cup {Len(after)}
      /\ \A k \in DOMAIN before : after[k] = before[k]
      /\ after[Len(after)] = record
      /\ after # <<>>
  BY <1>3
<1> HIDE DEF before, after
<1>5. StatusOf(o) = "open"
  BY <1>1 DEF StatusOf, Finished, Accepted, before
<1>6. IsFinished(after) <=> record.type = "operation_finished"
  BY <1>1, <1>4 DEF IsFinished, Of
<1>7. StatusOf(o)' = IF IsFinished(after) THEN after[Len(after)].outcome ELSE "open"
  BY <1>4 DEF StatusOf, Finished, Accepted, after
<1> QED BY <1>2, <1>4, <1>5, <1>6, <1>7

LEMMA AdmittedStatus ==
  ASSUME TypeInv, NEW o \in Ops, NEW leaf, ~Accepted(o), AdmitTransaction(o, leaf)
  PROVE  /\ StatusOf(o) = "none" /\ StatusOf(o)' = "open"
         /\ \A p \in Ops \ {o} : StatusOf(p)' = StatusOf(p)
<1>1. /\ journal \in [Ops -> Seq(Record)]
      /\ journal' = [journal EXCEPT ![o] = <<OperationAccepted(o, InputEntry(o))>>]
      /\ journal[o] = <<>>
  BY DEF TypeInv, TypeOK, PersistenceTypeOK, AdmitTransaction, Accepted
<1>2. journal'[o] = <<OperationAccepted(o, InputEntry(o))>>
  BY <1>1
<1>3. ~IsFinished(journal[o]) /\ ~IsFinished(journal'[o]) /\ journal'[o] # <<>>
  BY <1>1, <1>2 DEF IsFinished, Of, OperationAccepted
<1> QED BY <1>1, <1>3 DEF StatusOf, Finished, Accepted

(* The only two steps that invoke a tool. *)
Invokes(o) == ExecuteTool(o) \/ LateExecute(o)

LEMMA InvocationMoves ==
  ASSUME [Next]_vars
  PROVE  UNCHANGED ran \/ \E o \in Ops : Invokes(o)
<1>1. CASE UNCHANGED vars
  BY <1>1 DEF vars
<1>2. ASSUME NEW o \in Ops, RunStep(o), ~Invokes(o) PROVE UNCHANGED ran
  <2>1. CASE LoopStep(o)
    BY <1>2, <2>1
       DEF LoopStep, Invokes, BuildAgent, BuildFails, StartRun, BeginLoop, InjectInput,
           InjectFails, AttemptModel, AttemptRefused, DiscardReply, GiveUpRepair, CommitReply,
           CommitRefused, AbandonTool, PublishResult, PublishRefused, StopOnAbort, TakeInput,
           NextRequest, NothingLeft, ReachLimit, ReportFailure, FinishRun
  <2>2. CASE ProviderStep(o) \/ ToolStep(o) \/ LateStep(o)
    BY <1>2, <2>2
       DEF ProviderStep, SettleUsage, SettleRefused, ToolStep, RefuseTool, DispatchTool,
           DispatchRefused, ToolReturns, LateStep, LateDispatch, Invokes
  <2> QED BY <1>2, <2>1, <2>2 DEF RunStep
<1>3. ASSUME NEW o \in Ops, DriverStep(o) PROVE UNCHANGED ran
  BY <1>3 DEF DriverStep, StartAdmitted, AttachResource, SubmitCompletion
<1>4. ASSUME NEW s \in Sessions, QueueStep(s) PROVE UNCHANGED ran
  BY <1>4
     DEF QueueStep, RejectPrompt, QueueInput, InputRefused, DeliverInput, LoadForPrompt,
         AdmitPrompt, AdmissionFails, LoadForCompletion, FinishOperation, LoadForCancel,
         AbortByCancel
<1>5. ASSUME NEW s \in Sessions, ClientStep(s) PROVE UNCHANGED ran
  BY <1>5 DEF ClientStep, Prompt, CancelLive, CancelQueued, Close
<1>6. ASSUME NEW r \in Requests, OpenStep(r) PROVE UNCHANGED ran
  BY <1>6 DEF OpenStep, OpenLoad, OpenRefused, OpenAttach, OpenClaim, OpenFinalize, OpenFails,
              OpenRegister
<1>7. CASE Crash
  BY <1>7 DEF Crash
<1> QED BY <1>1, <1>2, <1>3, <1>4, <1>5, <1>6, <1>7 DEF Next, RunAlone

(* The intents and the effects, as OperationLifecycle sees them. *)
Intended == [o \in Ops |-> Dispatched(o)]

Performed == [o \in Ops |-> [t \in Attempts |-> ran[<<o, t>>]]]

Statuses == [o \in Ops |-> StatusOf(o)]

(* A write of the journal is an acceptance, an intent, an end, or invisible. *)
LEMMA WritesMap ==
  ASSUME TypeInv, JournalMoves, UNCHANGED ran
  PROVE  [Lifecycle!Next]_Lifecycle!lifecycleVars
<1> USE DEF Lifecycle!lifecycleVars
<1>1. UNCHANGED Performed
  BY DEF Performed
<1>2. CASE UNCHANGED journal
  BY <1>1, <1>2 DEF StatusOf, Finished, Accepted, Dispatched, Performed
<1>3. ASSUME NEW o \in Ops, NEW record \in Record, AppendRecord(o, record)
      PROVE  [Lifecycle!Next]_Lifecycle!lifecycleVars
  <2>1. /\ StatusOf(o) = "open"
        /\ StatusOf(o)' = IF record.type = "operation_finished" THEN record.outcome ELSE "open"
        /\ \A p \in Ops \ {o} : StatusOf(p)' = StatusOf(p)
    BY <1>3, AppendedStatus
  <2>2. /\ \A p \in Ops \ {o} : Dispatched(p)' = Dispatched(p)
        /\ record.type # "tool_dispatched" => Dispatched(o)' = Dispatched(o)
        /\ record.type = "tool_dispatched" => Dispatched(o)' = Dispatched(o) \cup {record.id}
    BY <1>3, AppendedIntents DEF SameIntents
  <2>3. CASE record.type = "operation_finished"
    <3>1. record.outcome \in TerminalOutcome
      BY <2>3 DEF Record
    <3>2. Statuses' = [Statuses EXCEPT ![o] = record.outcome]
      BY <2>1, <2>3 DEF Statuses
    <3>3. UNCHANGED Intended
      BY <2>2, <2>3 DEF Intended
    <3>4. Lifecycle!Finish(o, record.outcome)
      BY <1>1, <2>1, <3>2, <3>3 DEF Lifecycle!Finish, Statuses, Intended, Performed
    <3> QED BY <3>1, <3>4 DEF Lifecycle!Next
  <2>4. CASE record.type = "tool_dispatched" /\ record.id \notin Dispatched(o)
    <3>1. record.id \in Attempts
      BY <2>4 DEF Record
    <3>2. Intended' = [Intended EXCEPT ![o] = Dispatched(o) \cup {record.id}]
      BY <2>2, <2>4 DEF Intended
    <3>3. UNCHANGED Statuses
      BY <2>1, <2>4 DEF Statuses
    <3>4. Lifecycle!Intend(o, record.id)
      BY <1>1, <2>1, <2>4, <3>2, <3>3 DEF Lifecycle!Intend, Statuses, Intended, Performed
    <3> QED BY <3>1, <3>4 DEF Lifecycle!Next
  <2>5. CASE /\ record.type # "operation_finished"
             /\ record.type = "tool_dispatched" => record.id \in Dispatched(o)
    <3>1. UNCHANGED Statuses
      BY <2>1, <2>5 DEF Statuses
    <3>2. UNCHANGED Intended
      BY <2>2, <2>5 DEF Intended
    <3> QED BY <1>1, <3>1, <3>2 DEF Statuses, Intended, Performed
  <2> QED BY <2>3, <2>4, <2>5
<1>4. ASSUME NEW o \in Ops, NEW leaf \in Nat, ~Accepted(o), AdmitTransaction(o, leaf)
      PROVE  [Lifecycle!Next]_Lifecycle!lifecycleVars
  <2>1. /\ StatusOf(o) = "none" /\ StatusOf(o)' = "open"
        /\ \A p \in Ops \ {o} : StatusOf(p)' = StatusOf(p)
    BY <1>4, AdmittedStatus
  <2>2. \A p \in Ops : Dispatched(p)' = Dispatched(p)
    BY <1>4, AdmittedIntents DEF SameIntents
  <2>3. Statuses' = [Statuses EXCEPT ![o] = "open"]
    BY <2>1 DEF Statuses
  <2>4. UNCHANGED Intended
    BY <2>2 DEF Intended
  <2>5. Lifecycle!Accept(o)
    BY <1>1, <2>1, <2>3, <2>4 DEF Lifecycle!Accept, Statuses, Intended, Performed
  <2> QED BY <2>5 DEF Lifecycle!Next
<1> QED BY <1>2, <1>3, <1>4 DEF JournalMoves, Appends, Admits, RecordOf

(* An invocation performs the effect of the run's last attempt. *)
LEMMA InvocationMaps ==
  ASSUME TypeInv, EffectInv, NEW o \in Ops, Invokes(o)
  PROVE  Lifecycle!Next
<1>1. AtIntent(o) /\ UNCHANGED journal
  BY DEF Invokes, ExecuteTool, LateExecute, AtIntent, Goes, persistenceVars
<1>2. turn[o] \in Attempts
  BY <1>1 DEF AtIntent, TypeInv, TurnKnown
<1>3. PICK t \in Attempts : t = turn[o]
  BY <1>2
<1>4. ran' = [ran EXCEPT ![<<o, t>>] = ran[<<o, t>>] + 1]
  BY <1>3 DEF Invokes, ExecuteTool, LateExecute
<1>5. t \in Dispatched(o) /\ ran[<<o, t>>] = 0
  BY <1>1, <1>3 DEF EffectInv, EffectSafe
<1>6. UNCHANGED <<Statuses, Intended>>
  BY <1>1 DEF Statuses, Intended, StatusOf, Finished, Accepted, Dispatched
<1>7. Performed' = [Performed EXCEPT ![o][t] = 1]
  <2> DEFINE then == [p \in Ops |-> [u \in Attempts |->
                       IF p = o /\ u = t THEN 1 ELSE ran[<<p, u>>]]]
  <2>1. ran \in [Calls -> Nat]
    BY DEF TypeInv, TypeOK, RunTypeOK
  <2>2. ran'[<<o, t>>] = 1
    BY <1>4, <1>5, <2>1 DEF Calls
  <2>3. ASSUME NEW p \in Ops, NEW u \in Attempts, ~(p = o /\ u = t)
        PROVE  ran'[<<p, u>>] = ran[<<p, u>>]
    BY <1>4, <2>1, <2>3 DEF Calls
  <2>4. Performed' = then
    BY <2>2, <2>3 DEF Performed
  <2>5. [Performed EXCEPT ![o][t] = 1] = then
    BY DEF Performed
  <2> QED BY <2>4, <2>5
<1>8. Lifecycle!Perform(o, t)
  BY <1>5, <1>6, <1>7 DEF Lifecycle!Perform, Statuses, Intended, Performed
<1> QED BY <1>8 DEF Lifecycle!Next

(***************************************************************************)
(* Read through the journal alone, every Operation keeps the promise of    *)
(* OperationLifecycle: it is accepted once, ends at most once and keeps    *)
(* its outcome, and an effect happens at most once, after its intent.      *)
(* Refused writes, abandoned calls, crashes and recovery are stutters or   *)
(* steps of it.                                                            *)
(***************************************************************************)
THEOREM LifecycleImplemented == Spec => ImplementsLifecycle
<1>1. Init => Lifecycle!Init
  <2> SUFFICES ASSUME Init PROVE Lifecycle!Init
    OBVIOUS
  <2>1. \A o \in Ops : journal[o] = <<>>
    BY DEF Init, PersistenceInit
  <2>2. \A o \in Ops : Of(journal[o], "tool_dispatched") = {} /\ ~IsFinished(journal[o])
    BY <2>1 DEF Of, IsFinished
  <2>3. \A o \in Ops : StatusOf(o) = "none" /\ Dispatched(o) = {}
    BY <2>1, <2>2 DEF StatusOf, Finished, Accepted, Dispatched
  <2>4. \A o \in Ops, t \in Attempts : ran[<<o, t>>] = 0
    BY DEF Init, RunInit, Calls
  <2> QED BY <2>3, <2>4 DEF Lifecycle!Init
<1>2. TypeInv /\ EffectInv /\ [Next]_vars => [Lifecycle!Next]_Lifecycle!lifecycleVars
  <2> SUFFICES ASSUME TypeInv, EffectInv, [Next]_vars
               PROVE  [Lifecycle!Next]_Lifecycle!lifecycleVars
    OBVIOUS
  <2>1. CASE UNCHANGED ran
    BY <2>1, NextMovesJournal, WritesMap
  <2>2. CASE \E o \in Ops : Invokes(o)
    BY <2>2, InvocationMaps
  <2> QED BY <2>1, <2>2, InvocationMoves
<1>3. Init => EffectInv
  BY EffectInvAtStart
<1>4. TypeInv /\ EffectInv /\ [Next]_vars => EffectInv'
  BY EffectInvKept
<1>5. Spec => []TypeInv
  BY TypesAtStart, TypesKept, PTL DEF Spec
<1> QED BY <1>1, <1>2, <1>3, <1>4, <1>5, PTL DEF Spec, ImplementsLifecycle, Lifecycle!Spec

-----------------------------------------------------------------------------
(***************************************************************************)
(* What the journal of an Operation can look like, and what a Host does    *)
(* with the Operations a crash interrupted.                                *)
(*                                                                         *)
(* The journal of an Operation holds its acceptance and then only records  *)
(* about itself, each of which the reducer accepts at its place.  Nobody   *)
(* but recovery writes to an Operation that has lost its driver, so what a *)
(* request found out about it before its awaits is still true after them,  *)
(* and a Session object that is in use has decided every such Operation.   *)
(***************************************************************************)
(* The ids in the records of one type. *)
Ids(o, type) == {journal[o][k].id : k \in Of(journal[o], type)}

Attempted(o) == Ids(o, "model_attempted")

Billed(o) == Ids(o, "usage_settled")

OwnJournal(o) ==
  \A k \in DOMAIN journal[o] :
    IF k = 1 THEN journal[o][1] = OperationAccepted(o, InputEntry(o))
             ELSE journal[o][k] \in RecordOf(o)

(* Where the run of o stands, and what its journal says of its attempts. *)
AttemptsFollowRun(o) ==
  InRun(o) =>
    /\ \A t \in Attempted(o) \cup Billed(o) : t <= turn[o]
    /\ turn[o] > 0 => turn[o] \in Attempted(o)
    /\ phase[o] = "asking" => turn[o] \notin Billed(o)
    /\ phase[o] = "gate" \/ late[o] = "gate" => AssistantEntry(o, turn[o]) \in entries

JournalSafe(o) ==
  /\ OwnJournal(o)
  /\ Accepted(o) => ~Malformed(journal[o], entries)
  /\ AttemptsFollowRun(o)

JournalInv == \A o \in Ops : JournalSafe(o)

-----------------------------------------------------------------------------
(* A record the reducer accepts at the end of the journal of o. *)
Fits(o, record) ==
  /\ record.type = "model_attempted" => record.id \notin Attempted(o)
  /\ record.type = "usage_settled" => record.id \in Attempted(o) \ Billed(o)
  /\ record.type = "tool_dispatched" =>
       /\ record.id \in Attempted(o) \ Dispatched(o)
       /\ AssistantEntry(o, record.id) \in entries
  /\ record.type = "input_queued" => record.id \notin QueuedInputs(o)

(* The one way a journal grows. *)
LEMMA AppendShape ==
  ASSUME TypeInv, NEW o \in Ops, NEW record \in Record, AppendRecord(o, record)
  PROVE  /\ journal[o] \in Seq(Record) /\ Len(journal[o]) \in Nat /\ Len(journal[o]) > 0
         /\ journal[o][1].type = "operation_accepted"
         /\ ~IsFinished(journal[o])
         /\ Len(journal'[o]) = Len(journal[o]) + 1
         /\ DOMAIN journal[o] = 1..Len(journal[o])
         /\ DOMAIN journal'[o] = 1..(Len(journal[o]) + 1)
         /\ \A k \in 1..Len(journal[o]) : journal'[o][k] = journal[o][k]
         /\ journal'[o][Len(journal[o]) + 1] = record
         /\ \A p \in Ops \ {o} : journal'[p] = journal[p]
         /\ UNCHANGED <<entries, ending>>
<1>1. /\ journal \in [Ops -> Seq(Record)]
      /\ journal' = [journal EXCEPT ![o] = Append(journal[o], record)]
      /\ UNCHANGED <<entries, ending>>
      /\ journal[o] # <<>> /\ journal[o][1].type = "operation_accepted" /\ ~IsFinished(journal[o])
  BY DEF TypeInv, TypeOK, PersistenceTypeOK, AppendRecord, MayAppendTo, OperationAppendAllowed
<1>2. \A p \in Ops \ {o} : journal'[p] = journal[p]
  BY <1>1
<1> DEFINE before == journal[o]
<1>3. before \in Seq(Record) /\ journal'[o] = Append(before, record) /\ before # <<>>
  BY <1>1
<1> HIDE DEF before
<1>4. /\ Len(before) \in Nat /\ Len(before) > 0
      /\ Len(journal'[o]) = Len(before) + 1
      /\ DOMAIN before = 1..Len(before)
      /\ DOMAIN journal'[o] = 1..(Len(before) + 1)
      /\ \A k \in 1..Len(before) : journal'[o][k] = before[k]
      /\ journal'[o][Len(before) + 1] = record
  BY <1>3
<1> QED BY <1>1, <1>2, <1>3, <1>4 DEF before

LEMMA AppendedIds ==
  ASSUME TypeInv, NEW o \in Ops, NEW record \in Record, AppendRecord(o, record), NEW type
  PROVE  /\ record.type # type => Ids(o, type)' = Ids(o, type)
         /\ record.type = type => Ids(o, type)' = Ids(o, type) \cup {record.id}
         /\ \A p \in Ops \ {o} : Ids(p, type)' = Ids(p, type)
<1> DEFINE before == journal[o]
           after == journal'[o]
           n == Len(journal[o])
<1>1. /\ n \in Nat /\ DOMAIN before = 1..n /\ DOMAIN after = 1..(n + 1)
      /\ \A k \in 1..n : after[k] = before[k]
      /\ after[n + 1] = record
      /\ \A p \in Ops \ {o} : journal'[p] = journal[p]
  BY AppendShape
<1>2. \A p \in Ops \ {o} : Ids(p, type)' = Ids(p, type)
  BY <1>1 DEF Ids
<1> HIDE DEF before, after, n
<1>3. CASE record.type # type
  <2>1. Of(after, type) = Of(before, type)
    BY <1>1, <1>3 DEF Of
  <2>2. {after[k].id : k \in Of(after, type)} = {before[k].id : k \in Of(before, type)}
    BY <1>1, <2>1 DEF Of
  <2> QED BY <1>2, <1>3, <2>2 DEF Ids, before, after
<1>4. CASE record.type = type
  <2>1. Of(after, type) = Of(before, type) \cup {n + 1} /\ Of(before, type) \subseteq 1..n
    BY <1>1, <1>4 DEF Of
  <2>2. {after[k].id : k \in Of(after, type)} = {before[k].id : k \in Of(before, type)} \cup {record.id}
    BY <1>1, <2>1
  <2> QED BY <1>2, <1>4, <2>2 DEF Ids, before, after
<1> QED BY <1>3, <1>4

(* Only records of this Operation: the acceptance first, then its own. *)
LEMMA AppendedOwn ==
  ASSUME TypeInv, NEW o \in Ops, NEW record \in RecordOf(o), AppendRecord(o, record),
         \A p \in Ops : OwnJournal(p)
  PROVE  \A p \in Ops : OwnJournal(p)'
<1>1. record \in Record
  BY DEF RecordOf
<1>2. OwnJournal(o)'
  <2> SUFFICES ASSUME NEW k \in DOMAIN journal'[o]
               PROVE  IF k = 1 THEN journal'[o][1] = OperationAccepted(o, InputEntry(o))
                               ELSE journal'[o][k] \in RecordOf(o)
    BY DEF OwnJournal, RecordOf, OwnRecord, InputEntry
  <2> DEFINE n == Len(journal[o])
  <2>1. /\ n \in Nat /\ n > 0 /\ DOMAIN journal[o] = 1..n /\ DOMAIN journal'[o] = 1..(n + 1)
        /\ \A j \in 1..n : journal'[o][j] = journal[o][j]
        /\ journal'[o][n + 1] = record
    BY <1>1, AppendShape
  <2>2. \A j \in 1..n : IF j = 1 THEN journal[o][1] = OperationAccepted(o, InputEntry(o))
                                 ELSE journal[o][j] \in RecordOf(o)
    BY <2>1 DEF OwnJournal
  <2> HIDE DEF n
  <2>3. CASE k = n + 1
    BY <2>1, <2>3
  <2>4. CASE k \in 1..n
    BY <2>1, <2>2, <2>4
  <2> QED BY <2>1, <2>3, <2>4
<1>3. \A p \in Ops \ {o} : OwnJournal(p)'
  <2>1. \A p \in Ops \ {o} : journal'[p] = journal[p]
    BY <1>1, AppendShape
  <2> QED BY <2>1 DEF OwnJournal
<1> QED BY <1>2, <1>3

(***************************************************************************)
(* A fitting record leaves a journal the reducer can read.                 *)
(***************************************************************************)
LEMMA FittingStaysReadable ==
  ASSUME TypeInv, NEW o \in Ops, NEW record \in RecordOf(o), AppendRecord(o, record),
         Fits(o, record), OwnJournal(o), ~Malformed(journal[o], entries)
  PROVE  ~Malformed(journal[o], entries)'
<1> DEFINE before == journal[o]
           after == journal'[o]
           n == Len(journal[o])
<1>1. record \in Record /\ OwnRecord(o, record)
  BY DEF RecordOf
<1>2. /\ n \in Nat /\ n > 0 /\ DOMAIN before = 1..n /\ DOMAIN after = 1..(n + 1)
      /\ Len(after) = n + 1 /\ Len(before) = n
      /\ \A k \in 1..n : after[k] = before[k]
      /\ after[n + 1] = record
      /\ ~IsFinished(before)
      /\ entries' = entries
  BY <1>1, AppendShape
<1>3. /\ before[1] = OperationAccepted(o, InputEntry(o))
      /\ \A k \in 1..n : k # 1 => before[k] \in Record /\ OwnRecord(o, before[k])
  BY <1>2 DEF OwnJournal, RecordOf
<1>4. ~Malformed(before, entries)
  OBVIOUS
<1>5. /\ \A k \in Of(before, "model_attempted") : before[k].id \in Attempted(o)
      /\ \A t \in Attempted(o) : \E k \in Of(before, "model_attempted") : before[k].id = t
      /\ \A k \in Of(before, "usage_settled") : before[k].id \in Billed(o)
      /\ \A k \in Of(before, "tool_dispatched") : before[k].id \in Dispatched(o)
      /\ \A k \in Of(before, "input_queued") : before[k].id \in QueuedInputs(o)
  BY DEF Attempted, Billed, Ids, Dispatched, QueuedInputs
<1> HIDE DEF before, after, n
<1>6. \A type : /\ record.type # type => Of(after, type) = Of(before, type)
                /\ record.type = type => Of(after, type) = Of(before, type) \cup {n + 1}
                /\ Of(before, type) \subseteq 1..n
  BY <1>2 DEF Of
<1>7. /\ after # <<>>
      /\ after[1].type = "operation_accepted" /\ after[1].entry \in entries
      /\ \A i \in DOMAIN after : after[i].op = after[1].op
      /\ \A i \in Of(after, "operation_accepted") : i = 1
      /\ \A i \in Of(after, "operation_finished") : i = Len(after)
  <2>1. after # <<>>
    BY <1>2
  <2>2. after[1].type = "operation_accepted" /\ after[1].entry \in entries /\ after[1].op = o
    BY <1>2, <1>3, <1>4 DEF Malformed, OperationAccepted
  <2>3. \A i \in DOMAIN after : after[i].op = o
    BY <1>1, <1>2, <1>3, <2>2 DEF OwnRecord
  <2>4. \A i \in Of(after, "operation_accepted") : i = 1
    BY <1>1, <1>2, <1>3 DEF OwnRecord, Of
  <2>5. \A i \in Of(after, "operation_finished") : i = Len(after)
    BY <1>2 DEF IsFinished, Of
  <2> QED BY <2>1, <2>2, <2>3, <2>4, <2>5
<1>8. ~RepeatsId(after, "model_attempted") /\ ~RepeatsId(after, "usage_settled")
  <2>1. ~RepeatsId(before, "model_attempted") /\ ~RepeatsId(before, "usage_settled")
    BY <1>4 DEF Malformed
  <2>2. ASSUME NEW type \in {"model_attempted", "usage_settled"}, ~RepeatsId(before, type),
               record.type = type => \A k \in Of(before, type) : before[k].id # record.id
        PROVE  ~RepeatsId(after, type)
    BY <1>2, <1>6, <2>2 DEF RepeatsId
  <2> QED BY <1>5, <2>1, <2>2 DEF Fits
<1>9. /\ ~RepeatsId(after, "tool_dispatched") /\ ~RepeatsEntry(after, "tool_dispatched")
      /\ ~RepeatsId(after, "input_queued") /\ ~RepeatsEntry(after, "input_queued")
  <2>1. \A type \in {"tool_dispatched", "input_queued"} :
          ~RepeatsId(before, type) /\ ~RepeatsEntry(before, type)
    BY <1>4 DEF Malformed
  <2>2. \A k \in Of(after, "tool_dispatched") : after[k].entry = ResultEntry(o, after[k].id)
    BY <1>1, <1>2, <1>3 DEF OwnRecord, Of, OperationAccepted
  <2>3. \A k \in Of(after, "input_queued") : after[k].entry = QueuedEntry(o, after[k].id)
    BY <1>1, <1>2, <1>3 DEF OwnRecord, Of, OperationAccepted
  <2>4. ASSUME NEW type \in {"tool_dispatched", "input_queued"},
               record.type = type => \A k \in Of(before, type) : before[k].id # record.id
        PROVE  ~RepeatsId(after, type)
    BY <1>2, <1>6, <2>1, <2>4 DEF RepeatsId
  <2>5. ~RepeatsId(after, "tool_dispatched") /\ ~RepeatsId(after, "input_queued")
    BY <1>5, <2>4 DEF Fits
  <2>6. ~RepeatsEntry(after, "tool_dispatched")
    BY <2>2, <2>5 DEF RepeatsEntry, RepeatsId, ResultEntry
  <2>7. ~RepeatsEntry(after, "input_queued")
    BY <2>3, <2>5 DEF RepeatsEntry, RepeatsId, QueuedEntry
  <2> QED BY <2>5, <2>6, <2>7
<1>10. \A i \in Of(before, "usage_settled") \cup Of(before, "tool_dispatched") :
         AttemptsBefore(after, i) = AttemptsBefore(before, i)
  <2> SUFFICES ASSUME NEW i \in 1..n PROVE AttemptsBefore(after, i) = AttemptsBefore(before, i)
    BY <1>6
  <2>1. {k \in Of(after, "model_attempted") : k < i} = {k \in Of(before, "model_attempted") : k < i}
    BY <1>2, <1>6
  <2>2. \A k \in {k \in Of(before, "model_attempted") : k < i} : after[k] = before[k]
    BY <1>2, <1>6
  <2> QED BY <2>1, <2>2 DEF AttemptsBefore
<1>11. ASSUME NEW t \in Attempted(o)
       PROVE  \E a \in AttemptsBefore(after, n + 1) : a.id = t /\ a.entry = AssistantEntry(o, t)
  <2>1. PICK k \in Of(before, "model_attempted") : before[k].id = t
    BY <1>5, <1>11
  <2>2. k \in 1..n /\ after[k] = before[k] /\ after[k].type = "model_attempted"
    BY <1>2, <1>6, <2>1 DEF Of
  <2>3. after[k] \in AttemptsBefore(after, n + 1)
    BY <1>2, <2>2 DEF AttemptsBefore, Of
  <2>4. before[k].entry = AssistantEntry(o, t)
    BY <1>3, <2>1, <2>2 DEF OwnRecord, OperationAccepted
  <2> QED BY <2>1, <2>2, <2>3, <2>4
<1>12. ~SettlesUnknownAttempt(after)
  <2>1. \A i \in Of(before, "usage_settled") :
          after[i].id \in {a.id : a \in AttemptsBefore(after, i)}
    <3>1. \A i \in Of(before, "usage_settled") :
            before[i].id \in {a.id : a \in AttemptsBefore(before, i)}
      BY <1>4 DEF Malformed, SettlesUnknownAttempt
    <3> QED BY <1>2, <1>6, <1>10, <3>1
  <2>2. record.type = "usage_settled" => record.id \in {a.id : a \in AttemptsBefore(after, n + 1)}
    BY <1>11 DEF Fits
  <2> QED BY <1>2, <1>6, <2>1, <2>2 DEF SettlesUnknownAttempt
<1>13. ~DispatchesUnknownReply(after, entries)
  <2>1. \A i \in Of(before, "tool_dispatched") :
          after[i].assistant \in {a.entry : a \in AttemptsBefore(after, i)} \cap entries
    <3>1. \A i \in Of(before, "tool_dispatched") :
            before[i].assistant \in {a.entry : a \in AttemptsBefore(before, i)} \cap entries
      BY <1>4 DEF Malformed, DispatchesUnknownReply
    <3> QED BY <1>2, <1>6, <1>10, <3>1
  <2>2. record.type = "tool_dispatched" =>
          record.assistant \in {a.entry : a \in AttemptsBefore(after, n + 1)} \cap entries
    BY <1>1, <1>11 DEF Fits, OwnRecord
  <2> QED BY <1>2, <1>6, <2>1, <2>2 DEF DispatchesUnknownReply
<1>14. ~Malformed(after, entries)
  BY <1>7, <1>8, <1>9, <1>12, <1>13 DEF Malformed
<1> QED BY <1>2, <1>14 DEF after

(* More durable entries never make a journal unreadable. *)
LEMMA EntriesStayReadable ==
  ASSUME NEW records, NEW less, NEW more, less \subseteq more, ~Malformed(records, less)
  PROVE  ~Malformed(records, more)
BY DEF Malformed, DispatchesUnknownReply

-----------------------------------------------------------------------------
(***************************************************************************)
(* Steps that leave the attempts of a run alone, and what they may write.  *)
(***************************************************************************)
QuietRun(p) ==
  InRun(p)' =>
    /\ InRun(p)
    /\ turn'[p] = turn[p]
    /\ phase'[p] = "asking" => phase[p] = "asking"
    /\ phase'[p] = "gate" \/ late'[p] = "gate" => phase[p] = "gate" \/ late[p] = "gate"

LEMMA JournalStays ==
  ASSUME NEW p \in Ops, JournalSafe(p), journal'[p] = journal[p], entries \subseteq entries',
         QuietRun(p)
  PROVE  JournalSafe(p)'
<1>1. OwnJournal(p)'
  BY DEF JournalSafe, OwnJournal
<1>2. Accepted(p)' => ~Malformed(journal[p], entries)'
  BY EntriesStayReadable DEF JournalSafe, Accepted
<1>3. Attempted(p)' = Attempted(p) /\ Billed(p)' = Billed(p)
  BY DEF Attempted, Billed, Ids
<1>4. AttemptsFollowRun(p)'
  BY <1>3 DEF JournalSafe, AttemptsFollowRun, QuietRun
<1> QED BY <1>1, <1>2, <1>4 DEF JournalSafe

LEMMA NothingWritten ==
  ASSUME JournalInv, UNCHANGED journal, entries \subseteq entries', \A p \in Ops : QuietRun(p)
  PROVE  JournalInv'
BY JournalStays DEF JournalInv

(* An intent, an input or the end: the attempts stay what they were. *)
LEMMA FittingWritten ==
  ASSUME TypeInv, JournalInv, NEW o \in Ops, NEW record \in RecordOf(o),
         AppendRecord(o, record), Fits(o, record),
         record.type \notin {"model_attempted", "usage_settled"},
         \A p \in Ops : QuietRun(p)
  PROVE  JournalInv'
<1>1. record \in Record
  BY DEF RecordOf
<1>2. \A p \in Ops : OwnJournal(p)'
  BY AppendedOwn DEF JournalInv, JournalSafe
<1>3. journal[o] # <<>> /\ entries' = entries /\ \A p \in Ops \ {o} : journal'[p] = journal[p]
  BY <1>1, AppendShape
<1>4. ~Malformed(journal[o], entries)'
  BY <1>3, FittingStaysReadable DEF JournalInv, JournalSafe, Accepted
<1>5. Attempted(o)' = Attempted(o) /\ Billed(o)' = Billed(o)
  BY <1>1, AppendedIds DEF Attempted, Billed
<1>6. AttemptsFollowRun(o)'
  BY <1>3, <1>5 DEF JournalInv, JournalSafe, AttemptsFollowRun, QuietRun
<1>7. JournalSafe(o)'
  BY <1>2, <1>4, <1>6 DEF JournalSafe
<1>8. \A p \in Ops \ {o} : JournalSafe(p)'
  BY <1>3, JournalStays DEF JournalInv
<1> QED BY <1>7, <1>8 DEF JournalInv

LEMMA EntriesGrow ==
  /\ UNCHANGED persistenceVars => entries \subseteq entries'
  /\ DatabaseFails => entries \subseteq entries'
  /\ \A o \in Ops : RecordRefused(o) => entries \subseteq entries'
  /\ \A held0 : EntryRefused(held0) => entries \subseteq entries'
  /\ \A new, held0 : AppendEntries(new, held0) => entries \subseteq entries'
BY DEF DatabaseFails, RecordRefused, EntryRefused, AppendEntries, persistenceVars

LEMMA RunQuiet ==
  ASSUME TypeInv, NEW o \in Ops, RunStep(o), ~AttemptModel(o), ~CommitReply(o)
  PROVE  \A p \in Ops : QuietRun(p)
<1> USE DEF QuietRun, InRun, Goes, TypeInv, TypeOK, RunTypeOK
<1>1. CASE LoopStep(o)
  BY <1>1
     DEF LoopStep, BuildAgent, BuildFails, StartRun, BeginLoop, InjectInput, InjectFails,
         AttemptRefused, DiscardReply, GiveUpRepair, CommitRefused, ExecuteTool, AbandonTool,
         PublishResult, PublishRefused, StopOnAbort, NextTurn, TakeInput, NextRequest,
         NothingLeft, ReachLimit, ReportFailure, FinishRun
<1>2. CASE ProviderStep(o)
  BY <1>2 DEF ProviderStep, SettleUsage, SettleRefused
<1>3. CASE ToolStep(o) \/ LateStep(o)
  BY <1>3 DEF ToolStep, LateStep, RefuseTool, DispatchTool, DispatchRefused, ToolReturns,
              LateDispatch, LateExecute
<1> QED BY <1>1, <1>2, <1>3 DEF RunStep

(* The steps of a run that append no record. *)
LEMMA RunWritesNoRecord ==
  ASSUME NEW o \in Ops,
         \/ LoopStep(o) /\ ~AttemptModel(o)
         \/ SettleRefused(o)
         \/ RefuseTool(o) \/ DispatchRefused(o) \/ ToolReturns(o) \/ LateExecute(o)
  PROVE  UNCHANGED journal /\ entries \subseteq entries'
<1> USE RefusalsKeepJournal, EntriesGrow
<1>1. CASE LoopStep(o) /\ ~AttemptModel(o)
  BY <1>1
     DEF LoopStep, BuildAgent, BuildFails, StartRun, BeginLoop, InjectInput, InjectFails,
         AttemptRefused, DiscardReply, GiveUpRepair, CommitReply, CommitRefused, ExecuteTool,
         AbandonTool, PublishResult, PublishRefused, StopOnAbort, TakeInput, NextRequest,
         NothingLeft, ReachLimit, ReportFailure, FinishRun
<1>2. CASE \/ SettleRefused(o) \/ RefuseTool(o) \/ DispatchRefused(o) \/ ToolReturns(o)
           \/ LateExecute(o)
  BY <1>2 DEF SettleRefused, RefuseTool, DispatchRefused, ToolReturns, LateExecute
<1> QED BY <1>1, <1>2

LEMMA AttemptWritten ==
  ASSUME TypeInv, EffectInv, JournalInv, NEW o \in Ops, AttemptModel(o)
  PROVE  JournalInv'
<1> DEFINE t == turn[o] + 1
           record == ModelAttempted(o, t, AssistantEntry(o, t))
<1>1. turn[o] \in 0..MaxAttempts /\ t \in Attempts /\ InRun(o) /\ phase[o] = "turn"
  BY BoundsAssumption DEF AttemptModel, Goes, InRun, TypeInv, TypeOK, RunTypeOK, Attempts
<1>2. /\ record \in RecordOf(o) /\ record \in Record
      /\ record.type = "model_attempted" /\ record.id = t
  BY <1>1, OwnRecords DEF RecordOf, ModelAttempted
<1>3. /\ AppendRecord(o, record) /\ late' = late
      /\ phase' = [phase EXCEPT ![o] = "asking"] /\ turn' = [turn EXCEPT ![o] = turn[o] + 1]
  BY DEF AttemptModel, Goes
<1>4. \A u \in Attempted(o) \cup Billed(o) : u \in Attempts /\ u <= turn[o]
  <2>1. \A type \in {"model_attempted", "usage_settled"} : Ids(o, type) \subseteq Attempts
    <3> SUFFICES ASSUME NEW type \in {"model_attempted", "usage_settled"},
                        NEW k \in Of(journal[o], type)
                 PROVE  journal[o][k].id \in Attempts
      BY DEF Ids
    <3>1. journal[o][k] \in Record /\ journal[o][k].type = type
      BY DEF Of, TypeInv, TypeOK, PersistenceTypeOK
    <3> QED BY <3>1 DEF Record
  <2> QED BY <1>1, <2>1 DEF Attempted, Billed, JournalInv, JournalSafe, AttemptsFollowRun
<1>5. t \notin Attempted(o) /\ t \notin Billed(o)
  BY <1>1, <1>4 DEF Attempts
<1> HIDE DEF record
<1>6. Fits(o, record)
  BY <1>2, <1>5 DEF Fits
<1>7. \A p \in Ops : OwnJournal(p)'
  BY <1>2, <1>3, AppendedOwn DEF JournalInv, JournalSafe
<1>8. journal[o] # <<>> /\ entries' = entries /\ \A p \in Ops \ {o} : journal'[p] = journal[p]
  BY <1>2, <1>3, AppendShape
<1>9. ~Malformed(journal[o], entries)'
  BY <1>2, <1>3, <1>6, <1>8, FittingStaysReadable DEF JournalInv, JournalSafe, Accepted
<1>10. Attempted(o)' = Attempted(o) \cup {t} /\ Billed(o)' = Billed(o)
  BY <1>2, <1>3, AppendedIds DEF Attempted, Billed
<1>11. turn'[o] = t /\ phase'[o] = "asking" /\ late'[o] = late[o]
  BY <1>3 DEF TypeInv, TypeOK, RunTypeOK
<1>12. late[o] = "none"
  BY <1>1 DEF EffectInv, EffectSafe, LateAfterAbort, AfterTool
<1>13. AttemptsFollowRun(o)'
  BY <1>1, <1>4, <1>5, <1>10, <1>11, <1>12 DEF AttemptsFollowRun, Attempts
<1>14. \A p \in Ops \ {o} : QuietRun(p)
  BY <1>3 DEF QuietRun, InRun, TypeInv, TypeOK, RunTypeOK
<1>15. \A p \in Ops \ {o} : JournalSafe(p)'
  BY <1>8, <1>14, JournalStays DEF JournalInv
<1> QED BY <1>7, <1>9, <1>13, <1>15 DEF JournalInv, JournalSafe

LEMMA UsageWritten ==
  ASSUME TypeInv, JournalInv, NEW o \in Ops, NEW r \in Reply, SettleUsage(o, r)
  PROVE  JournalInv'
<1> DEFINE record == UsageSettled(o, turn[o])
<1>1. turn[o] \in Attempts /\ phase[o] = "asking" /\ InRun(o)
  BY DEF SettleUsage, Goes, InRun, TypeInv, TurnKnown
<1>2. /\ record \in RecordOf(o) /\ record \in Record
      /\ record.type = "usage_settled" /\ record.id = turn[o]
  BY <1>1, OwnRecords DEF RecordOf, UsageSettled
<1>3. /\ AppendRecord(o, record) /\ late' = late /\ turn' = turn
      /\ phase' = [phase EXCEPT ![o] = "replied"]
  BY DEF SettleUsage, Goes
<1> HIDE DEF record
<1>4. turn[o] \in Attempted(o) /\ turn[o] \notin Billed(o)
  BY <1>1 DEF JournalInv, JournalSafe, AttemptsFollowRun, Attempts
<1>5. Fits(o, record)
  BY <1>2, <1>4 DEF Fits
<1>6. \A p \in Ops : OwnJournal(p)'
  BY <1>2, <1>3, AppendedOwn DEF JournalInv, JournalSafe
<1>7. journal[o] # <<>> /\ entries' = entries /\ \A p \in Ops \ {o} : journal'[p] = journal[p]
  BY <1>2, <1>3, AppendShape
<1>8. ~Malformed(journal[o], entries)'
  BY <1>2, <1>3, <1>5, <1>7, FittingStaysReadable DEF JournalInv, JournalSafe, Accepted
<1>9. Attempted(o)' = Attempted(o) /\ Billed(o)' = Billed(o) \cup {turn[o]}
  BY <1>2, <1>3, AppendedIds DEF Attempted, Billed
<1>10. turn'[o] = turn[o] /\ phase'[o] = "replied" /\ late'[o] = late[o]
  BY <1>3 DEF TypeInv, TypeOK, RunTypeOK
<1>11. AttemptsFollowRun(o)'
  BY <1>1, <1>7, <1>9, <1>10 DEF JournalInv, JournalSafe, AttemptsFollowRun, Attempts
<1>12. \A p \in Ops \ {o} : QuietRun(p)
  BY <1>3 DEF QuietRun, InRun, TypeInv, TypeOK, RunTypeOK
<1>13. \A p \in Ops \ {o} : JournalSafe(p)'
  BY <1>7, <1>12, JournalStays DEF JournalInv
<1> QED BY <1>6, <1>8, <1>11, <1>13 DEF JournalInv, JournalSafe

(* The tools of a reply are asked for once the reply itself is durable. *)
LEMMA ReplyWritten ==
  ASSUME TypeInv, JournalInv, NEW o \in Ops, CommitReply(o)
  PROVE  JournalInv'
<1>1. /\ UNCHANGED <<journal, turn, late>> /\ InRun(o)
      /\ entries' = entries \cup {AssistantEntry(o, turn[o])}
      /\ phase' = [phase EXCEPT ![o] = AfterReply(reply[o])]
  BY DEF CommitReply, Goes, AppendEntries, InRun
<1>2. \A p \in Ops \ {o} : QuietRun(p)
  BY <1>1 DEF QuietRun, InRun, TypeInv, TypeOK, RunTypeOK
<1>3. \A p \in Ops \ {o} : JournalSafe(p)'
  BY <1>1, <1>2, JournalStays DEF JournalInv
<1>4. OwnJournal(o)' /\ (Accepted(o)' => ~Malformed(journal[o], entries)')
  BY <1>1, EntriesStayReadable DEF JournalInv, JournalSafe, OwnJournal, Accepted
<1>5. phase'[o] \in {"gate", "drain", "closing"}
  BY <1>1 DEF AfterReply, TypeInv, TypeOK, RunTypeOK
<1>6. Attempted(o)' = Attempted(o) /\ Billed(o)' = Billed(o)
  BY <1>1 DEF Attempted, Billed, Ids
<1>7. AttemptsFollowRun(o)'
  BY <1>1, <1>5, <1>6 DEF JournalInv, JournalSafe, AttemptsFollowRun, AssistantEntry
<1> QED BY <1>3, <1>4, <1>7 DEF JournalInv, JournalSafe

LEMMA IntentWritten ==
  ASSUME TypeInv, EffectInv, JournalInv, NEW o \in Ops, Dispatch(o),
         phase[o] = "gate" \/ late[o] = "gate", \A p \in Ops : QuietRun(p)
  PROVE  JournalInv'
<1> DEFINE record == ToolDispatched(o, turn[o], AssistantEntry(o, turn[o]), ResultEntry(o, turn[o]))
<1>1. turn[o] \in Attempts
  BY DEF TypeInv, TurnKnown
<1>2. InRun(o)
  BY DEF InRun, EffectInv, EffectSafe, LateAfterAbort, AfterTool
<1>3. record \in RecordOf(o) /\ record.type = "tool_dispatched" /\ record.id = turn[o]
  BY <1>1, OwnRecords DEF ToolDispatched
<1>4. AppendRecord(o, record)
  BY DEF Dispatch
<1> HIDE DEF record
<1>5. turn[o] \in Attempted(o) /\ AssistantEntry(o, turn[o]) \in entries
  BY <1>1, <1>2 DEF JournalInv, JournalSafe, AttemptsFollowRun, Attempts
<1>6. turn[o] \notin Dispatched(o)
  BY DEF EffectInv, EffectSafe, AtGate
<1>7. Fits(o, record)
  BY <1>3, <1>5, <1>6 DEF Fits
<1> QED BY <1>3, <1>4, <1>7, FittingWritten

LEMMA RunKeepsJournals ==
  ASSUME TypeInv, EffectInv, JournalInv, NEW o \in Ops, RunStep(o)
  PROVE  JournalInv'
<1>1. CASE AttemptModel(o)
  BY <1>1, AttemptWritten
<1>2. CASE CommitReply(o)
  BY <1>2, ReplyWritten
<1>3. ASSUME NEW r \in Reply, SettleUsage(o, r) PROVE JournalInv'
  BY <1>3, UsageWritten
<1>4. CASE DispatchTool(o) \/ LateDispatch(o)
  <2>1. \A p \in Ops : QuietRun(p)
    BY <1>4 DEF DispatchTool, LateDispatch, QuietRun, InRun, Goes, TypeInv, TypeOK, RunTypeOK
  <2>2. CASE Dispatch(o)
    BY <1>4, <2>1, <2>2, IntentWritten DEF DispatchTool, LateDispatch, Goes
  <2>3. CASE RecordRefused(o)
    BY <2>1, <2>3, RefusalsKeepJournal, EntriesGrow, NothingWritten
  <2> QED BY <1>4, <2>2, <2>3 DEF DispatchTool, LateDispatch
<1>5. CASE \/ LoopStep(o) /\ ~AttemptModel(o) /\ ~CommitReply(o)
           \/ SettleRefused(o) \/ RefuseTool(o) \/ DispatchRefused(o) \/ ToolReturns(o)
           \/ LateExecute(o)
  <2>1. UNCHANGED journal /\ entries \subseteq entries'
    BY <1>5, RunWritesNoRecord
  <2>2. CASE AttemptModel(o) \/ CommitReply(o)
    BY <1>1, <1>2, <2>2
  <2>3. CASE ~AttemptModel(o) /\ ~CommitReply(o)
    BY <2>1, <2>3, RunQuiet, NothingWritten
  <2> QED BY <2>2, <2>3
<1> QED BY <1>1, <1>2, <1>3, <1>4, <1>5 DEF RunStep, ProviderStep, ToolStep, LateStep

-----------------------------------------------------------------------------
(* The Session object, the clients and recovery. *)
RunsQuiet == \A p \in Ops : QuietRun(p)

LEMMA RunsKeptQuiet ==
  RunsKept => RunsQuiet
BY DEF RunsKept, RunsQuiet, QuietRun, InRun

LEMMA LeavesQuiet ==
  ASSUME TypeInv, NEW o \in Ops, InRun(o), Leaves(o), UNCHANGED <<turn, late>>
  PROVE  RunsQuiet
BY DEF RunsQuiet, QuietRun, InRun, Leaves, TypeInv, TypeOK, RunTypeOK

LEMMA EndWritten ==
  ASSUME TypeInv, JournalInv, NEW o \in Ops, NEW outcome \in TerminalOutcome, RunsQuiet,
         AppendRecord(o, OperationFinished(o, outcome))
  PROVE  JournalInv'
<1> DEFINE record == OperationFinished(o, outcome)
<1>1. record \in RecordOf(o) /\ record.type = "operation_finished"
  BY OwnRecords DEF OperationFinished
<1>2. AppendRecord(o, record)
  OBVIOUS
<1> HIDE DEF record
<1> QED BY <1>1, <1>2, FittingWritten DEF Fits, RunsQuiet

LEMMA AdmissionWritten ==
  ASSUME TypeInv, EffectInv, JournalInv, NEW s \in Sessions, AdmitPrompt(s)
  PROVE  JournalInv'
<1>1. PICK o \in Ops : /\ \A p \in Ops : Accepted(p) <=> p < o
                       /\ AdmitTransaction(o, work[s].leaf)
                       /\ phase' = [phase EXCEPT ![o] = "accepted"]
  BY DEF AdmitPrompt
<1>2. UNCHANGED <<turn, late>> /\ ~Accepted(o)
  BY <1>1 DEF AdmitPrompt, Ops
<1>3. /\ journal'[o] = <<OperationAccepted(o, InputEntry(o))>>
      /\ \A p \in Ops \ {o} : journal'[p] = journal[p]
      /\ entries' = entries \cup {InputEntry(o)}
  BY <1>1 DEF AdmitTransaction, TypeInv, TypeOK, PersistenceTypeOK
<1>4. turn[o] = 0 /\ late[o] = "none"
  BY <1>2 DEF EffectInv, EffectSafe, LateAfterAbort, AfterTool
<1>5. phase'[o] = "accepted" /\ \A p \in Ops \ {o} : phase'[p] = phase[p]
  BY <1>1 DEF TypeInv, TypeOK, RunTypeOK
<1>6. \A p \in Ops \ {o} : JournalSafe(p)'
  BY <1>2, <1>3, <1>5, JournalStays DEF JournalInv, QuietRun, InRun
<1> DEFINE after == journal'[o]
<1>7. /\ after = <<OperationAccepted(o, InputEntry(o))>>
      /\ DOMAIN after = {1} /\ Len(after) = 1 /\ after # <<>>
      /\ after[1].type = "operation_accepted" /\ after[1].entry \in entries'
  BY <1>3 DEF OperationAccepted
<1>8. \A type : type # "operation_accepted" => Of(after, type) = {}
  BY <1>7 DEF Of
<1>9. OwnJournal(o)'
  BY <1>7 DEF OwnJournal, InputEntry
<1> HIDE DEF after
<1>10. ~Malformed(after, entries')
  BY <1>7, <1>8 DEF Malformed, RepeatsId, RepeatsEntry, SettlesUnknownAttempt,
                    DispatchesUnknownReply, Of
<1>11. Attempted(o)' = {} /\ Billed(o)' = {}
  BY <1>8 DEF Attempted, Billed, Ids, after
<1>12. AttemptsFollowRun(o)'
  BY <1>2, <1>4, <1>5, <1>11 DEF AttemptsFollowRun
<1>13. JournalSafe(o)'
  BY <1>9, <1>10, <1>12 DEF JournalSafe, after
<1> QED BY <1>6, <1>13 DEF JournalInv

LEMMA QueueKeepsJournals ==
  ASSUME TypeInv, EffectInv, JournalInv, NEW s \in Sessions, QueueStep(s)
  PROVE  JournalInv'
<1> USE RefusalsKeepJournal, EntriesGrow
<1>1. CASE AdmitPrompt(s)
  BY <1>1, AdmissionWritten
<1>2. CASE QueueInput(s)
  <2>1. PICK i \in Inputs :
          /\ \A j \in Inputs : j \in QueuedInputs(active[s]) <=> j < i
          /\ AppendRecord(active[s], InputQueued(active[s], i, QueuedEntry(active[s], i)))
    BY <1>2 DEF QueueInput
  <2> DEFINE record == InputQueued(active[s], i, QueuedEntry(active[s], i))
  <2>2. active[s] \in Ops
    BY <1>2, ActiveOp DEF QueueInput
  <2>3. /\ record \in RecordOf(active[s]) /\ AppendRecord(active[s], record)
        /\ record.type = "input_queued" /\ record.id = i
    BY <2>1, <2>2, OwnRecords DEF InputQueued
  <2>4. i \notin QueuedInputs(active[s])
    BY <2>1 DEF Inputs
  <2>5. RunsQuiet
    BY <1>2, RunsKeptQuiet DEF QueueInput, runVars, RunsKept
  <2> HIDE DEF record
  <2>6. Fits(active[s], record)
    BY <2>3, <2>4 DEF Fits
  <2> QED BY <2>2, <2>3, <2>5, <2>6, FittingWritten DEF RunsQuiet
<1>3. CASE LoadForCompletion(s)
  <2> DEFINE o == Head(queue[s])[2]
  <2>1. queue[s] # <<>> /\ queue[s] \in Seq(Item) /\ Head(queue[s])[1] = "complete"
    BY <1>3 DEF LoadForCompletion, Serving, TypeInv, TypeOK, SessionTypeOK
  <2>2. 1 \in DOMAIN queue[s] /\ Head(queue[s]) = queue[s][1] /\ Head(queue[s]) \in Item
    BY <2>1
  <2>3. o \in Ops /\ InRun(o)
    BY <2>1, <2>2 DEF Item, EffectInv, CompletionKnown
  <2>4. UNCHANGED <<turn, late>>
    BY <1>3 DEF LoadForCompletion
  <2> HIDE DEF o
  <2>5. /\ Leaves(o) \/ UNCHANGED phase
        /\ UNCHANGED persistenceVars \/ DatabaseFails
    BY <1>3 DEF LoadForCompletion, CompletionUnreadable, ParkIndeterminate, SuspendPending,
                AlreadyFinished, DecideOutcome, o
  <2>6. RunsQuiet
    BY <2>3, <2>4, <2>5, LeavesQuiet DEF RunsQuiet, QuietRun, InRun
  <2> QED BY <2>5, <2>6, NothingWritten DEF RunsQuiet
<1>4. CASE FinishOperation(s)
  <2>1. work[s].op \in Ops /\ InRun(work[s].op) /\ work[s].verdict \in Verdict
    BY <1>4 DEF FinishOperation, Serving, EffectInv, CompletionKnown, TypeInv, TypeOK,
                SessionTypeOK, WorkKnown, Known, Work
  <2>2. RunsQuiet
    BY <1>4, <2>1, LeavesQuiet DEF FinishOperation
  <2>3. \/ RecordRefused(work[s].op)
        \/ AppendRecord(work[s].op,
             OperationFinished(work[s].op, TerminalOutcomeFor(work[s].op, work[s].verdict)))
    BY <1>4 DEF FinishOperation
  <2> QED BY <2>1, <2>2, <2>3, EndWritten, OutcomeOfCompletion, NothingWritten DEF RunsQuiet
<1>5. CASE AbortByCancel(s)
  <2>1. work[s].op \in Ops /\ "aborted" \in TerminalOutcome
    BY <1>5 DEF AbortByCancel, Serving, TypeInv, WorkKnown, Known, TerminalOutcome
  <2>2. RunsQuiet
    BY <1>5, RunsKeptQuiet DEF AbortByCancel, runVars, RunsKept
  <2>3. \/ AppendRecord(work[s].op, OperationFinished(work[s].op, "aborted"))
        \/ RecordRefused(work[s].op)
    BY <1>5 DEF AbortByCancel
  <2> QED BY <2>1, <2>2, <2>3, EndWritten, NothingWritten DEF RunsQuiet
<1>6. CASE \/ RejectPrompt(s) \/ InputRefused(s) \/ DeliverInput(s) \/ LoadForPrompt(s)
           \/ AdmissionFails(s) \/ LoadForCancel(s)
  <2>1. RunsQuiet
    BY <1>6, RunsKeptQuiet
       DEF RejectPrompt, InputRefused, DeliverInput, LoadForPrompt, AdmissionFails, LoadForCancel,
           runVars, RunsKept
  <2>2. UNCHANGED journal /\ entries \subseteq entries'
    BY <1>6, ActiveOp
       DEF RejectPrompt, InputRefused, DeliverInput, LoadForPrompt, AdmissionFails, AdmitRefused,
           LoadForCancel
  <2> QED BY <2>1, <2>2, NothingWritten DEF RunsQuiet
<1> QED BY <1>1, <1>2, <1>3, <1>4, <1>5, <1>6 DEF QueueStep

LEMMA JournalsKept ==
  ASSUME TypeInv, EffectInv, JournalInv, [Next]_vars
  PROVE  JournalInv'
<1> USE RefusalsKeepJournal, EntriesGrow
<1>1. ASSUME RunsQuiet, UNCHANGED persistenceVars \/ DatabaseFails PROVE JournalInv'
  BY <1>1, NothingWritten DEF RunsQuiet
<1>2. CASE UNCHANGED vars
  BY <1>1, <1>2, RunsKeptQuiet DEF vars, runVars, RunsKept
<1>3. ASSUME NEW o \in Ops, RunAlone(o) PROVE JournalInv'
  BY <1>3, RunKeepsJournals DEF RunAlone
<1>4. ASSUME NEW o \in Ops, DriverStep(o) PROVE JournalInv'
  <2>1. RunsQuiet
    BY <1>4 DEF DriverStep, StartAdmitted, AttachResource, SubmitCompletion, Goes, RunsQuiet,
                QuietRun, InRun, TypeInv, TypeOK, RunTypeOK
  <2> QED BY <1>1, <1>4, <2>1 DEF DriverStep, StartAdmitted, AttachResource, SubmitCompletion
<1>5. ASSUME NEW s \in Sessions, QueueStep(s) PROVE JournalInv'
  BY <1>5, QueueKeepsJournals
<1>6. ASSUME NEW s \in Sessions, ClientStep(s) PROVE JournalInv'
  <2>1. RunsQuiet
    BY <1>6 DEF ClientStep, Prompt, CancelLive, CancelQueued, Close, runVars, RunsQuiet, QuietRun,
                InRun
  <2> QED BY <1>1, <1>6, <2>1 DEF ClientStep, Prompt, CancelLive, CancelQueued, Close
<1>7. ASSUME NEW r \in Requests, OpenStep(r) PROVE JournalInv'
  <2>1. RunsQuiet
    BY <1>7, RunsKeptQuiet
       DEF OpenStep, OpenLoad, OpenRefused, OpenAttach, OpenClaim, OpenFinalize, OpenFails,
           OpenRegister, runVars, RunsKept
  <2>2. CASE OpenFinalize(r)
    <3>1. PICK o \in ToFinalize(r) :
            \/ AppendRecord(o, OperationFinished(o, RecoveredOutcome(found[r][o])))
            \/ RecordRefused(o)
      BY <2>2 DEF OpenFinalize
    <3>2. o \in Ops /\ found[r][o] \in Verdict /\ Finalizable(found[r][o])
      BY <3>1 DEF ToFinalize, TypeInv, TypeOK, HostTypeOK
    <3> QED BY <2>1, <3>1, <3>2, OutcomeOfCompletion, EndWritten, NothingWritten DEF RunsQuiet
  <2>3. CASE ~OpenFinalize(r)
    <3>1. UNCHANGED persistenceVars \/ DatabaseFails
      BY <1>7, <2>3 DEF OpenStep, OpenLoad, OpenRefused, OpenAttach, OpenClaim, OpenFails,
                        OpenRegister
    <3> QED BY <1>1, <2>1, <3>1
  <2> QED BY <2>2, <2>3
<1>8. CASE Crash
  <2>1. RunsQuiet
    BY <1>8 DEF Crash, RunLost, RunsQuiet, QuietRun, InRun
  <2> QED BY <1>1, <1>8, <2>1 DEF Crash
<1> QED BY <1>2, <1>3, <1>4, <1>5, <1>6, <1>7, <1>8 DEF Next

LEMMA JournalInvAtStart ==
  ASSUME Init
  PROVE  JournalInv
<1>1. \A o \in Ops : journal[o] = <<>> /\ phase[o] = "none"
  BY DEF Init, PersistenceInit, RunInit
<1> QED BY <1>1 DEF JournalInv, JournalSafe, OwnJournal, Accepted, AttemptsFollowRun, InRun

LEMMA JournalInvariant == Spec => [](TypeInv /\ EffectInv /\ JournalInv)
<1>1. Init => TypeInv /\ EffectInv /\ JournalInv
  BY TypesAtStart, EffectInvAtStart, JournalInvAtStart
<1>2. TypeInv /\ EffectInv /\ JournalInv /\ [Next]_vars => (TypeInv /\ EffectInv /\ JournalInv)'
  BY TypesKept, EffectInvKept, JournalsKept
<1> QED BY <1>1, <1>2, PTL DEF Spec

(***************************************************************************)
(* Whatever order driver, queue, cancel and recovery write in, the records *)
(* of an Operation pass the reducer's structural checks, though the store  *)
(* itself checks only that the Operation is accepted and not finished.     *)
(***************************************************************************)
THEOREM JournalsAreWellFormed == Spec => []JournalWellFormed
<1>1. JournalInv => JournalWellFormed
  BY DEF JournalInv, JournalSafe, JournalWellFormed
<1> QED BY <1>1, JournalInvariant, PTL

-----------------------------------------------------------------------------
(***************************************************************************)
(* The verdict on an Operation depends on its own records and entries.     *)
(***************************************************************************)
Names(own, records) ==
  /\ records # <<>> => records[1].entry \in own
  /\ \A i \in Of(records, "tool_dispatched") :
       records[i].assistant \in own /\ records[i].entry \in own
  /\ \A i \in Of(records, "input_queued") : records[i].entry \in own
  /\ \A i \in Of(records, "model_attempted") : records[i].entry \in own

SameEndings(records, ends, ends2) ==
  \A i \in Of(records, "model_attempted") : ends[records[i].entry] = ends2[records[i].entry]

JudgedAlike(records, less, more, ends, ends2) ==
  /\ RecoverOperation(records, less, ends) = RecoverOperation(records, more, ends2)
  /\ IncompleteDispatches(records, less) = IncompleteDispatches(records, more)

LEMMA VerdictIsLocal ==
  ASSUME NEW records, NEW own, NEW less, NEW more, NEW ends, NEW ends2,
         Names(own, records),
         \A e \in own : e \in less <=> e \in more,
         SameEndings(records, ends, ends2)
  PROVE  JudgedAlike(records, less, more, ends, ends2)
<1> USE DEF Names, SameEndings
<1>1. Malformed(records, less) <=> Malformed(records, more)
  BY DEF Malformed, DispatchesUnknownReply
<1>2. IncompleteDispatches(records, less) = IncompleteDispatches(records, more)
  BY DEF IncompleteDispatches
<1>3. PendingInputs(records, less) = PendingInputs(records, more)
  BY DEF PendingInputs
<1>4. RecoverFinished(records, less) = RecoverFinished(records, more)
  BY <1>2, <1>3 DEF RecoverFinished
<1> DEFINE latest == {records[i].entry : i \in {j \in DOMAIN records : IsLatestAttempt(records, j)}}
           ended == {e \in latest : ends[e] # NoOutcome}
           ended2 == {e \in latest : ends2[e] # NoOutcome}
<1>5. \A e \in latest : e \in own /\ ends[e] = ends2[e]
  BY DEF IsLatestAttempt
<1>6. latest \ less = latest \ more /\ ended = ended2
  BY <1>5
<1>7. ended # {} => (CHOOSE e \in ended : TRUE) \in latest
  OBVIOUS
<1>8. ended # {} => ends[CHOOSE e \in ended : TRUE] = ends2[CHOOSE e \in ended2 : TRUE]
  BY <1>5, <1>6, <1>7
<1> HIDE DEF latest, ended, ended2
<1>9. /\ RecoverOpen(records, less, ends) =
           IF latest \ less # {} THEN Open("provider_interrupted", PendingInputs(records, less) # {})
           ELSE IF ended = {} THEN Open("ready", PendingInputs(records, less) # {})
           ELSE IF PendingInputs(records, less) # {} THEN Corrupted
           ELSE Terminal(ends[CHOOSE e \in ended : TRUE], "inferred")
      /\ RecoverOpen(records, more, ends2) =
           IF latest \ more # {} THEN Open("provider_interrupted", PendingInputs(records, more) # {})
           ELSE IF ended2 = {} THEN Open("ready", PendingInputs(records, more) # {})
           ELSE IF PendingInputs(records, more) # {} THEN Corrupted
           ELSE Terminal(ends2[CHOOSE e \in ended2 : TRUE], "inferred")
  BY DEF RecoverOpen, latest, ended, ended2
<1>10. RecoverOpen(records, less, ends) = RecoverOpen(records, more, ends2)
  BY <1>3, <1>6, <1>8, <1>9
<1> QED BY <1>1, <1>2, <1>4, <1>10 DEF RecoverOperation, JudgedAlike

(***************************************************************************)
(* What the verdict says of an Operation without a terminal record: what   *)
(* recovery may write about it, or why it may not.                         *)
(***************************************************************************)
Latest(records) == {i \in DOMAIN records : IsLatestAttempt(records, i)}

Explains(v, records, durable, ends) ==
  /\ v.finalization # "durable" /\ v.status # "none"
  /\ Finalizable(v) =>
       /\ IncompleteDispatches(records, durable) = {}
       /\ \/ RecoveredOutcome(v) = "interrupted"
          \/ \E i \in Latest(records) :
               records[i].entry \in durable /\ ends[records[i].entry] = RecoveredOutcome(v)
  /\ ~Finalizable(v) =>
       \/ v.status = "corrupted"
       \/ v.status = "indeterminate_tool" /\ IncompleteDispatches(records, durable) # {}
  /\ IncompleteDispatches(records, durable) # {} => v.status \in {"corrupted", "indeterminate_tool"}

LEMMA OpenVerdict ==
  ASSUME NEW records, NEW durable, NEW ends, ~IsFinished(records)
  PROVE  Explains(RecoverOperation(records, durable, ends), records, durable, ends)
<1> DEFINE latest == {records[i].entry : i \in Latest(records)}
           ended == {e \in latest : ends[e] # NoOutcome}
           pending == PendingInputs(records, durable) # {}
           implied == ends[CHOOSE e \in ended : TRUE]
<1> USE DEF Finalizable, RecoveredOutcome, Corrupted, Open, Terminal
<1>1. Explains(Corrupted, records, durable, ends)
  BY DEF Explains
<1>2. ASSUME IncompleteDispatches(records, durable) # {}
      PROVE  Explains(Open("indeterminate_tool", FALSE), records, durable, ends)
  BY <1>2 DEF Explains
<1>3. ASSUME IncompleteDispatches(records, durable) = {}
      PROVE  Explains(RecoverOpen(records, durable, ends), records, durable, ends)
  <2>1. RecoverOpen(records, durable, ends) =
          IF latest \ durable # {} THEN Open("provider_interrupted", pending)
          ELSE IF ended = {} THEN Open("ready", pending)
          ELSE IF pending THEN Corrupted
          ELSE Terminal(implied, "inferred")
    BY DEF RecoverOpen, Latest
  <2>2. ended # {} => (CHOOSE e \in ended : TRUE) \in latest
    OBVIOUS
  <2>3. latest \ durable = {} /\ ended # {} =>
          \E i \in Latest(records) : records[i].entry \in durable /\ ends[records[i].entry] = implied
    BY <2>2
  <2> HIDE DEF latest, ended, pending, implied
  <2>4. \A p : /\ Explains(Open("provider_interrupted", p), records, durable, ends)
               /\ Explains(Open("ready", p), records, durable, ends)
    BY <1>3 DEF Explains
  <2>5. latest \ durable = {} /\ ended # {} =>
          Explains(Terminal(implied, "inferred"), records, durable, ends)
    BY <1>3, <2>3 DEF Explains
  <2> QED BY <1>1, <2>1, <2>4, <2>5
<1>4. RecoverOperation(records, durable, ends) =
        IF Malformed(records, durable) THEN Corrupted
        ELSE IF IncompleteDispatches(records, durable) # {} THEN Open("indeterminate_tool", FALSE)
        ELSE RecoverOpen(records, durable, ends)
  BY DEF RecoverOperation
<1> QED BY <1>1, <1>2, <1>3, <1>4

(* Only a terminal record makes a verdict durable. *)
LEMMA DurableIsFinished ==
  ASSUME NEW o \in Ops, VerdictOf(o).finalization = "durable"
  PROVE  Finished(o)
<1>1. CASE Accepted(o)
  BY <1>1, OpenVerdict DEF VerdictOf, Finished, Explains
<1>2. CASE ~Accepted(o)
  BY <1>2 DEF VerdictOf, NoVerdict, Open
<1> QED BY <1>1, <1>2

-----------------------------------------------------------------------------
(* The entries that records of p name, and steps that leave them alone. *)
Mine(p) ==
  {InputEntry(p)} \cup {QueuedEntry(p, i) : i \in Inputs}
    \cup {AssistantEntry(p, t) : t \in Attempts} \cup {ResultEntry(p, t) : t \in Attempts}

SameEvidence(p) ==
  /\ journal'[p] = journal[p]
  /\ \A e \in Mine(p) : e \in entries' <=> e \in entries
  /\ \A t \in Attempts : ending'[AssistantEntry(p, t)] = ending[AssistantEntry(p, t)]

SameVerdict(p) == VerdictOf(p)' = VerdictOf(p) /\ (Incomplete(p)' <=> Incomplete(p))

LEMMA EvidenceDecides ==
  ASSUME TypeInv, NEW p \in Ops, OwnJournal(p), SameEvidence(p)
  PROVE  SameVerdict(p)
<1> DEFINE records == journal[p]
<1>1. \A k \in DOMAIN records : k # 1 => records[k] \in Record /\ OwnRecord(p, records[k])
  BY DEF OwnJournal, RecordOf
<1>2. 1 \in DOMAIN records => records[1] = OperationAccepted(p, InputEntry(p))
  BY DEF OwnJournal
<1>3. records # <<>> => 1 \in DOMAIN records
  <2>1. records \in Seq(Record)
    BY DEF TypeInv, TypeOK, PersistenceTypeOK
  <2> QED BY <2>1
<1>4. records # <<>> => records[1].entry \in Mine(p)
  BY <1>2, <1>3 DEF OperationAccepted, Mine
<1>5. \A k \in Of(records, "tool_dispatched") : records[k].assistant \in Mine(p) /\ records[k].entry \in Mine(p)
  <2> SUFFICES ASSUME NEW k \in Of(records, "tool_dispatched")
               PROVE  records[k].assistant \in Mine(p) /\ records[k].entry \in Mine(p)
    OBVIOUS
  <2>1. k \in DOMAIN records /\ records[k].type = "tool_dispatched" /\ k # 1
    BY <1>2 DEF Of, OperationAccepted
  <2>2. records[k].id \in Attempts
    BY <1>1, <2>1 DEF Record
  <2>3. records[k].assistant = AssistantEntry(p, records[k].id) /\ records[k].entry = ResultEntry(p, records[k].id)
    BY <1>1, <2>1 DEF OwnRecord
  <2> QED BY <2>2, <2>3 DEF Mine
<1>6. \A k \in Of(records, "input_queued") : records[k].entry \in Mine(p)
  <2> SUFFICES ASSUME NEW k \in Of(records, "input_queued") PROVE records[k].entry \in Mine(p)
    OBVIOUS
  <2>1. k \in DOMAIN records /\ records[k].type = "input_queued" /\ k # 1
    BY <1>2 DEF Of, OperationAccepted
  <2>2. records[k].id \in Inputs
    BY <1>1, <2>1 DEF Record
  <2>3. records[k].entry = QueuedEntry(p, records[k].id)
    BY <1>1, <2>1 DEF OwnRecord
  <2> QED BY <2>2, <2>3 DEF Mine
<1>7. \A k \in Of(records, "model_attempted") :
        records[k].entry \in Mine(p) /\ ending[records[k].entry] = ending'[records[k].entry]
  <2> SUFFICES ASSUME NEW k \in Of(records, "model_attempted")
               PROVE  records[k].entry \in Mine(p) /\ ending[records[k].entry] = ending'[records[k].entry]
    OBVIOUS
  <2>1. k \in DOMAIN records /\ records[k].type = "model_attempted" /\ k # 1
    BY <1>2 DEF Of, OperationAccepted
  <2>2. records[k].id \in Attempts
    BY <1>1, <2>1 DEF Record
  <2>3. records[k].entry = AssistantEntry(p, records[k].id)
    BY <1>1, <2>1 DEF OwnRecord
  <2> QED BY <2>2, <2>3 DEF Mine, SameEvidence
<1>8. \A e \in Mine(p) : e \in entries <=> e \in entries'
  BY DEF SameEvidence
<1> HIDE DEF records
<1>9. JudgedAlike(records, entries, entries', ending, ending')
  <2>1. Names(Mine(p), records) /\ SameEndings(records, ending, ending')
    BY <1>4, <1>5, <1>6, <1>7 DEF Names, SameEndings
  <2> QED BY <1>8, <2>1, VerdictIsLocal
<1>10. journal'[p] = records /\ journal[p] = records
  BY DEF SameEvidence, records
<1>11. VerdictOf(p)' = VerdictOf(p)
  BY <1>9, <1>10 DEF VerdictOf, Accepted, JudgedAlike
<1>12. Incomplete(p)' <=> Incomplete(p)
  <2>1. IncompleteDispatches(journal'[p], entries') = IncompleteDispatches(journal[p], entries)
    BY <1>9, <1>10 DEF JudgedAlike
  <2> QED BY <2>1 DEF Incomplete
<1> QED BY <1>11, <1>12 DEF SameVerdict

LEMMA NothingNew ==
  ASSUME UNCHANGED <<journal, entries, ending>>
  PROVE  \A p \in Ops : SameEvidence(p)
BY DEF SameEvidence

LEMMA RefusedEvidence ==
  /\ UNCHANGED persistenceVars => UNCHANGED <<journal, entries, ending>>
  /\ DatabaseFails => UNCHANGED <<journal, entries, ending>>
  /\ \A o \in Ops : RecordRefused(o) => UNCHANGED <<journal, entries, ending>>
  /\ \A held0 : EntryRefused(held0) => UNCHANGED <<journal, entries, ending>>
BY DEF DatabaseFails, RecordRefused, EntryRefused, persistenceVars

LEMMA RecordSparesOthers ==
  ASSUME TypeInv, NEW o \in Ops, NEW record \in Record, AppendRecord(o, record)
  PROVE  \A p \in Ops \ {o} : SameEvidence(p)
BY AppendShape DEF SameEvidence

LEMMA EntrySparesOthers ==
  ASSUME TypeInv, NEW o \in Ops, NEW new \in SUBSET Mine(o), NEW held0, AppendEntries(new, held0),
         \/ UNCHANGED ending
         \/ \E t \in Attempts : \E e : ending' = [ending EXCEPT ![AssistantEntry(o, t)] = e]
  PROVE  \A p \in Ops \ {o} : SameEvidence(p)
<1> SUFFICES ASSUME NEW p \in Ops, p # o PROVE SameEvidence(p)
  OBVIOUS
<1>1. journal' = journal /\ entries' = entries \cup new
  BY DEF AppendEntries
<1>2. \A e \in Mine(p) : e \notin Mine(o)
  BY DEF Mine, InputEntry, QueuedEntry, AssistantEntry, ResultEntry
<1>3. \A e \in Mine(p) : e \in entries' <=> e \in entries
  BY <1>1, <1>2
<1>4. ASSUME NEW t \in Attempts
      PROVE  ending'[AssistantEntry(p, t)] = ending[AssistantEntry(p, t)]
  <2>1. \A u \in Attempts : AssistantEntry(p, t) # AssistantEntry(o, u)
    BY DEF AssistantEntry
  <2>2. AssistantEntry(p, t) \in AssistantEntries /\ ending \in [AssistantEntries -> TerminalOutcome \cup {NoOutcome}]
    BY EntryTypes DEF TypeInv, TypeOK, PersistenceTypeOK
  <2> QED BY <2>1, <2>2
<1> QED BY <1>1, <1>3, <1>4 DEF SameEvidence

(* A run writes about its own Operation, and it runs in this process. *)
LEMMA RunsHere ==
  ASSUME TypeInv, EffectInv, NEW o \in Ops, RunStep(o)
  PROVE  InRun(o)
<1> USE DEF Goes, InRun
<1>1. CASE LoopStep(o)
  BY <1>1
     DEF LoopStep, BuildAgent, BuildFails, StartRun, BeginLoop, InjectInput, InjectFails,
         AttemptModel, AttemptRefused, DiscardReply, GiveUpRepair, CommitReply, CommitRefused,
         ExecuteTool, AbandonTool, PublishResult, PublishRefused, StopOnAbort, TakeInput,
         NextRequest, NothingLeft, ReachLimit, ReportFailure, FinishRun
<1>2. CASE ProviderStep(o) \/ ToolStep(o)
  BY <1>2 DEF ProviderStep, SettleUsage, SettleRefused, ToolStep, RefuseTool, DispatchTool,
              DispatchRefused, ToolReturns
<1>3. CASE LateStep(o)
  BY <1>3 DEF LateStep, LateDispatch, LateExecute, EffectInv, EffectSafe, LateAfterAbort, AfterTool
<1> QED BY <1>1, <1>2, <1>3 DEF RunStep

LEMMA RunWritesOwn ==
  ASSUME TypeInv, NEW o \in Ops, RunStep(o)
  PROVE  \A p \in Ops \ {o} : SameEvidence(p)
<1> DEFINE Others == \A p \in Ops \ {o} : SameEvidence(p)
<1>1. UNCHANGED <<journal, entries, ending>> => Others
  BY NothingNew
<1>2. ASSUME NEW record \in Record, AppendRecord(o, record) PROVE Others
  BY <1>2, RecordSparesOthers
<1>3. CASE ProviderStep(o)
  <2>1. ASSUME NEW r \in Reply, SettleUsage(o, r) PROVE Others
    <3>1. turn[o] \in Attempts
      BY <2>1 DEF SettleUsage, Goes, TypeInv, TurnKnown
    <3> QED BY <1>2, <2>1, <3>1, RecordTypes DEF SettleUsage
  <2> QED BY <1>1, <1>3, <2>1, RefusedEvidence DEF ProviderStep, SettleRefused
<1>4. CASE AttemptModel(o)
  <2>1. turn[o] + 1 \in Attempts
    BY <1>4, BoundsAssumption DEF AttemptModel, TypeInv, TypeOK, RunTypeOK, Attempts
  <2> QED BY <1>2, <1>4, <2>1, RecordTypes DEF AttemptModel
<1>5. CASE DispatchTool(o) \/ LateDispatch(o)
  <2>1. turn[o] \in Attempts
    BY <1>5 DEF DispatchTool, LateDispatch, Goes, TypeInv, TurnKnown
  <2>2. Dispatch(o) \/ RecordRefused(o)
    BY <1>5 DEF DispatchTool, LateDispatch
  <2> QED BY <1>1, <1>2, <2>1, <2>2, RecordTypes, RefusedEvidence DEF Dispatch
<1>6. CASE InjectInput(o)
  <2>1. Head(inject[o]) \in Inputs
    BY <1>6 DEF InjectInput, TypeInv, TypeOK, RunTypeOK
  <2>2. {QueuedEntry(o, Head(inject[o]))} \in SUBSET Mine(o)
    BY <2>1 DEF Mine
  <2> QED BY <1>6, <2>2, EntrySparesOthers DEF InjectInput
<1>7. CASE CommitReply(o)
  <2>1. turn[o] \in Attempts
    BY <1>7 DEF CommitReply, Goes, TypeInv, TurnKnown
  <2>2. {AssistantEntry(o, turn[o])} \in SUBSET Mine(o)
    BY <2>1 DEF Mine
  <2>3. \E t \in Attempts : \E e : ending' = [ending EXCEPT ![AssistantEntry(o, t)] = e]
    BY <1>7, <2>1 DEF CommitReply
  <2> QED BY <1>7, <2>2, <2>3, EntrySparesOthers DEF CommitReply
<1>8. CASE PublishResult(o)
  <2>1. turn[o] \in Attempts
    BY <1>8 DEF PublishResult, Goes, TypeInv, TurnKnown
  <2>2. (IF reserved[o] THEN {ResultEntry(o, turn[o])} ELSE {}) \in SUBSET Mine(o)
    BY <2>1 DEF Mine
  <2> QED BY <1>8, <2>2, EntrySparesOthers DEF PublishResult
<1>9. CASE ReachLimit(o) \/ ReportFailure(o)
  <2>1. \/ AppendEntries({}, held[o]) /\ UNCHANGED ending
        \/ EntryRefused(held[o])
    BY <1>9 DEF ReachLimit, ReportFailure
  <2>2. {} \in SUBSET Mine(o)
    OBVIOUS
  <2> QED BY <1>1, <2>1, <2>2, EntrySparesOthers, RefusedEvidence
<1>10. CASE \/ BuildAgent(o) \/ BuildFails(o) \/ StartRun(o) \/ BeginLoop(o) \/ InjectFails(o)
            \/ AttemptRefused(o) \/ DiscardReply(o) \/ GiveUpRepair(o) \/ CommitRefused(o)
            \/ ExecuteTool(o) \/ AbandonTool(o) \/ PublishRefused(o) \/ StopOnAbort(o)
            \/ TakeInput(o) \/ NextRequest(o) \/ NothingLeft(o) \/ FinishRun(o)
  BY <1>1, <1>10, RefusedEvidence
     DEF BuildAgent, BuildFails, StartRun, BeginLoop, InjectFails, AttemptRefused, DiscardReply,
         GiveUpRepair, CommitRefused, ExecuteTool, AbandonTool, PublishRefused, StopOnAbort,
         TakeInput, NextRequest, NothingLeft, FinishRun
<1>11. CASE RefuseTool(o) \/ DispatchRefused(o) \/ ToolReturns(o) \/ LateExecute(o)
  BY <1>1, <1>11, RefusedEvidence DEF RefuseTool, DispatchRefused, ToolReturns, LateExecute
<1> QED BY <1>3, <1>4, <1>5, <1>6, <1>7, <1>8, <1>9, <1>10, <1>11
        DEF RunStep, LoopStep, ToolStep, LateStep

-----------------------------------------------------------------------------
(***************************************************************************)
(* Recovery.  A Session object is awake while it can still take a step of  *)
(* its own; an object of an earlier process never wakes up again.  Who is  *)
(* awake has decided every Operation a crash interrupted, and what an open *)
(* request loaded about those Operations is still what the journal says.   *)
(***************************************************************************)
Lost(o) == phase[o] = "lost"

Awake(s) ==
  \/ ~closed[s]
  \/ queue[s] # <<>>
  \/ live = s
  \/ \E o \in Ops : InRun(o) /\ owner[o] = s

Decided(s) ==
  \A o \in Ops : Lost(o) => Finished(o) \/ (indeterminate[s] /\ Incomplete(o))

(* What the head of the queue of s relies on since its last await. *)
WorkSafe(s) ==
  /\ queue[s] = <<>> => work[s].step = "idle"
  /\ work[s].step = "preflight" => ~Parked(s)
  /\ work[s].step = "abort" => \E o \in Ops : work[s].op = o /\ (Lost(o) => Finished(o))

ObjectSafe(s) ==
  /\ Awake(s) => s <= created /\ Decided(s)
  /\ active[s] # 0 => InRun(active[s])
  /\ WorkSafe(s)

(* A run is the active one of its Session object until it is over or parked. *)
RunOwned(o) ==
  InRun(o) =>
    /\ owner[o] \in Sessions
    /\ active[owner[o]] = o \/ Finished(o) \/ Parked(owner[o])

FoundHolds(r) ==
  stage[r] # "idle" => \A o \in Ops : Lost(o) /\ ~Finished(o) => found[r][o] = VerdictOf(o)

RecoveryInv ==
  /\ \A s \in Sessions : ObjectSafe(s)
  /\ \A o \in Ops : RunOwned(o)
  /\ \A r \in Requests : FoundHolds(r)

-----------------------------------------------------------------------------
(* Which Operations run in this process, and which ones lost their process. *)
SameKind(p) == (InRun(p)' <=> InRun(p)) /\ (Lost(p)' <=> Lost(p))

LEMMA RunKind ==
  ASSUME TypeInv, EffectInv, NEW o \in Ops, RunAlone(o) \/ DriverStep(o)
  PROVE  \A p \in Ops : SameKind(p)
<1> USE DEF SameKind, InRun, Lost
<1>1. CASE RunAlone(o)
  <2>1. InRun(o) /\ ~Crash
    <3>1. crashes' = crashes /\ crashes \in Nat
      BY <1>1, HostAssumption DEF RunAlone, boundVars, TypeInv, TypeOK, HostTypeOK
    <3> QED BY <1>1, <3>1, RunsHere DEF RunAlone, Crash
  <2>2. InRun(o)'
    BY <1>1, <2>1, RunsStayHere DEF Next, RunsStay, Stays
  <2>3. \A p \in Ops \ {o} : phase'[p] = phase[p]
    BY <1>1, RunSparesOthers DEF RunAlone, SameRun
  <2> QED BY <2>1, <2>2, <2>3
<1>2. CASE DriverStep(o)
  BY <1>2 DEF DriverStep, StartAdmitted, AttachResource, SubmitCompletion, Goes, TypeInv, TypeOK,
              RunTypeOK
<1> QED BY <1>1, <1>2

(* The Operation whose completion s serves runs in this process. *)
LEMMA CompletesRun ==
  ASSUME TypeInv, EffectInv, NEW s \in Sessions
  PROVE  /\ LoadForCompletion(s) => Head(queue[s])[2] \in Ops /\ InRun(Head(queue[s])[2])
         /\ FinishOperation(s) => work[s].op \in Ops /\ InRun(work[s].op)
<1>1. ASSUME LoadForCompletion(s)
      PROVE  Head(queue[s])[2] \in Ops /\ InRun(Head(queue[s])[2])
  <2>1. queue[s] # <<>> /\ queue[s] \in Seq(Item) /\ Head(queue[s])[1] = "complete"
    BY <1>1 DEF LoadForCompletion, Serving, TypeInv, TypeOK, SessionTypeOK
  <2>2. 1 \in DOMAIN queue[s] /\ Head(queue[s]) = queue[s][1] /\ Head(queue[s]) \in Item
    BY <2>1
  <2> QED BY <2>1, <2>2 DEF Item, EffectInv, CompletionKnown
<1>2. FinishOperation(s) => work[s].op \in Ops /\ InRun(work[s].op)
  BY DEF FinishOperation, Serving, TypeInv, WorkKnown, Known, EffectInv, CompletionKnown
<1> QED BY <1>1, <1>2

LEMMA QueueKind ==
  ASSUME TypeInv, EffectInv, NEW s \in Sessions, QueueStep(s), ~AdmitPrompt(s)
  PROVE  \A p \in Ops : SameKind(p)
<1> USE DEF SameKind, InRun, Lost
<1>1. CASE LoadForCompletion(s)
  <2> DEFINE o == Head(queue[s])[2]
  <2>1. Leaves(o) \/ UNCHANGED phase
    BY <1>1 DEF LoadForCompletion, CompletionUnreadable, ParkIndeterminate, SuspendPending,
                AlreadyFinished, DecideOutcome
  <2>2. o \in Ops /\ InRun(o)
    BY <1>1, CompletesRun
  <2> HIDE DEF o
  <2> QED BY <2>1, <2>2 DEF Leaves, TypeInv, TypeOK, RunTypeOK
<1>2. CASE FinishOperation(s)
  <2> DEFINE o == work[s].op
  <2>1. Leaves(o) /\ o \in Ops /\ InRun(o)
    BY <1>2, CompletesRun DEF FinishOperation
  <2> HIDE DEF o
  <2> QED BY <2>1 DEF Leaves, TypeInv, TypeOK, RunTypeOK
<1>3. CASE ~LoadForCompletion(s) /\ ~FinishOperation(s)
  BY <1>3 DEF QueueStep, RejectPrompt, QueueInput, InputRefused, DeliverInput, LoadForPrompt,
              AdmissionFails, LoadForCancel, AbortByCancel, runVars
<1> QED BY <1>1, <1>2, <1>3

LEMMA HostKind ==
  ASSUME (\E s \in Sessions : ClientStep(s)) \/ (\E r \in Requests : OpenStep(r))
  PROVE  \A p \in Ops : SameKind(p)
<1>1. UNCHANGED phase
  BY DEF ClientStep, Prompt, CancelLive, CancelQueued, Close, OpenStep, OpenLoad, OpenRefused,
         OpenAttach, OpenClaim, OpenFinalize, OpenFails, OpenRegister, runVars
<1> QED BY <1>1 DEF SameKind, InRun, Lost

-----------------------------------------------------------------------------
(***************************************************************************)
(* Nobody but recovery writes about an Operation that lost its driver.     *)
(***************************************************************************)
Recovers(r, p) ==
  /\ stage[r] # "idle"
  /\ Finalizable(found[r][p])
  /\ AppendRecord(p, OperationFinished(p, RecoveredOutcome(found[r][p])))

(* What the admission of o does to everybody else. *)
LEMMA AdmissionSparesOthers ==
  ASSUME TypeInv, NEW o \in Ops, NEW leaf, AdmitTransaction(o, leaf)
  PROVE  \A p \in Ops \ {o} : SameEvidence(p)
<1> SUFFICES ASSUME NEW p \in Ops, p # o PROVE SameEvidence(p)
  OBVIOUS
<1>1. /\ journal'[p] = journal[p]
      /\ entries' = entries \cup {InputEntry(o)} /\ ending' = ending
  BY DEF AdmitTransaction, TypeInv, TypeOK, PersistenceTypeOK
<1>2. InputEntry(o) \notin Mine(p)
  BY DEF Mine, InputEntry, QueuedEntry, AssistantEntry, ResultEntry
<1> QED BY <1>1, <1>2 DEF SameEvidence

LEMMA LostInQueue ==
  ASSUME TypeInv, EffectInv, NEW s \in Sessions, ObjectSafe(s), QueueStep(s),
         NEW p \in Ops, Lost(p), ~Finished(p)
  PROVE  SameEvidence(p)
<1> USE DEF Lost, InRun
<1>1. UNCHANGED <<journal, entries, ending>> => SameEvidence(p)
  BY NothingNew
<1>2. CASE AdmitPrompt(s)
  <2>1. PICK o \in Ops : (\A q \in Ops : Accepted(q) <=> q < o) /\ AdmitTransaction(o, work[s].leaf)
    BY <1>2 DEF AdmitPrompt
  <2>2. ~Accepted(o)
    BY <2>1 DEF Ops
  <2>3. p # o
    BY <2>2 DEF EffectInv, EffectSafe
  <2> QED BY <2>1, <2>3, AdmissionSparesOthers
<1>3. CASE QueueInput(s)
  <2>1. active[s] \in Ops /\ p # active[s]
    BY <1>3, ActiveOp DEF QueueInput, ObjectSafe
  <2>2. PICK i \in Inputs :
          AppendRecord(active[s], InputQueued(active[s], i, QueuedEntry(active[s], i)))
    BY <1>3 DEF QueueInput
  <2> QED BY <2>1, <2>2, RecordTypes, RecordSparesOthers
<1>4. CASE FinishOperation(s)
  <2>1. work[s].op \in Ops /\ p # work[s].op
    BY <1>4, CompletesRun
  <2>2. work[s].verdict \in Verdict
    BY DEF TypeInv, TypeOK, SessionTypeOK, Work
  <2>3. \/ AppendRecord(work[s].op,
             OperationFinished(work[s].op, TerminalOutcomeFor(work[s].op, work[s].verdict)))
        \/ RecordRefused(work[s].op)
    BY <1>4 DEF FinishOperation
  <2> QED BY <1>1, <2>1, <2>2, <2>3, RecordTypes, OutcomeOfCompletion, RecordSparesOthers,
             RefusedEvidence
<1>5. CASE AbortByCancel(s)
  <2>1. work[s].op \in Ops
    BY <1>5 DEF AbortByCancel, Serving, TypeInv, WorkKnown, Known
  <2>2. p # work[s].op
    BY <1>5 DEF AbortByCancel, Serving, ObjectSafe, WorkSafe
  <2>3. \/ AppendRecord(work[s].op, OperationFinished(work[s].op, "aborted"))
        \/ RecordRefused(work[s].op)
    BY <1>5 DEF AbortByCancel
  <2> QED BY <1>1, <2>1, <2>2, <2>3, RecordTypes, RecordSparesOthers, RefusedEvidence
          DEF TerminalOutcome
<1>6. CASE LoadForCompletion(s)
  BY <1>1, <1>6, RefusedEvidence
     DEF LoadForCompletion, CompletionUnreadable, ParkIndeterminate, SuspendPending,
         AlreadyFinished, DecideOutcome
<1>7. CASE InputRefused(s)
  BY <1>1, <1>7, ActiveOp, RefusedEvidence DEF InputRefused
<1>8. CASE \/ RejectPrompt(s) \/ DeliverInput(s) \/ LoadForPrompt(s) \/ AdmissionFails(s)
           \/ LoadForCancel(s)
  BY <1>1, <1>8, RefusedEvidence
     DEF RejectPrompt, DeliverInput, LoadForPrompt, AdmissionFails, AdmitRefused, LoadForCancel
<1> QED BY <1>2, <1>3, <1>4, <1>5, <1>6, <1>7, <1>8 DEF QueueStep

LEMMA LostInOpening ==
  ASSUME TypeInv, NEW r \in Requests, OpenStep(r), NEW p \in Ops
  PROVE  SameEvidence(p) \/ Recovers(r, p)
<1>1. UNCHANGED <<journal, entries, ending>> => SameEvidence(p)
  BY NothingNew
<1>2. CASE OpenFinalize(r)
  <2>1. PICK o \in ToFinalize(r) :
          \/ AppendRecord(o, OperationFinished(o, RecoveredOutcome(found[r][o])))
          \/ RecordRefused(o)
    BY <1>2 DEF OpenFinalize
  <2>2. o \in Ops /\ found[r][o] \in Verdict /\ Finalizable(found[r][o]) /\ stage[r] # "idle"
    BY <1>2, <2>1 DEF OpenFinalize, ToFinalize, TypeInv, TypeOK, HostTypeOK
  <2>3. CASE p = o
    BY <1>1, <2>1, <2>2, <2>3, RefusedEvidence DEF Recovers
  <2>4. CASE p # o
    BY <1>1, <2>1, <2>2, <2>4, RecordTypes, OutcomeOfCompletion, RecordSparesOthers, RefusedEvidence
  <2> QED BY <2>3, <2>4
<1>3. CASE ~OpenFinalize(r)
  BY <1>1, <1>3, RefusedEvidence
     DEF OpenStep, OpenLoad, OpenRefused, OpenAttach, OpenClaim, OpenFails, OpenRegister
<1> QED BY <1>2, <1>3

LEMMA LostKept ==
  ASSUME TypeInv, EffectInv, RecoveryInv, [Next]_vars, ~Crash,
         NEW p \in Ops, Lost(p), ~Finished(p)
  PROVE  SameEvidence(p) \/ \E r \in Requests : Recovers(r, p)
<1>1. UNCHANGED <<journal, entries, ending>> => SameEvidence(p)
  BY NothingNew
<1>2. CASE UNCHANGED vars
  BY <1>1, <1>2 DEF vars, persistenceVars
<1>3. ASSUME NEW o \in Ops, RunAlone(o) PROVE SameEvidence(p)
  BY <1>3, RunsHere, RunWritesOwn DEF RunAlone, Lost, InRun
<1>4. ASSUME NEW o \in Ops, DriverStep(o) PROVE SameEvidence(p)
  BY <1>1, <1>4 DEF DriverStep, StartAdmitted, AttachResource, SubmitCompletion, persistenceVars
<1>5. ASSUME NEW s \in Sessions, QueueStep(s) PROVE SameEvidence(p)
  BY <1>5, LostInQueue DEF RecoveryInv
<1>6. ASSUME NEW s \in Sessions, ClientStep(s) PROVE SameEvidence(p)
  BY <1>1, <1>6 DEF ClientStep, Prompt, CancelLive, CancelQueued, Close, persistenceVars
<1> QED BY <1>2, <1>3, <1>4, <1>5, <1>6, LostInOpening DEF Next

(* What a step may do to an Operation that lost its driver. *)
Kept(p) ==
  /\ Lost(p)' <=> Lost(p)
  /\ Lost(p) => IF Finished(p) THEN Finished(p)' ELSE Finished(p)' \/ SameVerdict(p)

LEMMA FinishedStays ==
  ASSUME TypeInv, [Next]_vars, NEW p \in Ops, Finished(p)
  PROVE  Finished(p)'
<1>1. journal'[p] = journal[p]
  BY NextMovesJournal, MovesKeepJournal DEF JournalIsFinal
<1> QED BY <1>1 DEF Finished

LEMMA AppendedTerminal ==
  ASSUME TypeInv, NEW o \in Ops, NEW outcome \in TerminalOutcome,
         AppendRecord(o, OperationFinished(o, outcome))
  PROVE  Finished(o)'
<1> DEFINE record == OperationFinished(o, outcome)
<1>1. record \in Record /\ record.type = "operation_finished" /\ AppendRecord(o, record)
  BY RecordTypes DEF OperationFinished
<1> HIDE DEF record
<1>2. Len(journal[o]) + 1 \in DOMAIN journal'[o] /\ journal'[o][Len(journal[o]) + 1] = record
  BY <1>1, AppendShape
<1> QED BY <1>1, <1>2 DEF Finished, IsFinished, Of

LEMMA LostStays ==
  ASSUME TypeInv, EffectInv, JournalInv, RecoveryInv, [Next]_vars, ~Crash,
         NEW p \in Ops, Lost(p)' <=> Lost(p)
  PROVE  Kept(p)
<1>1. SameEvidence(p) => SameVerdict(p)
  BY EvidenceDecides DEF JournalInv, JournalSafe
<1>2. ASSUME NEW r \in Requests, Recovers(r, p) PROVE Finished(p)'
  <2>1. RecoveredOutcome(found[r][p]) \in TerminalOutcome
    <3>1. found[r][p] \in Verdict
      BY DEF TypeInv, TypeOK, HostTypeOK
    <3> QED BY <1>2, <3>1, OutcomeOfCompletion DEF Recovers
  <2> QED BY <1>2, <2>1, AppendedTerminal DEF Recovers
<1> QED BY <1>1, <1>2, LostKept, FinishedStays DEF Kept

-----------------------------------------------------------------------------
(***************************************************************************)
(* The moves a Session object can make without losing what it relies on.   *)
(***************************************************************************)
WorkMoves(s) ==
  \/ /\ work'[s] = work[s]
     /\ queue'[s] = <<>> => queue[s] = <<>>
     /\ Parked(s)' => Parked(s)
  \/ work'[s] = Idle
  \/ queue'[s] # <<>> /\ work'[s].step \in {"deliver", "finish"}
  \/ queue'[s] # <<>> /\ work'[s].step = "preflight" /\ ~Parked(s)'
  \/ /\ queue'[s] # <<>> /\ work'[s].step = "abort"
     /\ \E o \in Ops : work'[s].op = o /\ (Lost(o) => Finished(o))

ActiveMoves(s) ==
  /\ active'[s] # 0 => InRun(active[s])'
  /\ \A o \in Ops : active[s] = o /\ active'[s] # o => Finished(o)' \/ Parked(s)'

ObjectMoves(s) ==
  /\ Awake(s)' => Awake(s)
  /\ suspended[s] => suspended'[s]
  /\ indeterminate[s] => indeterminate'[s]
  /\ ActiveMoves(s)
  /\ WorkMoves(s)

LEMMA ObjectKept ==
  ASSUME TypeInv, NEW s \in Sessions, ObjectSafe(s), ObjectMoves(s),
         created \in Nat, created' \in Nat, created <= created',
         \A p \in Ops : Kept(p)
  PROVE  ObjectSafe(s)'
<1>1. Decided(s) => Decided(s)'
  <2> SUFFICES ASSUME Decided(s), NEW p \in Ops, Lost(p)'
               PROVE  Finished(p)' \/ (indeterminate'[s] /\ Incomplete(p)')
    BY DEF Decided
  <2>1. Lost(p) /\ (Finished(p) \/ (indeterminate[s] /\ Incomplete(p)))
    BY DEF Decided, Kept
  <2>2. Finished(p)' \/ (~Finished(p) /\ (Incomplete(p)' <=> Incomplete(p)))
    BY <2>1 DEF Kept, SameVerdict
  <2> QED BY <2>1, <2>2 DEF ObjectMoves
<1>2. Awake(s)' => s <= created' /\ Decided(s)'
  BY <1>1 DEF ObjectSafe, ObjectMoves, Sessions
<1>3. \A o \in Ops : (Lost(o) => Finished(o)) => (Lost(o)' => Finished(o)')
  BY DEF Kept
<1>4. WorkSafe(s)'
  <2>1. CASE /\ work'[s] = work[s] /\ (queue'[s] = <<>> => queue[s] = <<>>)
             /\ Parked(s)' => Parked(s)
    BY <1>3, <2>1 DEF ObjectSafe, WorkSafe
  <2>2. CASE work'[s] = Idle \/ (queue'[s] # <<>> /\ work'[s].step \in {"deliver", "finish"})
    BY <2>2 DEF WorkSafe, Idle, At
  <2>3. CASE queue'[s] # <<>> /\ work'[s].step = "preflight" /\ ~Parked(s)'
    BY <2>3 DEF WorkSafe
  <2>4. CASE /\ queue'[s] # <<>> /\ work'[s].step = "abort"
             /\ \E o \in Ops : work'[s].op = o /\ (Lost(o) => Finished(o))
    BY <1>3, <2>4 DEF WorkSafe
  <2> QED BY <2>1, <2>2, <2>3, <2>4 DEF ObjectMoves, WorkMoves
<1> QED BY <1>2, <1>4 DEF ObjectSafe, ObjectMoves, ActiveMoves

LEMMA OwnedKept ==
  ASSUME TypeInv, NEW o \in Ops, RunOwned(o), InRun(o), owner'[o] = owner[o],
         Finished(o) => Finished(o)',
         ObjectMoves(owner[o])
  PROVE  RunOwned(o)'
<1>1. owner[o] \in Sessions /\ (active[owner[o]] = o \/ Finished(o) \/ Parked(owner[o]))
  BY DEF RunOwned
<1>2. Parked(owner[o]) => Parked(owner[o])'
  BY DEF Parked, ObjectMoves
<1>3. active'[owner[o]] = o \/ Finished(o)' \/ Parked(owner[o])'
  BY <1>1, <1>2 DEF ObjectMoves, ActiveMoves
<1>4. Parked(owner[o])' = (suspended'[owner'[o]] \/ indeterminate'[owner'[o]])
  BY DEF Parked
<1> QED BY <1>1, <1>3, <1>4 DEF RunOwned, Parked, Finished

LEMMA FoundKept ==
  ASSUME NEW r \in Requests, FoundHolds(r), \A p \in Ops : Kept(p),
         stage'[r] = "idle" \/ (stage[r] # "idle" /\ \A p \in Ops : found'[r][p] = found[r][p] \/ Finished(p)')
  PROVE  FoundHolds(r)'
<1> SUFFICES ASSUME stage'[r] # "idle", NEW p \in Ops, Lost(p)', ~Finished(p)'
             PROVE  found'[r][p] = VerdictOf(p)'
  BY DEF FoundHolds
<1>1. Lost(p) /\ ~Finished(p) /\ VerdictOf(p)' = VerdictOf(p)
  BY DEF Kept, SameVerdict
<1> QED BY <1>1 DEF FoundHolds

-----------------------------------------------------------------------------
(* Every step but a crash and the registration of a new object makes only  *)
(* such moves.                                                             *)
Elsewhere(q) ==
  UNCHANGED <<queue[q], work[q], active[q], suspended[q], indeterminate[q], closed[q]>>

RunsStayOf(q) ==
  /\ \A p \in Ops : InRun(p) => InRun(p)'
  /\ \A p \in Ops : InRun(p)' /\ owner'[p] = q => InRun(p) /\ owner[p] = q

LEMMA ActiveStays ==
  ASSUME TypeInv, NEW s \in Sessions, ObjectSafe(s), \A p \in Ops : InRun(p) => InRun(p)',
         \/ active'[s] = active[s]
         \/ /\ active'[s] = 0
            /\ \A o \in Ops : active[s] = o => Finished(o)' \/ Parked(s)'
  PROVE  ActiveMoves(s)
<1>1. active[s] # 0 => active[s] \in Ops /\ InRun(active[s])
  BY ActiveOp DEF ObjectSafe
<1>2. ASSUME NEW o \in Ops, active[s] = o, active'[s] = active[s] PROVE InRun(active[s])'
  BY <1>1, <1>2, BoundsAssumption DEF InRun, Ops
<1> QED BY <1>1, <1>2 DEF ActiveMoves

LEMMA ElsewhereMoves ==
  ASSUME TypeInv, NEW q \in Sessions, ObjectSafe(q), Elsewhere(q), RunsStayOf(q), live' = q => live = q
  PROVE  ObjectMoves(q)
<1>1. ActiveMoves(q)
  BY ActiveStays DEF Elsewhere, RunsStayOf
<1>2. WorkMoves(q)
  BY DEF WorkMoves, Parked, Elsewhere
<1>3. Awake(q)' => Awake(q)
  BY DEF Awake, Elsewhere, RunsStayOf, InRun
<1> QED BY <1>1, <1>2, <1>3 DEF ObjectMoves, Elsewhere

LEMMA HereMoves ==
  ASSUME NEW s \in Sessions, Awake(s), ActiveMoves(s), WorkMoves(s),
         suspended[s] => suspended'[s], indeterminate[s] => indeterminate'[s]
  PROVE  ObjectMoves(s)
BY DEF ObjectMoves

AllMove == \A q \in Sessions : ObjectMoves(q)

AllRunsStay == \A q \in Sessions : RunsStayOf(q)

LEMMA KindsStay ==
  ASSUME \A p \in Ops : SameKind(p), UNCHANGED owner
  PROVE  AllRunsStay
BY DEF AllRunsStay, RunsStayOf, SameKind

LEMMA NobodyMoves ==
  ASSUME TypeInv, RecoveryInv, AllRunsStay, UNCHANGED sessionVars, live' \in {live, 0}
  PROVE  AllMove
<1> SUFFICES ASSUME NEW q \in Sessions PROVE ObjectMoves(q)
  BY DEF AllMove
<1>1. Elsewhere(q) /\ (live' = q => live = q)
  BY DEF sessionVars, Elsewhere, Sessions
<1> QED BY <1>1, ElsewhereMoves DEF RecoveryInv, AllRunsStay

LEMMA EnqueueMoves ==
  ASSUME TypeInv, RecoveryInv, AllRunsStay, NEW s \in Sessions, NEW item \in Item, Awake(s),
         Enqueue(s, item), UNCHANGED <<work, active, suspended, indeterminate, closed, live>>
  PROVE  AllMove
<1>1. queue'[s] # <<>> /\ \A q \in Sessions \ {s} : queue'[q] = queue[q]
  <2>1. /\ queue[s] \in Seq(Item) /\ queue'[s] = Append(queue[s], item)
        /\ \A q \in Sessions \ {s} : queue'[q] = queue[q]
    BY DEF Enqueue, TypeInv, TypeOK, SessionTypeOK
  <2>2. \A items \in Seq(Item) : Append(items, item) # <<>>
    OBVIOUS
  <2> QED BY <2>1, <2>2
<1>2. \A q \in Sessions \ {s} : ObjectMoves(q)
  BY <1>1, ElsewhereMoves DEF Elsewhere, RecoveryInv, AllRunsStay
<1>3. ActiveMoves(s)
  BY ActiveStays DEF RecoveryInv, AllRunsStay, RunsStayOf
<1>4. WorkMoves(s)
  BY <1>1 DEF WorkMoves, Parked
<1>5. ObjectMoves(s)
  BY <1>3, <1>4, HereMoves
<1> QED BY <1>2, <1>5 DEF AllMove

LEMMA DriverMoves ==
  ASSUME TypeInv, EffectInv, RecoveryInv, NEW o \in Ops, RunAlone(o) \/ DriverStep(o)
  PROVE  AllMove
<1>1. AllRunsStay
  BY RunKind, KindsStay
     DEF RunAlone, DriverStep, StartAdmitted, AttachResource, SubmitCompletion, operationVars
<1>2. CASE RunAlone(o) \/ StartAdmitted(o) \/ AttachResource(o)
  BY <1>1, <1>2, NobodyMoves DEF RunAlone, StartAdmitted, AttachResource, hostVars
<1>3. CASE SubmitCompletion(o)
  <2>1. owner[o] \in Sessions /\ InRun(o)
    BY <1>3 DEF SubmitCompletion, Goes, InRun, TypeInv, TypeOK, SessionTypeOK, Sessions
  <2>2. <<"complete", o>> \in Item /\ Awake(owner[o])
    BY <2>1 DEF Item, Awake
  <2>3. /\ Enqueue(owner[o], <<"complete", o>>)
        /\ UNCHANGED <<work, active, suspended, indeterminate, closed, live>>
    BY <1>3 DEF SubmitCompletion, hostVars
  <2> QED BY <1>1, <2>1, <2>2, <2>3, EnqueueMoves
<1> QED BY <1>2, <1>3 DEF DriverStep

LEMMA ClientMoves ==
  ASSUME TypeInv, RecoveryInv, NEW s \in Sessions, ClientStep(s)
  PROVE  AllMove
<1>1. AllRunsStay
  BY HostKind, KindsStay
     DEF ClientStep, Prompt, CancelLive, CancelQueued, Close, operationVars
<1>2. CASE CancelLive(s)
  BY <1>1, <1>2, NobodyMoves DEF CancelLive, hostVars
<1>3. CASE Prompt(s) \/ CancelQueued(s)
  <2>1. PICK item \in {<<"prompt", 0>>, <<"cancel", 0>>} : Enqueue(s, item)
    BY <1>3 DEF Prompt, CancelQueued
  <2>2. item \in Item /\ Awake(s) /\ UNCHANGED <<work, active, suspended, indeterminate, closed, live>>
    BY <1>3 DEF Prompt, CancelQueued, Item, Awake, hostVars
  <2> QED BY <1>1, <2>1, <2>2, EnqueueMoves
<1>4. CASE Close(s)
  <2>1. /\ UNCHANGED <<queue, work, active, suspended, indeterminate>> /\ Awake(s)
        /\ \A q \in Sessions \ {s} : closed'[q] = closed[q]
        /\ live' = live \/ live' = 0
    BY <1>4 DEF Close, Awake, ReleaseIfDetached, TypeInv, TypeOK, SessionTypeOK
  <2>2. \A q \in Sessions \ {s} : ObjectMoves(q)
    BY <1>1, <2>1, ElsewhereMoves DEF Elsewhere, RecoveryInv, AllRunsStay, Sessions
  <2>3. ActiveMoves(s)
    BY <1>1, <2>1, ActiveStays DEF RecoveryInv, AllRunsStay, RunsStayOf
  <2>4. WorkMoves(s)
    BY <2>1 DEF WorkMoves, Parked
  <2>5. ObjectMoves(s)
    BY <2>1, <2>3, <2>4, HereMoves
  <2> QED BY <2>2, <2>5 DEF AllMove
<1> QED BY <1>2, <1>3, <1>4 DEF ClientStep

LEMMA OpenMoves ==
  ASSUME TypeInv, RecoveryInv, NEW r \in Requests, OpenStep(r), ~OpenRegister(r)
  PROVE  AllMove
<1>1. AllRunsStay
  BY HostKind, KindsStay
     DEF OpenStep, OpenLoad, OpenRefused, OpenAttach, OpenClaim, OpenFinalize, OpenFails,
         OpenRegister, operationVars
<1>2. CASE OpenAttach(r)
  <2>1. live \in Sessions /\ Awake(live)
    BY <1>2, HostAssumption DEF OpenAttach, Awake, Sessions, TypeInv, TypeOK, HostTypeOK
  <2>2. PICK s \in Sessions : s = live
    BY <2>1
  <2>3. /\ UNCHANGED <<queue, work, active, suspended, indeterminate, live>>
        /\ \A q \in Sessions \ {s} : closed'[q] = closed[q]
    BY <1>2, <2>2 DEF OpenAttach, TypeInv, TypeOK, SessionTypeOK
  <2>4. \A q \in Sessions \ {s} : ObjectMoves(q)
    BY <1>1, <2>3, ElsewhereMoves DEF Elsewhere, RecoveryInv, AllRunsStay
  <2>5. ActiveMoves(s)
    BY <1>1, <2>3, ActiveStays DEF RecoveryInv, AllRunsStay, RunsStayOf
  <2>6. WorkMoves(s)
    BY <2>3 DEF WorkMoves, Parked
  <2>7. ObjectMoves(s)
    BY <2>1, <2>2, <2>3, <2>5, <2>6, HereMoves
  <2> QED BY <2>4, <2>7 DEF AllMove
<1>3. CASE OpenStep(r) /\ ~OpenAttach(r) /\ ~OpenRegister(r)
  <2>1. UNCHANGED sessionVars /\ (live' = live \/ live' = 0)
    BY <1>3 DEF OpenStep, OpenLoad, OpenRefused, OpenClaim, OpenFinalize, OpenFails
  <2> QED BY <1>1, <2>1, NobodyMoves
<1> QED BY <1>2, <1>3

(* A step at the head of the queue of s moves nobody else. *)
LEMMA HeadMoves ==
  ASSUME TypeInv, RecoveryInv, AllRunsStay, NEW s \in Sessions, queue[s] # <<>>,
         ActiveMoves(s), WorkMoves(s),
         suspended[s] => suspended'[s], indeterminate[s] => indeterminate'[s],
         \A q \in Sessions \ {s} : Elsewhere(q),
         live' \in {live, 0}
  PROVE  AllMove
<1>1. \A q \in Sessions \ {s} : ObjectMoves(q)
  BY ElsewhereMoves DEF RecoveryInv, AllRunsStay, Sessions
<1>2. Awake(s)
  BY DEF Awake
<1>3. ObjectMoves(s)
  BY <1>2, HereMoves
<1> QED BY <1>1, <1>3 DEF AllMove

LEMMA HeadElsewhere ==
  ASSUME TypeInv, NEW s \in Sessions,
         \/ Dequeue(s)
         \/ \E w : Proceed(s, w),
         UNCHANGED closed,
         \/ UNCHANGED active
         \/ \E a : active' = [active EXCEPT ![s] = a],
         \/ UNCHANGED suspended
         \/ \E b : suspended' = [suspended EXCEPT ![s] = b],
         \/ UNCHANGED indeterminate
         \/ \E b : indeterminate' = [indeterminate EXCEPT ![s] = b]
  PROVE  \A q \in Sessions \ {s} : Elsewhere(q)
BY DEF Elsewhere, Dequeue, Proceed, TypeInv, TypeOK, SessionTypeOK

LEMMA DequeueMoves ==
  ASSUME TypeInv, NEW s \in Sessions, Dequeue(s)
  PROVE  WorkMoves(s)
BY DEF Dequeue, WorkMoves, TypeInv, TypeOK, SessionTypeOK

LEMMA ProceedMoves ==
  ASSUME TypeInv, NEW s \in Sessions, queue[s] # <<>>, NEW w, Proceed(s, w),
         \/ w.step \in {"deliver", "finish"}
         \/ w.step = "preflight" /\ ~Parked(s)'
         \/ w.step = "abort" /\ \E o \in Ops : w.op = o /\ (Lost(o) => Finished(o))
  PROVE  WorkMoves(s)
<1>1. queue'[s] = queue[s] /\ work'[s] = w
  BY DEF Proceed, TypeInv, TypeOK, SessionTypeOK
<1> QED BY <1>1 DEF WorkMoves

(* The cancel never picks an Operation that recovery left undecided. *)
LEMMA CancelPicks ==
  ASSUME TypeInv, NEW s \in Sessions, ObjectSafe(s), queue[s] # <<>>, ~Unreadable(Verdicts),
         NEW o \in Ops, VerdictOf(o).status # "indeterminate_tool", Lost(o)
  PROVE  Finished(o)
<1>1. Finished(o) \/ Incomplete(o)
  BY DEF ObjectSafe, Awake, Decided
<1>2. VerdictOf(o).status # "corrupted"
  BY DEF Unreadable, Verdicts
<1>3. ~Finished(o) /\ Accepted(o) => Explains(VerdictOf(o), journal[o], entries, ending)
  BY OpenVerdict DEF VerdictOf, Finished
<1>4. Incomplete(o) => Accepted(o)
  BY DEF Incomplete, IncompleteDispatches, Of, Accepted
<1> QED BY <1>1, <1>2, <1>3, <1>4 DEF Explains, Incomplete

LEMMA CompletionMoves ==
  ASSUME TypeInv, EffectInv, RecoveryInv, NEW s \in Sessions, LoadForCompletion(s) \/ FinishOperation(s)
  PROVE  AllMove
<1>1. AllRunsStay
  BY QueueKind, KindsStay
     DEF QueueStep, LoadForCompletion, FinishOperation, AdmitPrompt, Serving, operationVars
<1>2. queue[s] # <<>> /\ ObjectSafe(s) /\ \A p \in Ops : InRun(p) => InRun(p)'
  BY <1>1 DEF LoadForCompletion, FinishOperation, Serving, RecoveryInv, AllRunsStay, RunsStayOf
<1>3. active \in [Sessions -> 0..MaxOps] /\ suspended \in [Sessions -> BOOLEAN]
        /\ indeterminate \in [Sessions -> BOOLEAN]
  BY DEF TypeInv, TypeOK, SessionTypeOK
<1>4. ASSUME NEW o \in Ops, Deactivate(s, o), \A p \in Ops : active[s] = p /\ o = p => Finished(p)' \/ Parked(s)'
      PROVE  ActiveMoves(s) /\ \E a : active' = [active EXCEPT ![s] = a]
  <2>1. active' = [active EXCEPT ![s] = IF active[s] = o THEN 0 ELSE active[s]]
    BY <1>4 DEF Deactivate
  <2>2. active'[s] = (IF active[s] = o THEN 0 ELSE active[s])
    BY <1>3, <2>1
  <2> QED BY <1>2, <1>4, <2>1, <2>2, ActiveStays
<1>5. CASE LoadForCompletion(s)
  <2>0. Head(queue[s])[2] \in Ops
    BY <1>5, CompletesRun
  <2>1. PICK o \in Ops : o = Head(queue[s])[2] /\ UNCHANGED closed
    BY <1>5, <2>0 DEF LoadForCompletion
  <2>2. CASE CompletionUnreadable(s, o) \/ SuspendPending(s, o)
    <3>1. /\ Dequeue(s) /\ UNCHANGED <<active, indeterminate, live>>
          /\ UNCHANGED suspended \/ suspended' = [suspended EXCEPT ![s] = TRUE]
      BY <2>2 DEF CompletionUnreadable, SuspendPending
    <3>2. ActiveMoves(s)
      BY <1>2, <3>1, ActiveStays
    <3>3. suspended[s] => suspended'[s]
      BY <1>3, <3>1
    <3> QED BY <1>1, <1>2, <2>1, <3>1, <3>2, <3>3, HeadMoves, HeadElsewhere, DequeueMoves
  <2>3. CASE ParkIndeterminate(s, o)
    <3>1. /\ Dequeue(s) /\ Deactivate(s, o) /\ UNCHANGED suspended
          /\ indeterminate' = [indeterminate EXCEPT ![s] = TRUE]
          /\ live' \in {live, 0}
      BY <2>3 DEF ParkIndeterminate, ReleaseIfDetached
    <3>2. indeterminate'[s]
      BY <1>3, <3>1
    <3>3. ActiveMoves(s) /\ \E a : active' = [active EXCEPT ![s] = a]
      BY <1>4, <3>1, <3>2 DEF Parked
    <3> QED BY <1>1, <1>2, <2>1, <3>1, <3>2, <3>3, HeadMoves, HeadElsewhere, DequeueMoves
  <2>4. CASE AlreadyFinished(s, o)
    <3>1. /\ Dequeue(s) /\ Deactivate(s, o) /\ UNCHANGED <<suspended, indeterminate, journal>>
          /\ live' \in {live, 0}
      BY <2>4, RefusalsKeepJournal DEF AlreadyFinished, ReleaseIfDetached
    <3>2. Finished(o)'
      <4>1. Finished(o)
        BY <2>1, <2>4, DurableIsFinished DEF AlreadyFinished
      <4> QED BY <3>1, <4>1 DEF Finished
    <3>3. \A p \in Ops : active[s] = p /\ o = p => Finished(p)' \/ Parked(s)'
      BY <3>2 DEF Finished
    <3>4. ActiveMoves(s) /\ \E a : active' = [active EXCEPT ![s] = a]
      BY <1>4, <3>1, <3>3
    <3> QED BY <1>1, <1>2, <2>1, <3>1, <3>4, HeadMoves, HeadElsewhere, DequeueMoves
  <2>5. CASE DecideOutcome(s, o)
    <3>1. PICK v : Proceed(s, At("finish", 0, o, 0, v))
      BY <2>5 DEF DecideOutcome
    <3>2. UNCHANGED <<active, suspended, indeterminate, live>>
      BY <2>5 DEF DecideOutcome
    <3>3. At("finish", 0, o, 0, v).step = "finish"
      BY DEF At
    <3>4. WorkMoves(s)
      BY <1>2, <3>1, <3>3, ProceedMoves
    <3>5. ActiveMoves(s)
      BY <1>2, <3>2, ActiveStays
    <3>6. \A q \in Sessions \ {s} : Elsewhere(q)
      BY <2>1, <3>1, <3>2, HeadElsewhere
    <3> QED BY <1>1, <1>2, <3>2, <3>4, <3>5, <3>6, HeadMoves
  <2> QED BY <1>5, <2>1, <2>2, <2>3, <2>4, <2>5 DEF LoadForCompletion
<1>6. CASE FinishOperation(s)
  <2>0. work[s].op \in Ops /\ work[s].verdict \in Verdict
    BY <1>6, CompletesRun DEF TypeInv, TypeOK, SessionTypeOK, Work
  <2>1. PICK o \in Ops, v \in Verdict : o = work[s].op /\ v = work[s].verdict
    BY <2>0
  <2>2. /\ Dequeue(s) /\ UNCHANGED <<suspended, indeterminate, closed>>
        /\ \/ /\ AppendRecord(o, OperationFinished(o, TerminalOutcomeFor(o, v)))
              /\ Deactivate(s, o)
           \/ UNCHANGED active
        /\ live' \in {live, 0}
    BY <1>6, <2>1 DEF FinishOperation, ReleaseIfDetached
  <2>3. ActiveMoves(s) /\ (UNCHANGED active \/ \E a : active' = [active EXCEPT ![s] = a])
    <3>1. CASE UNCHANGED active
      BY <1>2, <3>1, ActiveStays
    <3>2. CASE AppendRecord(o, OperationFinished(o, TerminalOutcomeFor(o, v))) /\ Deactivate(s, o)
      <4>1. Finished(o)'
        BY <2>1, <3>2, OutcomeOfCompletion, AppendedTerminal
      <4>2. \A p \in Ops : active[s] = p /\ o = p => Finished(p)' \/ Parked(s)'
        BY <4>1 DEF Finished
      <4> QED BY <1>4, <3>2, <4>2
    <3> QED BY <2>2, <3>1, <3>2
  <2> QED BY <1>1, <1>2, <2>2, <2>3, HeadMoves, HeadElsewhere, DequeueMoves
<1> QED BY <1>5, <1>6

LEMMA HeadStepMoves ==
  ASSUME TypeInv, EffectInv, RecoveryInv, NEW s \in Sessions, QueueStep(s), ~AdmitPrompt(s)
  PROVE  AllMove
<1>1. CASE LoadForCompletion(s) \/ FinishOperation(s)
  BY <1>1, CompletionMoves
<1> DEFINE Others == \/ RejectPrompt(s) \/ QueueInput(s) \/ InputRefused(s) \/ DeliverInput(s)
                     \/ LoadForPrompt(s) \/ AdmissionFails(s) \/ LoadForCancel(s)
                     \/ AbortByCancel(s)
<1>2. ASSUME Others PROVE AllMove
  <2>1. AllRunsStay
    BY <1>2, QueueKind, KindsStay
       DEF RejectPrompt, QueueInput, InputRefused, DeliverInput, LoadForPrompt, AdmissionFails,
           LoadForCancel, AbortByCancel, operationVars
  <2>2. queue[s] # <<>> /\ ObjectSafe(s) /\ \A p \in Ops : InRun(p) => InRun(p)'
    BY <1>2, <2>1
       DEF RejectPrompt, QueueInput, InputRefused, DeliverInput, LoadForPrompt, AdmissionFails,
           LoadForCancel, AbortByCancel, Serving, RecoveryInv, AllRunsStay, RunsStayOf
  <2>3. UNCHANGED <<active, indeterminate, closed, live>>
    BY <1>2 DEF RejectPrompt, QueueInput, InputRefused, DeliverInput, LoadForPrompt,
                AdmissionFails, LoadForCancel, AbortByCancel, hostVars
  <2>4. ActiveMoves(s)
    BY <2>2, <2>3, ActiveStays
  <2>5. ASSUME Dequeue(s), UNCHANGED suspended PROVE AllMove
    BY <2>1, <2>2, <2>3, <2>4, <2>5, HeadMoves, HeadElsewhere, DequeueMoves
  <2>6. ASSUME NEW w, Proceed(s, w), UNCHANGED suspended,
               \/ w.step \in {"deliver", "finish"}
               \/ w.step = "preflight" /\ ~Parked(s)'
               \/ w.step = "abort" /\ \E o \in Ops : w.op = o /\ (Lost(o) => Finished(o))
        PROVE  AllMove
    <3>1. WorkMoves(s)
      BY <2>2, <2>6, ProceedMoves
    <3>2. \A q \in Sessions \ {s} : Elsewhere(q)
      BY <2>3, <2>6, HeadElsewhere
    <3> QED BY <2>1, <2>2, <2>3, <2>4, <2>6, <3>1, <3>2, HeadMoves
  <2>7. CASE RejectPrompt(s) \/ InputRefused(s) \/ AdmissionFails(s) \/ AbortByCancel(s)
    BY <2>5, <2>7 DEF RejectPrompt, InputRefused, AdmissionFails, AbortByCancel
  <2>8. CASE DeliverInput(s)
    <3>1. Dequeue(s) /\ \E b : suspended' = [suspended EXCEPT ![s] = suspended[s] \/ b]
      BY <2>8 DEF DeliverInput
    <3>2. suspended[s] => suspended'[s]
      BY <3>1 DEF TypeInv, TypeOK, SessionTypeOK
    <3> QED BY <2>1, <2>2, <2>3, <2>4, <3>1, <3>2, HeadMoves, HeadElsewhere, DequeueMoves
  <2>9. CASE QueueInput(s)
    <3>1. PICK i \in Inputs : Proceed(s, At("deliver", 0, active[s], i, NoVerdict))
      BY <2>9 DEF QueueInput
    <3>2. At("deliver", 0, active[s], i, NoVerdict).step = "deliver" /\ UNCHANGED suspended
      BY <2>9 DEF QueueInput, At
    <3> QED BY <2>6, <3>1, <3>2
  <2>10. CASE LoadForPrompt(s)
    <3>1. /\ Proceed(s, At("preflight", revision, 0, 0, NoVerdict)) \/ Dequeue(s)
          /\ UNCHANGED suspended /\ ~Parked(s)
      BY <2>10 DEF LoadForPrompt
    <3>2. At("preflight", revision, 0, 0, NoVerdict).step = "preflight" /\ ~Parked(s)'
      BY <2>3, <3>1 DEF At, Parked
    <3> QED BY <2>5, <2>6, <3>1, <3>2
  <2>11. CASE LoadForCancel(s)
    <3>1. UNCHANGED suspended
      BY <2>11 DEF LoadForCancel
    <3>2. \/ Dequeue(s)
          \/ \E o \in Ops : /\ ~Unreadable(Verdicts) /\ VerdictOf(o).status # "indeterminate_tool"
                            /\ Proceed(s, At("abort", 0, o, 0, NoVerdict))
      BY <2>11 DEF LoadForCancel
    <3>3. ASSUME NEW o \in Ops, ~Unreadable(Verdicts), VerdictOf(o).status # "indeterminate_tool",
                 Proceed(s, At("abort", 0, o, 0, NoVerdict))
          PROVE  AllMove
      <4>1. Lost(o) => Finished(o)
        BY <2>2, <3>3, CancelPicks
      <4>2. At("abort", 0, o, 0, NoVerdict).step = "abort" /\ At("abort", 0, o, 0, NoVerdict).op = o
        BY DEF At
      <4> QED BY <2>6, <3>1, <3>3, <4>1, <4>2
    <3> QED BY <2>5, <3>1, <3>2, <3>3
  <2> QED BY <1>2, <2>7, <2>8, <2>9, <2>10, <2>11
<1> QED BY <1>1, <1>2 DEF QueueStep

-----------------------------------------------------------------------------
(* All steps together, apart from admission, registration and crash. *)
LEMMA FoundMoves ==
  ASSUME TypeInv, NEW r \in Requests, OpenStep(r), NEW q \in Requests
  PROVE  \/ stage'[q] = "idle"
         \/ found'[q] = Verdicts /\ UNCHANGED <<journal, entries, ending, phase>>
         \/ stage[q] # "idle" /\ \A p \in Ops : found'[q][p] = found[q][p] \/ Finished(p)'
<1> USE DEF TypeInv, TypeOK, HostTypeOK
<1>1. CASE q # r
  BY <1>1 DEF OpenStep, OpenLoad, OpenRefused, OpenAttach, OpenClaim, OpenFinalize, OpenFails,
              OpenRegister, OpenEnds
<1>2. CASE q = r
  <2>1. CASE OpenLoad(r)
    BY <1>2, <2>1 DEF OpenLoad, persistenceVars, runVars
  <2>2. CASE OpenRefused(r) \/ OpenAttach(r) \/ OpenFails(r) \/ OpenRegister(r)
    BY <1>2, <2>2 DEF OpenRefused, OpenAttach, OpenFails, OpenRegister, OpenEnds
  <2>3. CASE OpenClaim(r)
    BY <1>2, <2>3 DEF OpenClaim, OpenEnds
  <2>4. CASE OpenFinalize(r)
    <3>1. stage[r] # "idle"
      BY <2>4 DEF OpenFinalize
    <3>2. CASE OpenEnds(r)
      BY <1>2, <3>2 DEF OpenEnds
    <3>3. CASE ~OpenEnds(r)
      <4>1. PICK o \in ToFinalize(r) :
              /\ AppendRecord(o, OperationFinished(o, RecoveredOutcome(found[r][o])))
              /\ found' = [found EXCEPT ![r][o] = Terminal(RecoveredOutcome(found[r][o]), "durable")]
        BY <2>4, <3>3 DEF OpenFinalize
      <4>2. o \in Ops /\ found[r][o] \in Verdict /\ Finalizable(found[r][o])
        BY <4>1 DEF ToFinalize
      <4>3. Finished(o)'
        BY <4>1, <4>2, OutcomeOfCompletion, AppendedTerminal
      <4>4. \A p \in Ops : p # o => found'[r][p] = found[r][p]
        BY <4>1
      <4> QED BY <1>2, <3>1, <4>3, <4>4 DEF Finished
    <3> QED BY <3>2, <3>3
  <2> QED BY <2>1, <2>2, <2>3, <2>4 DEF OpenStep
<1> QED BY <1>1, <1>2

LEMMA CreatedGrows ==
  ASSUME TypeInv, [Next]_vars
  PROVE  created \in Nat /\ created' \in Nat /\ created <= created'
<1>1. created \in Nat
  BY HostAssumption DEF TypeInv, TypeOK, HostTypeOK
<1>2. created' = created \/ created' = created + 1
  BY DEF Next, vars, hostVars, RunAlone, DriverStep, StartAdmitted, AttachResource, SubmitCompletion,
         QueueStep, RejectPrompt, QueueInput, InputRefused, DeliverInput, LoadForPrompt, AdmitPrompt,
         AdmissionFails, LoadForCompletion, FinishOperation, LoadForCancel, AbortByCancel, ClientStep,
         Prompt, CancelLive, CancelQueued, Close, OpenStep, OpenLoad, OpenRefused, OpenAttach,
         OpenClaim, OpenFinalize, OpenFails, OpenRegister, Crash
<1> QED BY <1>1, <1>2

LEMMA FoundStays ==
  ASSUME TypeInv, RecoveryInv, [Next]_vars, ~Crash, \A p \in Ops : Kept(p), NEW q \in Requests
  PROVE  FoundHolds(q)'
<1>1. FoundHolds(q)
  BY DEF RecoveryInv
<1>2. UNCHANGED <<stage, found>> => FoundHolds(q)'
  BY <1>1, FoundKept
<1>3. ASSUME NEW r \in Requests, OpenStep(r) PROVE FoundHolds(q)'
  <2>1. CASE found'[q] = Verdicts /\ UNCHANGED <<journal, entries, ending, phase>>
    <3>1. \A p \in Ops : found'[q][p] = VerdictOf(p)
      BY <2>1 DEF Verdicts
    <3>2. \A p \in Ops : VerdictOf(p)' = VerdictOf(p)
      BY <2>1 DEF VerdictOf, Accepted
    <3> QED BY <3>1, <3>2 DEF FoundHolds
  <2>2. CASE \/ stage'[q] = "idle"
             \/ stage[q] # "idle" /\ \A p \in Ops : found'[q][p] = found[q][p] \/ Finished(p)'
    BY <1>1, <2>2, FoundKept
  <2> QED BY <1>3, <2>1, <2>2, FoundMoves
<1>4. CASE \A r \in Requests : ~OpenStep(r)
  BY <1>2, <1>4
     DEF Next, vars, hostVars, RunAlone, DriverStep, StartAdmitted, AttachResource, SubmitCompletion,
         QueueStep, RejectPrompt, QueueInput, InputRefused, DeliverInput, LoadForPrompt, AdmitPrompt,
         AdmissionFails, LoadForCompletion, FinishOperation, LoadForCancel, AbortByCancel, ClientStep,
         Prompt, CancelLive, CancelQueued, Close
<1> QED BY <1>3, <1>4

(* The steps that change no phase from, to or between "none" and "lost". *)
LEMMA CommonKept ==
  ASSUME TypeInv, EffectInv, JournalInv, RecoveryInv, [Next]_vars, ~Crash,
         \A p \in Ops : SameKind(p), UNCHANGED owner, AllMove
  PROVE  RecoveryInv'
<1>1. \A p \in Ops : Kept(p)
  BY LostStays DEF SameKind
<1>2. \A s \in Sessions : ObjectSafe(s)'
  BY <1>1, CreatedGrows, ObjectKept DEF AllMove, RecoveryInv
<1>3. ASSUME NEW o \in Ops PROVE RunOwned(o)'
  <2>1. CASE InRun(o)
    <3>1. RunOwned(o) /\ ObjectMoves(owner[o])
      BY <2>1 DEF AllMove, RecoveryInv, RunOwned
    <3> QED BY <2>1, <3>1, FinishedStays, OwnedKept
  <2>2. CASE ~InRun(o)
    <3>1. ~InRun(o)'
      BY <2>2 DEF SameKind
    <3> QED BY <3>1 DEF RunOwned
  <2> QED BY <2>1, <2>2
<1> QED BY <1>1, <1>2, <1>3, FoundStays DEF RecoveryInv

LEMMA AdmissionRecovers ==
  ASSUME TypeInv, EffectInv, JournalInv, RecoveryInv, DriverInv, NEW s \in Sessions, AdmitPrompt(s),
         [Next]_vars, ~Crash
  PROVE  RecoveryInv'
<1>1. PICK o \in Ops : /\ \A p \in Ops : Accepted(p) <=> p < o
                       /\ active' = [active EXCEPT ![s] = o]
                       /\ owner' = [owner EXCEPT ![o] = s]
                       /\ phase' = [phase EXCEPT ![o] = "accepted"]
  BY DEF AdmitPrompt, Activate
<1>2. phase[o] = "none"
  <2>1. ~Accepted(o)
    BY <1>1 DEF Ops
  <2> QED BY <2>1 DEF EffectInv, EffectSafe
<1>3. /\ phase'[o] = "accepted" /\ \A p \in Ops \ {o} : phase'[p] = phase[p]
      /\ owner'[o] = s /\ \A p \in Ops \ {o} : owner'[p] = owner[p]
      /\ active'[s] = o /\ \A q \in Sessions \ {s} : active'[q] = active[q]
  BY <1>1 DEF TypeInv, TypeOK, RunTypeOK, SessionTypeOK
<1>4. \A p \in Ops : Kept(p)
  <2>1. \A p \in Ops : Lost(p)' <=> Lost(p)
    BY <1>2, <1>3 DEF Lost
  <2> QED BY <2>1, LostStays
<1>5. queue[s] # <<>> /\ active[s] = 0 /\ Dequeue(s)
      /\ UNCHANGED <<suspended, indeterminate, closed, live>>
  BY DEF AdmitPrompt, Serving, DriverInv, hostVars
<1>6. \A q \in Sessions \ {s} : ObjectMoves(q)
  <2>1. \A q \in Sessions \ {s} : RunsStayOf(q)
    BY <1>2, <1>3 DEF RunsStayOf, InRun
  <2>2. \A q \in Sessions \ {s} : Elsewhere(q)
    BY <1>1, <1>5, HeadElsewhere
  <2> QED BY <1>5, <2>1, <2>2, ElsewhereMoves DEF RecoveryInv
<1>7. ObjectMoves(s)
  <2>1. ActiveMoves(s)
    BY <1>3, <1>5 DEF ActiveMoves, InRun, Ops
  <2>2. Awake(s) /\ WorkMoves(s)
    BY <1>5, DequeueMoves DEF Awake
  <2> QED BY <1>5, <2>1, <2>2, HereMoves
<1>8. \A q \in Sessions : ObjectMoves(q)
  BY <1>6, <1>7
<1>9. \A q \in Sessions : ObjectSafe(q)'
  BY <1>4, <1>8, CreatedGrows, ObjectKept DEF RecoveryInv
<1>10. \A p \in Ops : RunOwned(p)'
  <2>1. RunOwned(o)'
    BY <1>3 DEF RunOwned
  <2>2. ASSUME NEW p \in Ops, p # o PROVE RunOwned(p)'
    <3>1. CASE InRun(p)
      <4>1. RunOwned(p) /\ ObjectMoves(owner[p]) /\ owner'[p] = owner[p]
        BY <1>3, <1>8, <2>2, <3>1 DEF RecoveryInv, RunOwned
      <4> QED BY <3>1, <4>1, FinishedStays, OwnedKept
    <3>2. CASE ~InRun(p)
      BY <1>3, <2>2, <3>2 DEF RunOwned, InRun
    <3> QED BY <3>1, <3>2
  <2> QED BY <2>1, <2>2
<1> QED BY <1>4, <1>9, <1>10, FoundStays DEF RecoveryInv

(* What an open request that has nothing left to finish knows. *)
LEMMA RegisterDecides ==
  ASSUME TypeInv, EffectInv, RecoveryInv, NEW r \in Requests, OpenRegister(r),
         NEW p \in Ops, Lost(p), ~Finished(p)
  PROVE  Incomplete(p) /\ ResumesParked(Recovered(r))
<1>1. stage[r] # "idle" /\ ~Finalizable(found[r][p]) /\ ~Unreadable(Recovered(r))
  BY DEF OpenRegister, ToFinalize
<1>2. found[r][p] = VerdictOf(p)
  BY <1>1 DEF RecoveryInv, FoundHolds
<1>3. Recovered(r)[p] = VerdictOf(p)
  BY <1>2 DEF Recovered, Verdicts
<1>4. Accepted(p)
  BY DEF Lost, EffectInv, EffectSafe
<1>5. Explains(VerdictOf(p), journal[p], entries, ending)
  BY <1>4, OpenVerdict DEF VerdictOf, Finished
<1>6. VerdictOf(p).status # "corrupted"
  BY <1>1, <1>3 DEF Unreadable
<1>7. VerdictOf(p).status = "indeterminate_tool" /\ Incomplete(p)
  BY <1>1, <1>2, <1>5, <1>6 DEF Explains, Incomplete
<1> QED BY <1>3, <1>7 DEF ResumesParked, Settled

LEMMA RegistrationRecovers ==
  ASSUME TypeInv, EffectInv, JournalInv, RecoveryInv, NEW r \in Requests, OpenRegister(r),
         [Next]_vars, ~Crash
  PROVE  RecoveryInv'
<1>1. PICK n \in Sessions : n = created + 1 /\ n = created'
  BY CreatedGrows, HostAssumption DEF OpenRegister, Sessions, TypeInv, TypeOK, HostTypeOK
<1>2. /\ \A p \in Ops : SameKind(p)
      /\ UNCHANGED <<owner, active, queue, work, suspended>>
      /\ indeterminate'[n] = ResumesParked(Recovered(r))
      /\ \A q \in Sessions \ {n} : indeterminate'[q] = indeterminate[q] /\ closed'[q] = closed[q]
      /\ live' = n
      /\ UNCHANGED <<journal, entries>>
  BY <1>1, HostKind DEF OpenStep, OpenRegister, operationVars, persistenceVars, TypeInv, TypeOK,
                        SessionTypeOK
<1>3. \A p \in Ops : Kept(p)
  BY <1>2, LostStays DEF SameKind
<1>4. ~Awake(n)
  BY <1>1, CreatedGrows DEF RecoveryInv, ObjectSafe
<1>5. ASSUME NEW q \in Sessions \ {n} PROVE ObjectMoves(q)
  <2>1. Elsewhere(q) /\ RunsStayOf(q)
    BY <1>2, KindsStay DEF Elsewhere, AllRunsStay
  <2> QED BY <1>2, <2>1, ElsewhereMoves DEF RecoveryInv
<1>6. \A q \in Sessions \ {n} : ObjectSafe(q)'
  BY <1>3, <1>5, CreatedGrows, ObjectKept DEF RecoveryInv
<1>7. ObjectSafe(n)'
  <2>1. n <= created' /\ Decided(n)'
    <3>1. ASSUME NEW p \in Ops, Lost(p)' PROVE Finished(p)' \/ (indeterminate'[n] /\ Incomplete(p)')
      <4>1. Lost(p)
        BY <1>2, <3>1 DEF SameKind
      <4>2. Finished(p) \/ (Incomplete(p) /\ ResumesParked(Recovered(r)))
        BY <4>1, RegisterDecides
      <4> QED BY <1>2, <4>2 DEF Finished, Incomplete
    <3> QED BY <1>1, <3>1, CreatedGrows DEF Decided
  <2>2. queue[n] = <<>> /\ work[n].step = "idle"
    BY <1>4 DEF Awake, RecoveryInv, ObjectSafe, WorkSafe
  <2>3. ActiveMoves(n)
    BY <1>2, ActiveStays DEF RecoveryInv, SameKind
  <2> QED BY <1>2, <2>1, <2>2, <2>3 DEF ObjectSafe, WorkSafe, ActiveMoves
<1>8. ASSUME NEW o \in Ops PROVE RunOwned(o)'
  <2>1. CASE InRun(o)
    <3>1. RunOwned(o) /\ owner[o] \in Sessions
      BY <2>1 DEF RecoveryInv, RunOwned
    <3>2. owner[o] # n
      BY <1>4, <2>1 DEF Awake
    <3> QED BY <1>2, <1>5, <2>1, <3>1, <3>2, FinishedStays, OwnedKept
  <2>2. CASE ~InRun(o)
    <3>1. ~InRun(o)'
      BY <1>2, <2>2 DEF SameKind
    <3> QED BY <3>1 DEF RunOwned
  <2> QED BY <2>1, <2>2
<1> QED BY <1>3, <1>6, <1>7, <1>8, FoundStays DEF RecoveryInv

LEMMA CrashRecovers ==
  ASSUME Crash
  PROVE  RecoveryInv'
<1>1. \A o \in Ops : ~InRun(o)'
  BY DEF Crash, RunLost, InRun
<1>2. ASSUME NEW s \in Sessions PROVE ObjectSafe(s)'
  <2>1. queue'[s] = <<>> /\ closed'[s] /\ live' = 0 /\ active'[s] = 0 /\ work'[s] = Idle
    BY DEF Crash, HostLost
  <2>2. ~Awake(s)'
    BY <1>1, <2>1 DEF Awake, Sessions
  <2> QED BY <2>1, <2>2 DEF ObjectSafe, WorkSafe, Idle, At
<1>3. \A o \in Ops : RunOwned(o)'
  BY <1>1 DEF RunOwned
<1>4. \A r \in Requests : FoundHolds(r)'
  BY DEF Crash, HostLost, FoundHolds
<1> QED BY <1>2, <1>3, <1>4 DEF RecoveryInv

LEMMA RecoveryKept ==
  ASSUME TypeInv, EffectInv, JournalInv, RecoveryInv, DriverInv, [Next]_vars
  PROVE  RecoveryInv'
<1>1. CASE Crash
  BY <1>1, CrashRecovers
<1>2. CASE UNCHANGED vars /\ ~Crash
  <2>1. UNCHANGED <<sessionVars, owner, phase, live>>
    BY <1>2 DEF vars, runVars, operationVars, hostVars
  <2>2. \A p \in Ops : SameKind(p)
    BY <2>1 DEF SameKind, InRun, Lost
  <2>3. AllMove
    BY <2>1, <2>2, KindsStay, NobodyMoves
  <2> QED BY <1>2, <2>1, <2>2, <2>3, CommonKept
<1>3. ASSUME NEW o \in Ops, RunAlone(o) \/ DriverStep(o), ~Crash PROVE RecoveryInv'
  <2>1. UNCHANGED owner
    BY <1>3 DEF RunAlone, DriverStep, StartAdmitted, AttachResource, SubmitCompletion, operationVars
  <2> QED BY <1>3, <2>1, RunKind, DriverMoves, CommonKept
<1>4. ASSUME NEW s \in Sessions, QueueStep(s), ~AdmitPrompt(s), ~Crash PROVE RecoveryInv'
  <2>1. UNCHANGED owner
    BY <1>4 DEF QueueStep, RejectPrompt, QueueInput, InputRefused, DeliverInput, LoadForPrompt,
                AdmissionFails, LoadForCompletion, FinishOperation, LoadForCancel, AbortByCancel,
                operationVars
  <2> QED BY <1>4, <2>1, QueueKind, HeadStepMoves, CommonKept
<1>5. ASSUME NEW s \in Sessions, AdmitPrompt(s), ~Crash PROVE RecoveryInv'
  BY <1>5, AdmissionRecovers
<1>6. ASSUME NEW s \in Sessions, ClientStep(s), ~Crash PROVE RecoveryInv'
  <2>1. UNCHANGED owner
    BY <1>6 DEF ClientStep, Prompt, CancelLive, CancelQueued, Close, operationVars
  <2> QED BY <1>6, <2>1, HostKind, ClientMoves, CommonKept
<1>7. ASSUME NEW r \in Requests, OpenStep(r), ~OpenRegister(r), ~Crash PROVE RecoveryInv'
  <2>1. UNCHANGED owner
    BY <1>7 DEF OpenStep, OpenLoad, OpenRefused, OpenAttach, OpenClaim, OpenFinalize, OpenFails,
                operationVars
  <2> QED BY <1>7, <2>1, HostKind, OpenMoves, CommonKept
<1>8. ASSUME NEW r \in Requests, OpenRegister(r), ~Crash PROVE RecoveryInv'
  BY <1>8, RegistrationRecovers
<1> QED BY <1>1, <1>2, <1>3, <1>4, <1>5, <1>6, <1>7, <1>8 DEF Next

LEMMA RecoveryAtStart ==
  ASSUME Init
  PROVE  RecoveryInv /\ DriverInv
<1> USE DEF Init, RunInit, SessionInit, Idle, At
<1>1. \A o \in Ops : ~InRun(o) /\ ~Driving(o)
  BY DEF InRun, Driving
<1>2. ASSUME NEW s \in Sessions PROVE ObjectSafe(s)
  <2>1. ~Awake(s)
    BY <1>1 DEF Awake, Sessions
  <2> QED BY <2>1 DEF ObjectSafe, WorkSafe
<1> QED BY <1>1, <1>2 DEF RecoveryInv, RunOwned, FoundHolds, DriverInv

HostInv == TypeInv /\ EffectInv /\ JournalInv /\ RecoveryInv /\ DriverInv

LEMMA HostInvariant == Spec => []HostInv
<1>1. Init => HostInv
  BY TypesAtStart, EffectInvAtStart, JournalInvAtStart, RecoveryAtStart DEF HostInv
<1>2. HostInv /\ [Next]_vars => HostInv'
  BY TypesKept, EffectInvKept, JournalsKept, DriversKept, RecoveryKept DEF HostInv
<1> QED BY <1>1, <1>2, PTL DEF Spec

(***************************************************************************)
(* After a crash, a registered Session has decided every Operation the     *)
(* crash interrupted, or is parked on the tool whose effect is unknown:    *)
(* the verdicts the open request loaded before its awaits are still true   *)
(* when it registers the object.                                           *)
(***************************************************************************)
THEOREM RecoveryIsDecided == Spec => []RecoveryDecides
<1>1. HostInv => RecoveryDecides
  <2> SUFFICES ASSUME HostInv, live # 0, NEW o \in Ops, phase[o] = "lost"
               PROVE  Finished(o) \/ (indeterminate[live] /\ Incomplete(o))
    BY DEF RecoveryDecides
  <2>1. live \in Sessions
    BY HostAssumption DEF HostInv, TypeInv, TypeOK, HostTypeOK, Sessions
  <2>2. Decided(live)
    BY <2>1 DEF HostInv, RecoveryInv, ObjectSafe, Awake
  <2> QED BY <2>2 DEF Decided, Lost
<1> QED BY <1>1, HostInvariant, PTL

(* Only the admission of a prompt accepts an Operation. *)
LEMMA AcceptedByAdmission ==
  ASSUME TypeInv, EffectInv, EffectInv', [Next]_vars, NEW o \in Ops, ~Accepted(o), Accepted(o)'
  PROVE  \E s \in Sessions : AdmitPrompt(s) /\ owner'[o] = s
<1>1. phase[o] = "none" /\ phase'[o] # "none"
  BY DEF EffectInv, EffectSafe, Accepted
<1>2. ~SameKind(o)
  BY <1>1 DEF SameKind, InRun, Lost
<1>3. ~Crash
  BY <1>1 DEF Crash, RunLost
<1>4. phase' # phase
  BY <1>1
<1>5. ~UNCHANGED vars
  BY <1>4 DEF vars, runVars
<1>6. PICK s \in Sessions : AdmitPrompt(s)
  BY <1>2, <1>3, <1>5, RunKind, QueueKind, HostKind DEF Next
<1>7. PICK q \in Ops : phase' = [phase EXCEPT ![q] = "accepted"] /\ owner' = [owner EXCEPT ![q] = s]
  BY <1>6 DEF AdmitPrompt
<1>8. q = o
  BY <1>1, <1>7 DEF TypeInv, TypeOK, RunTypeOK
<1>9. owner'[o] = s
  BY <1>7, <1>8 DEF TypeInv, TypeOK, SessionTypeOK
<1> QED BY <1>6, <1>9

(***************************************************************************)
(* A prompt starts a new Operation only when every Operation its Session   *)
(* object drove, and every one a crash interrupted, is over, though its    *)
(* preflight and its admission are two steps apart.                        *)
(***************************************************************************)
THEOREM AdmissionIsAfterFinish == Spec => AdmissionAfterFinish
<1> DEFINE Step ==
      \A o, p \in Ops :
        /\ ~Accepted(o) /\ Accepted(o)'
        /\ Accepted(p)
        /\ owner[p] = owner'[o] \/ phase[p] = "lost"
        => Finished(p)
<1>1. HostInv /\ HostInv' /\ [Next]_vars => [Step]_vars
  <2> SUFFICES ASSUME HostInv, HostInv', [Next]_vars, NEW o \in Ops, NEW p \in Ops,
                      ~Accepted(o), Accepted(o)', Accepted(p),
                      owner[p] = owner'[o] \/ phase[p] = "lost"
               PROVE  Finished(p)
    OBVIOUS
  <2>1. PICK s \in Sessions : AdmitPrompt(s) /\ owner'[o] = s
    BY AcceptedByAdmission DEF HostInv
  <2>2. /\ ObjectSafe(s) /\ queue[s] # <<>> /\ work[s].step = "preflight"
        /\ active[s] = 0
    BY <2>1 DEF HostInv, RecoveryInv, DriverInv, AdmitPrompt, Serving
  <2>3. ~Parked(s) /\ Decided(s)
    BY <2>2 DEF ObjectSafe, WorkSafe, Awake
  <2>4. CASE Lost(p)
    BY <2>3, <2>4 DEF Decided, Parked
  <2>5. CASE ~Lost(p)
    <3>1. InRun(p) /\ owner[p] = s
      BY <2>1, <2>5 DEF HostInv, EffectInv, EffectSafe, Lost, InRun
    <3>2. active[s] # p
      BY <2>2 DEF Ops
    <3> QED BY <2>3, <3>1, <3>2 DEF HostInv, RecoveryInv, RunOwned
  <2> QED BY <2>4, <2>5
<1> QED BY <1>1, HostInvariant, PTL DEF Spec, AdmissionAfterFinish

(***************************************************************************)
(* Recovery finishes an Operation only with what the journal proves: the   *)
(* durable last reply, or "interrupted"; never over an unknown effect.     *)
(***************************************************************************)
THEOREM RecoveryIsHonest == Spec => RecoveryInventsNothing
<1> DEFINE Honest(o) ==
      LET outcome == journal'[o][Len(journal'[o])].outcome
      IN  /\ ~Incomplete(o)
          /\ \/ outcome = "interrupted"
             \/ \E e \in LatestReply(o) \cap entries : ending[e] = outcome
           Step == \A o \in Ops : phase[o] = "lost" /\ ~Finished(o) /\ Finished(o)' => Honest(o)
<1>1. HostInv /\ [Next]_vars => [Step]_vars
  <2> SUFFICES ASSUME HostInv, [Next]_vars, NEW o \in Ops,
                      Lost(o), ~Finished(o), Finished(o)'
               PROVE  Honest(o)
    BY DEF Lost
  <2>1. journal'[o] # journal[o]
    BY DEF Finished
  <2>2. ~Crash
    BY <2>1 DEF Crash, persistenceVars
  <2>3. PICK r \in Requests : Recovers(r, o)
    BY <2>1, <2>2, LostKept DEF HostInv, SameEvidence
  <2>4. found[r][o] = VerdictOf(o)
    BY <2>3 DEF Recovers, HostInv, RecoveryInv, FoundHolds
  <2>5. PICK v \in Verdict : v = VerdictOf(o)
    BY VerdictType DEF HostInv, TypeInv, TypeOK
  <2>6. Finalizable(v) /\ AppendRecord(o, OperationFinished(o, RecoveredOutcome(v)))
    BY <2>3, <2>4, <2>5 DEF Recovers
  <2>7. Explains(v, journal[o], entries, ending)
    <3>1. Accepted(o)
      BY DEF Lost, HostInv, EffectInv, EffectSafe
    <3> QED BY <2>5, <3>1, OpenVerdict DEF VerdictOf, Finished
  <2>8. journal'[o][Len(journal'[o])].outcome = RecoveredOutcome(v)
    <3> DEFINE record == OperationFinished(o, RecoveredOutcome(v))
    <3>1. record \in Record /\ record.outcome = RecoveredOutcome(v) /\ AppendRecord(o, record)
      BY <2>6, OutcomeOfCompletion, RecordTypes DEF OperationFinished, HostInv
    <3> HIDE DEF record
    <3>2. journal'[o][Len(journal'[o])] = record
      BY <3>1, AppendShape DEF HostInv
    <3> QED BY <3>1, <3>2
  <2>9. ~Incomplete(o)
    BY <2>6, <2>7 DEF Explains, Incomplete
  <2>10. ASSUME NEW i \in Latest(journal[o]) PROVE journal[o][i].entry \in LatestReply(o)
    BY DEF Latest, LatestReply
  <2>11. \/ RecoveredOutcome(v) = "interrupted"
         \/ \E e \in LatestReply(o) \cap entries : ending[e] = RecoveredOutcome(v)
    BY <2>6, <2>7, <2>10 DEF Explains
  <2> QED BY <2>8, <2>9, <2>11
<1> QED BY <1>1, HostInvariant, PTL DEF Spec, RecoveryInventsNothing

-----------------------------------------------------------------------------
(***************************************************************************)
(* What a terminal record closes over.  An accepted input without its      *)
(* Session Journal entry, or a dispatched tool without its result, makes a *)
(* finished Operation corrupted.  completeOperation therefore reads the    *)
(* verdict first; what it has read still holds when it writes, but for the *)
(* call an aborted run has let go of.                                      *)
(***************************************************************************)
InputsPending(o) == PendingInputs(journal[o], entries) # {}

Settles(o) == Finished(o) \/ (~InputsPending(o) /\ (Incomplete(o) => abort[o]))

Over(o) == phase[o] \in {"completing", "done"}

(* A completion is in the queue of the object that admitted its Operation. *)
Completes(s, item) ==
  item[1] = "complete" => owner[item[2]] = s /\ Over(item[2])

CompletionSafe(s) ==
  /\ \A k \in DOMAIN queue[s] : Completes(s, queue[s][k])
  /\ active[s] # 0 => owner[active[s]] = s
  /\ work[s].step = "finish" =>
       /\ queue[s] # <<>> /\ Head(queue[s]) = <<"complete", work[s].op>>
       /\ Settles(work[s].op)

CompletionInv == \A s \in Sessions : CompletionSafe(s)

LEMMA PendingKept ==
  ASSUME TypeInv, NEW p \in Ops, OwnJournal(p), SameEvidence(p)
  PROVE  InputsPending(p)' <=> InputsPending(p)
<1>1. ASSUME NEW k \in Of(journal[p], "input_queued")
      PROVE  journal[p][k].entry \in entries' <=> journal[p][k].entry \in entries
  <2>1. k \in DOMAIN journal[p] /\ journal[p][k].type = "input_queued" /\ k # 1
    BY <1>1 DEF Of, OwnJournal, OperationAccepted
  <2>2. journal[p][k] \in Record /\ OwnRecord(p, journal[p][k])
    BY <2>1 DEF OwnJournal, RecordOf
  <2>3. journal[p][k].id \in Inputs /\ journal[p][k].entry = QueuedEntry(p, journal[p][k].id)
    BY <2>1, <2>2 DEF Record, OwnRecord
  <2>4. journal[p][k].entry \in Mine(p)
    BY <2>3 DEF Mine
  <2> QED BY <2>4 DEF SameEvidence
<1>2. PendingInputs(journal'[p], entries') = PendingInputs(journal[p], entries)
  BY <1>1 DEF PendingInputs, SameEvidence
<1> QED BY <1>2 DEF InputsPending

(* A record of another kind leaves the inputs as they are. *)
LEMMA PendingUntouched ==
  ASSUME TypeInv, NEW o \in Ops, NEW record \in Record, AppendRecord(o, record),
         record.type # "input_queued"
  PROVE  InputsPending(o)' <=> InputsPending(o)
<1> DEFINE n == Len(journal[o])
<1>1. /\ n \in Nat /\ DOMAIN journal[o] = 1..n /\ DOMAIN journal'[o] = 1..(n + 1)
      /\ \A k \in 1..n : journal'[o][k] = journal[o][k]
      /\ journal'[o][n + 1].type # "input_queued"
      /\ entries' = entries
  BY AppendShape
<1> HIDE DEF n
<1>2. Of(journal'[o], "input_queued") = Of(journal[o], "input_queued")
  BY <1>1 DEF Of
<1>3. \A k \in Of(journal[o], "input_queued") : journal'[o][k] = journal[o][k]
  BY <1>1 DEF Of
<1>4. PendingInputs(journal'[o], entries') = PendingInputs(journal[o], entries)
  BY <1>1, <1>2, <1>3 DEF PendingInputs
<1> QED BY <1>4 DEF InputsPending

LEMMA NotFinishedBy ==
  ASSUME TypeInv, NEW o \in Ops, NEW record \in Record, AppendRecord(o, record),
         record.type # "operation_finished"
  PROVE  ~Finished(o)'
<1> DEFINE n == Len(journal[o])
<1>1. /\ n \in Nat /\ DOMAIN journal[o] = 1..n /\ DOMAIN journal'[o] = 1..(n + 1)
      /\ \A k \in 1..n : journal'[o][k] = journal[o][k]
      /\ journal'[o][n + 1].type # "operation_finished"
      /\ ~IsFinished(journal[o])
  BY AppendShape
<1> HIDE DEF n
<1> QED BY <1>1 DEF Finished, IsFinished, Of

(* An abort is never taken back while the process lives. *)
LEMMA AbortStays ==
  ASSUME TypeInv, [Next]_vars, ~Crash, NEW p \in Ops, abort[p]
  PROVE  abort'[p]
<1> USE DEF TypeInv, TypeOK, RunTypeOK
<1>1. CASE UNCHANGED vars
  BY <1>1 DEF vars, runVars
<1>2. ASSUME NEW o \in Ops, RunAlone(o) PROVE UNCHANGED abort
  <2>1. CASE LoopStep(o)
    BY <2>1
       DEF LoopStep, BuildAgent, BuildFails, StartRun, BeginLoop, InjectInput, InjectFails,
           AttemptModel, AttemptRefused, DiscardReply, GiveUpRepair, CommitReply, CommitRefused,
           ExecuteTool, AbandonTool, PublishResult, PublishRefused, StopOnAbort, TakeInput,
           NextRequest, NothingLeft, ReachLimit, ReportFailure, FinishRun
  <2>2. CASE ProviderStep(o) \/ ToolStep(o) \/ LateStep(o)
    BY <2>2 DEF ProviderStep, SettleUsage, SettleRefused, ToolStep, RefuseTool, DispatchTool,
                DispatchRefused, ToolReturns, LateStep, LateDispatch, LateExecute
  <2> QED BY <1>2, <2>1, <2>2 DEF RunAlone, RunStep
<1>3. ASSUME NEW o \in Ops, DriverStep(o) PROVE abort'[p]
  BY <1>3 DEF DriverStep, StartAdmitted, AttachResource, SubmitCompletion
<1>4. ASSUME NEW s \in Sessions, QueueStep(s) PROVE UNCHANGED abort
  BY <1>4 DEF QueueStep, RejectPrompt, QueueInput, InputRefused, DeliverInput, LoadForPrompt,
              AdmitPrompt, AdmissionFails, LoadForCompletion, FinishOperation, LoadForCancel,
              AbortByCancel, runVars
<1>5. ASSUME NEW s \in Sessions, ClientStep(s) PROVE abort'[p]
  <2>1. CASE CancelLive(s)
    <3>1. active[s] \in Ops
      BY <2>1, ActiveOp DEF CancelLive
    <3> QED BY <2>1, <3>1 DEF CancelLive
  <2> QED BY <1>5, <2>1 DEF ClientStep, Prompt, CancelQueued, Close, runVars
<1>6. ASSUME NEW r \in Requests, OpenStep(r) PROVE UNCHANGED abort
  BY <1>6 DEF OpenStep, OpenLoad, OpenRefused, OpenAttach, OpenClaim, OpenFinalize, OpenFails,
              OpenRegister, runVars
<1> QED BY <1>1, <1>2, <1>3, <1>4, <1>5, <1>6 DEF Next

(* A run that is over stays over, and stays with its Session object. *)
LEMMA OverStays ==
  ASSUME TypeInv, EffectInv, [Next]_vars, ~Crash, NEW p \in Ops
  PROVE  /\ InRun(p) => owner'[p] = owner[p]
         /\ Over(p) => Over(p)'
<1> USE DEF TypeInv, TypeOK, RunTypeOK, SessionTypeOK, InRun, Over
<1>1. CASE UNCHANGED vars
  BY <1>1 DEF vars, runVars, operationVars
<1>2. ASSUME NEW o \in Ops, RunAlone(o) PROVE owner' = owner /\ (Over(p) => Over(p)')
  <2>1. CASE LoopStep(o)
    BY <1>2, <2>1
       DEF LoopStep, BuildAgent, BuildFails, StartRun, BeginLoop, InjectInput, InjectFails,
           AttemptModel, AttemptRefused, DiscardReply, GiveUpRepair, CommitReply, CommitRefused,
           ExecuteTool, AbandonTool, PublishResult, PublishRefused, StopOnAbort, TakeInput,
           NextRequest, NothingLeft, ReachLimit, ReportFailure, FinishRun, Goes, RunAlone,
           operationVars
  <2>2. CASE ProviderStep(o) \/ ToolStep(o) \/ LateStep(o)
    BY <1>2, <2>2 DEF ProviderStep, SettleUsage, SettleRefused, ToolStep, RefuseTool, DispatchTool,
                DispatchRefused, ToolReturns, LateStep, LateDispatch, LateExecute, Goes, RunAlone,
                operationVars
  <2> QED BY <1>2, <2>1, <2>2 DEF RunAlone, RunStep
<1>3. ASSUME NEW o \in Ops, DriverStep(o) PROVE owner' = owner /\ (Over(p) => Over(p)')
  BY <1>3 DEF DriverStep, StartAdmitted, AttachResource, SubmitCompletion, Goes, operationVars,
              runVars
<1>4. ASSUME NEW s \in Sessions, QueueStep(s)
      PROVE  /\ InRun(p) => owner'[p] = owner[p]
             /\ Over(p) => Over(p)'
  <2>1. CASE AdmitPrompt(s)
    <3>1. PICK o \in Ops : /\ \A q \in Ops : Accepted(q) <=> q < o
                           /\ owner' = [owner EXCEPT ![o] = s]
                           /\ phase' = [phase EXCEPT ![o] = "accepted"]
      BY <2>1 DEF AdmitPrompt
    <3>2. ~Accepted(o)
      BY <3>1 DEF Ops
    <3>3. phase[o] = "none"
      BY <3>2 DEF EffectInv, EffectSafe
    <3> QED BY <3>1, <3>3
  <2>2. CASE LoadForCompletion(s) \/ FinishOperation(s)
    <3>1. owner' = owner /\ (UNCHANGED phase \/ \E o : phase' = [phase EXCEPT ![o] = "done"])
      BY <2>2 DEF LoadForCompletion, FinishOperation, CompletionUnreadable, ParkIndeterminate,
                  SuspendPending, AlreadyFinished, DecideOutcome, Leaves, operationVars
    <3>2. ASSUME NEW o, phase' = [phase EXCEPT ![o] = "done"] PROVE phase'[p] \in {phase[p], "done"}
      BY <3>2
    <3> QED BY <3>1, <3>2
  <2>3. CASE ~AdmitPrompt(s) /\ ~LoadForCompletion(s) /\ ~FinishOperation(s)
    BY <1>4, <2>3 DEF QueueStep, RejectPrompt, QueueInput, InputRefused, DeliverInput,
                      LoadForPrompt, AdmissionFails, LoadForCancel, AbortByCancel, runVars,
                      operationVars
  <2> QED BY <2>1, <2>2, <2>3
<1>5. ASSUME NEW s \in Sessions, ClientStep(s) PROVE owner' = owner /\ phase' = phase
  BY <1>5 DEF ClientStep, Prompt, CancelLive, CancelQueued, Close, runVars, operationVars
<1>6. ASSUME NEW r \in Requests, OpenStep(r) PROVE owner' = owner /\ phase' = phase
  BY <1>6 DEF OpenStep, OpenLoad, OpenRefused, OpenAttach, OpenClaim, OpenFinalize, OpenFails,
              OpenRegister, runVars, operationVars
<1> QED BY <1>1, <1>2, <1>3, <1>4, <1>5, <1>6 DEF Next

(* Who writes about an Operation whose completion is at the head of a queue. *)
LEMMA CompletionIsAlone ==
  ASSUME HostInv, CompletionInv, [Next]_vars, ~Crash, NEW s \in Sessions, NEW o \in Ops,
         queue[s] # <<>>, Head(queue[s]) = <<"complete", o>>
  PROVE  /\ Over(o) /\ InRun(o) /\ owner[o] = s
         /\ SameEvidence(o) \/ LateDispatch(o) \/ Finished(o)'
<1>1. TypeInv /\ EffectInv
  BY DEF HostInv
<1>2. Over(o) /\ owner[o] = s
  <2>1. 1 \in DOMAIN queue[s] /\ queue[s][1] = <<"complete", o>>
    BY <1>1 DEF TypeInv, TypeOK, SessionTypeOK
  <2> QED BY <2>1 DEF CompletionInv, CompletionSafe, Completes
<1>3. InRun(o) /\ Accepted(o)
  BY <1>1, <1>2 DEF Over, InRun, EffectInv, EffectSafe
<1> DEFINE Done == SameEvidence(o) \/ LateDispatch(o) \/ Finished(o)'
<1>4. UNCHANGED <<journal, entries, ending>> => Done
  BY NothingNew
<1>5. ASSUME NEW q \in Ops, NEW outcome \in TerminalOutcome,
             \/ AppendRecord(q, OperationFinished(q, outcome))
             \/ RecordRefused(q)
      PROVE  Done
  BY <1>1, <1>4, <1>5, RecordTypes, RecordSparesOthers, RefusedEvidence, AppendedTerminal
<1>6. ASSUME UNCHANGED vars PROVE Done
  BY <1>4, <1>6 DEF vars, persistenceVars
<1>7. ASSUME NEW q \in Ops, RunAlone(q) PROVE Done
  <2>1. CASE q # o
    BY <1>1, <1>7, <2>1, RunWritesOwn DEF RunAlone
  <2>2. CASE q = o
    <3>1. LateStep(o)
      BY <1>2, <1>7, <2>2
         DEF RunAlone, RunStep, Over, Goes,
             LoopStep, BuildAgent, BuildFails, StartRun, BeginLoop, InjectInput, InjectFails,
             AttemptModel, AttemptRefused, DiscardReply, GiveUpRepair, CommitReply, CommitRefused,
             ExecuteTool, AbandonTool, PublishResult, PublishRefused, StopOnAbort, TakeInput,
             NextRequest, NothingLeft, ReachLimit, ReportFailure, FinishRun,
             ProviderStep, SettleUsage, SettleRefused, ToolStep, RefuseTool, DispatchTool,
             DispatchRefused, ToolReturns
    <3> QED BY <1>4, <3>1 DEF LateStep, LateExecute, persistenceVars
  <2> QED BY <2>1, <2>2
<1>8. ASSUME NEW q \in Ops, DriverStep(q) PROVE Done
  BY <1>4, <1>8 DEF DriverStep, StartAdmitted, AttachResource, SubmitCompletion, persistenceVars
<1>9. ASSUME NEW t \in Sessions, QueueStep(t) PROVE Done
  <2>1. CASE AdmitPrompt(t)
    <3>1. PICK q \in Ops : (\A p \in Ops : Accepted(p) <=> p < q) /\ AdmitTransaction(q, work[t].leaf)
      BY <2>1 DEF AdmitPrompt
    <3>2. ~Accepted(q)
      BY <3>1 DEF Ops
    <3> QED BY <1>1, <1>3, <3>1, <3>2, AdmissionSparesOthers
  <2>2. CASE QueueInput(t)
    <3>1. active[t] \in Ops /\ active[t] # 0 /\ Head(queue[t])[1] = "prompt"
      BY <1>1, <2>2, ActiveOp DEF QueueInput, Serving
    <3>2. active[t] # o
      <4> SUFFICES ASSUME active[t] = o PROVE FALSE
        OBVIOUS
      <4>1. t = s
        BY <1>2, <3>1 DEF CompletionInv, CompletionSafe
      <4> QED BY <3>1, <4>1
    <3>3. PICK i \in Inputs :
            AppendRecord(active[t], InputQueued(active[t], i, QueuedEntry(active[t], i)))
      BY <2>2 DEF QueueInput
    <3> QED BY <1>1, <3>1, <3>2, <3>3, RecordTypes, RecordSparesOthers
  <2>3. CASE FinishOperation(t)
    <3>1. work[t].op \in Ops
      BY <1>1, <2>3, CompletesRun
    <3>2. work[t].verdict \in Verdict
      BY <1>1 DEF TypeInv, TypeOK, SessionTypeOK, Work
    <3> QED BY <1>1, <1>5, <2>3, <3>1, <3>2, OutcomeOfCompletion DEF FinishOperation
  <2>4. CASE AbortByCancel(t)
    <3>1. work[t].op \in Ops
      BY <1>1, <2>4 DEF AbortByCancel, Serving, TypeInv, WorkKnown, Known
    <3> QED BY <1>5, <2>4, <3>1 DEF AbortByCancel, TerminalOutcome
  <2>5. CASE LoadForCompletion(t)
    BY <1>4, <2>5, RefusedEvidence
       DEF LoadForCompletion, CompletionUnreadable, ParkIndeterminate, SuspendPending,
           AlreadyFinished, DecideOutcome
  <2>6. CASE InputRefused(t)
    BY <1>1, <1>4, <2>6, ActiveOp, RefusedEvidence DEF InputRefused
  <2>7. CASE \/ RejectPrompt(t) \/ DeliverInput(t) \/ LoadForPrompt(t) \/ AdmissionFails(t)
             \/ LoadForCancel(t)
    BY <1>4, <2>7, RefusedEvidence
       DEF RejectPrompt, DeliverInput, LoadForPrompt, AdmissionFails, AdmitRefused, LoadForCancel
  <2> QED BY <1>9, <2>1, <2>2, <2>3, <2>4, <2>5, <2>6, <2>7 DEF QueueStep
<1>10. ASSUME NEW t \in Sessions, ClientStep(t) PROVE Done
  BY <1>4, <1>10 DEF ClientStep, Prompt, CancelLive, CancelQueued, Close, persistenceVars
<1>11. ASSUME NEW r \in Requests, OpenStep(r) PROVE Done
  <2>1. CASE Recovers(r, o)
    <3>1. found[r][o] \in Verdict
      BY <1>1 DEF TypeInv, TypeOK, HostTypeOK
    <3> QED BY <1>1, <1>5, <2>1, <3>1, OutcomeOfCompletion DEF Recovers
  <2> QED BY <1>1, <1>11, <2>1, LostInOpening
<1>12. Done
  BY <1>6, <1>7, <1>8, <1>9, <1>10, <1>11 DEF Next
<1> QED BY <1>2, <1>3, <1>12

(* What completeOperation has read stays true until it writes. *)
LEMMA SettlesStays ==
  ASSUME HostInv, CompletionInv, [Next]_vars, ~Crash, NEW s \in Sessions, NEW o \in Ops,
         queue[s] # <<>>, Head(queue[s]) = <<"complete", o>>, Settles(o)
  PROVE  Settles(o)'
<1>1. TypeInv /\ EffectSafe(o) /\ OwnJournal(o)
  BY DEF HostInv, EffectInv, JournalInv, JournalSafe
<1>2. CASE Finished(o)
  BY <1>1, <1>2, FinishedStays DEF Settles
<1>3. ASSUME ~Finished(o), SameEvidence(o) PROVE Settles(o)'
  <2>1. InputsPending(o)' <=> InputsPending(o)
    BY <1>1, <1>3, PendingKept
  <2>2. Incomplete(o)' <=> Incomplete(o)
    BY <1>1, <1>3, EvidenceDecides DEF SameVerdict
  <2>3. abort[o] => abort'[o]
    BY <1>1, AbortStays
  <2> QED BY <1>3, <2>1, <2>2, <2>3 DEF Settles
<1>4. ASSUME ~Finished(o), LateDispatch(o) PROVE Settles(o)'
  <2>1. abort[o]
    BY <1>1, <1>4 DEF LateDispatch, EffectSafe, LateAfterAbort
  <2>2. CASE RecordRefused(o)
    BY <1>3, <1>4, <2>2, RefusedEvidence, NothingNew
  <2>3. CASE Dispatch(o)
    <3> DEFINE record ==
          ToolDispatched(o, turn[o], AssistantEntry(o, turn[o]), ResultEntry(o, turn[o]))
    <3>1. turn[o] \in Attempts
      BY <1>1, <1>4 DEF LateDispatch, TypeInv, TurnKnown
    <3>2. record \in Record /\ record.type = "tool_dispatched" /\ AppendRecord(o, record)
      BY <2>3, <3>1, RecordTypes DEF Dispatch, ToolDispatched
    <3> HIDE DEF record
    <3>3. InputsPending(o)' <=> InputsPending(o)
      BY <1>1, <3>2, PendingUntouched
    <3>4. abort'[o]
      BY <1>1, <2>1, AbortStays
    <3> QED BY <1>4, <3>3, <3>4 DEF Settles
  <2> QED BY <1>4, <2>2, <2>3 DEF LateDispatch
<1> QED BY <1>2, <1>3, <1>4, CompletionIsAlone DEF Settles

(* The verdicts on which an Operation that is open may be finished. *)
LEMMA NothingOwed ==
  ASSUME NEW records, NEW durable, NEW ends, ~IsFinished(records), NEW v,
         v = RecoverOperation(records, durable, ends),
         (AtRest(v) /\ ~v.pending) \/ v.finalization = "inferred"
  PROVE  PendingInputs(records, durable) = {} /\ IncompleteDispatches(records, durable) = {}
<1> DEFINE latest == {records[i].entry : i \in Latest(records)}
           ended == {e \in latest : ends[e] # NoOutcome}
           pending == PendingInputs(records, durable) # {}
           implied == ends[CHOOSE e \in ended : TRUE]
<1> USE DEF AtRest, Corrupted, Open, Terminal
<1>1. v # Corrupted /\ v # Open("indeterminate_tool", FALSE)
  OBVIOUS
<1>2. v = RecoverOpen(records, durable, ends) /\ IncompleteDispatches(records, durable) = {}
  BY <1>1 DEF RecoverOperation
<1>3. RecoverOpen(records, durable, ends) =
        IF latest \ durable # {} THEN Open("provider_interrupted", pending)
        ELSE IF ended = {} THEN Open("ready", pending)
        ELSE IF pending THEN Corrupted
        ELSE Terminal(implied, "inferred")
  BY DEF RecoverOpen, Latest
<1> HIDE DEF latest, ended, implied
<1>4. ~pending
  <2> SUFFICES ASSUME pending PROVE FALSE
    OBVIOUS
  <2> HIDE DEF pending
  <2> QED BY <1>1, <1>2, <1>3
<1> QED BY <1>2, <1>4

LEMMA DecisionSettles ==
  ASSUME HostInv, NEW s \in Sessions, LoadForCompletion(s), DecideOutcome(s, Head(queue[s])[2]),
         NEW o, o = Head(queue[s])[2]
  PROVE  o \in Ops /\ Settles(o)'
<1>1. o \in Ops /\ InRun(o)
  BY CompletesRun DEF HostInv
<1>2. Accepted(o)
  BY <1>1 DEF HostInv, EffectInv, EffectSafe, InRun
<1> DEFINE v == VerdictOf(o)
<1>3. (AtRest(v) /\ ~v.pending) \/ v.finalization = "inferred"
  BY DEF DecideOutcome
<1>4. v = RecoverOperation(journal[o], entries, ending)
  BY <1>2 DEF VerdictOf
<1>5. UNCHANGED <<journal, entries, ending>>
  BY RefusedEvidence DEF DecideOutcome
<1> HIDE DEF v
<1>6. Settles(o)'
  <2>1. Finished(o)' <=> Finished(o)
    BY <1>5 DEF Finished
  <2>2. Finished(o) \/ (~InputsPending(o) /\ ~Incomplete(o))
    BY <1>3, <1>4, NothingOwed DEF Finished, InputsPending, Incomplete
  <2>3. InputsPending(o)' <=> InputsPending(o)
    BY <1>5 DEF InputsPending
  <2>4. Incomplete(o)' <=> Incomplete(o)
    BY <1>5 DEF Incomplete
  <2> QED BY <2>1, <2>2, <2>3, <2>4 DEF Settles
<1> QED BY <1>1, <1>6

(* Only the driver of a run adds its completion, once the run is over. *)
LEMMA CompletionJoins ==
  ASSUME TypeInv, [Next]_vars, ~Crash, NEW s \in Sessions, NEW item \in Item,
         queue'[s] = Append(queue[s], item), item[1] = "complete"
  PROVE  owner'[item[2]] = s /\ Over(item[2])'
<1>1. queue \in [Sessions -> Seq(Item)]
  BY DEF TypeInv, TypeOK, SessionTypeOK
<1>2. queue'[s] # queue[s] /\ (queue[s] # <<>> => queue'[s] # Tail(queue[s]))
  <2> DEFINE q == queue[s]
  <2>1. q \in Seq(Item) /\ queue'[s] = Append(q, item)
    BY <1>1
  <2> HIDE DEF q
  <2>2. Len(queue'[s]) = Len(q) + 1 /\ Len(q) \in Nat /\ (q # <<>> => Len(Tail(q)) = Len(q) - 1)
    BY <2>1
  <2>3. queue'[s] # q /\ (q # <<>> => queue'[s] # Tail(q))
    BY <2>2
  <2> QED BY <2>3 DEF q
<1>3. ASSUME NEW t \in Sessions, NEW kind, Enqueue(t, <<kind, 0>>), kind # "complete" PROVE FALSE
  <2>1. t = s
    BY <1>1, <1>2, <1>3 DEF Enqueue
  <2>2. queue'[s] = Append(queue[s], <<kind, 0>>)
    BY <1>1, <1>3, <2>1 DEF Enqueue
  <2> DEFINE q == queue[s]
             n == Len(q)
  <2>3. q \in Seq(Item) /\ Append(q, item) = Append(q, <<kind, 0>>)
    BY <1>1, <2>2
  <2> HIDE DEF q
  <2>4. /\ n \in Nat /\ Append(q, item)[n + 1] = item
        /\ Append(q, <<kind, 0>>)[n + 1] = <<kind, 0>>
    BY <2>3
  <2>5. item = <<kind, 0>>
    BY <2>3, <2>4
  <2> QED BY <1>3, <2>5
<1>4. ASSUME UNCHANGED queue PROVE FALSE
  BY <1>2, <1>4
<1>5. ~UNCHANGED vars
  BY <1>4 DEF vars, sessionVars
<1>6. ASSUME NEW o \in Ops, RunAlone(o) PROVE FALSE
  BY <1>4, <1>6 DEF RunAlone, sessionVars
<1>7. ASSUME NEW o \in Ops, DriverStep(o) PROVE owner'[item[2]] = s /\ Over(item[2])'
  <2>1. SubmitCompletion(o)
    BY <1>4, <1>7 DEF DriverStep, StartAdmitted, AttachResource, sessionVars
  <2>2. owner[o] = s
    BY <1>1, <1>2, <2>1 DEF SubmitCompletion, Enqueue
  <2>3. queue'[s] = Append(queue[s], <<"complete", o>>)
    BY <1>1, <2>1, <2>2 DEF SubmitCompletion, Enqueue
  <2>4. item = <<"complete", o>>
    <3> DEFINE q == queue[s]
               n == Len(q)
    <3>1. q \in Seq(Item) /\ Append(q, item) = Append(q, <<"complete", o>>)
      BY <1>1, <2>3
    <3> HIDE DEF q
    <3>2. /\ n \in Nat /\ Append(q, item)[n + 1] = item
          /\ Append(q, <<"complete", o>>)[n + 1] = <<"complete", o>>
      BY <3>1
    <3> QED BY <3>1, <3>2
  <2>5. phase'[o] = "completing" /\ owner' = owner
    BY <2>1 DEF SubmitCompletion, Goes, TypeInv, TypeOK, RunTypeOK, operationVars
  <2> QED BY <2>2, <2>4, <2>5 DEF Over
<1>8. ASSUME NEW t \in Sessions, QueueStep(t) PROVE FALSE
  <2>1. Dequeue(t) /\ queue[t] # <<>>
    BY <1>4, <1>8
       DEF QueueStep, RejectPrompt, QueueInput, InputRefused, DeliverInput, LoadForPrompt,
           AdmitPrompt, AdmissionFails, LoadForCompletion, FinishOperation, LoadForCancel,
           AbortByCancel, CompletionUnreadable, ParkIndeterminate, SuspendPending,
           AlreadyFinished, DecideOutcome, Proceed, Serving
  <2>2. queue'[s] = queue[s] \/ (queue[s] # <<>> /\ queue'[s] = Tail(queue[s]))
    BY <1>1, <2>1 DEF Dequeue
  <2> QED BY <1>2, <2>2
<1>9. ASSUME NEW t \in Sessions, ClientStep(t) PROVE FALSE
  BY <1>3, <1>4, <1>9 DEF ClientStep, Prompt, CancelLive, CancelQueued, Close, sessionVars
<1>10. ASSUME NEW r \in Requests, OpenStep(r) PROVE FALSE
  BY <1>4, <1>10 DEF OpenStep, OpenLoad, OpenRefused, OpenAttach, OpenClaim, OpenFinalize,
                     OpenFails, OpenRegister, sessionVars
<1> QED BY <1>5, <1>6, <1>7, <1>8, <1>9, <1>10 DEF Next

LEMMA ActiveIsOwned ==
  ASSUME HostInv, CompletionInv, [Next]_vars, ~Crash, NEW s \in Sessions, active'[s] # 0
  PROVE  owner'[active'[s]] = s
<1>1. TypeInv /\ EffectInv
  BY DEF HostInv
<1>2. ASSUME active'[s] \in {0, active[s]} PROVE owner'[active'[s]] = s
  <2>1. active'[s] = active[s] /\ active[s] \in Ops
    BY <1>1, <1>2, ActiveOp
  <2>2. InRun(active[s]) /\ owner[active[s]] = s
    BY <2>1 DEF HostInv, RecoveryInv, ObjectSafe, CompletionInv, CompletionSafe
  <2> QED BY <1>1, <2>1, <2>2, OverStays
<1>3. ASSUME NEW t \in Sessions, AdmitPrompt(t) PROVE owner'[active'[s]] = s
  <2>1. PICK o \in Ops : active' = [active EXCEPT ![t] = o] /\ owner' = [owner EXCEPT ![o] = t]
    BY <1>3 DEF AdmitPrompt, Activate
  <2>2. CASE s = t
    BY <1>1, <2>1, <2>2 DEF TypeInv, TypeOK, SessionTypeOK
  <2>3. CASE s # t
    BY <1>1, <1>2, <2>1, <2>3 DEF TypeInv, TypeOK, SessionTypeOK
  <2> QED BY <2>2, <2>3
<1>4. ASSUME NEW t \in Sessions, QueueStep(t), ~AdmitPrompt(t) PROVE owner'[active'[s]] = s
  <2>1. CASE LoadForCompletion(t) \/ FinishOperation(t)
    <3>1. UNCHANGED active \/ \E o : Deactivate(t, o)
      BY <2>1 DEF LoadForCompletion, FinishOperation, CompletionUnreadable, ParkIndeterminate,
                  SuspendPending, AlreadyFinished, DecideOutcome
    <3>2. ASSUME NEW o, Deactivate(t, o) PROVE active'[s] \in {0, active[s]}
      BY <1>1, <3>2 DEF Deactivate, TypeInv, TypeOK, SessionTypeOK
    <3> QED BY <1>2, <3>1, <3>2
  <2>2. CASE ~LoadForCompletion(t) /\ ~FinishOperation(t)
    BY <1>2, <1>4, <2>2
       DEF QueueStep, RejectPrompt, QueueInput, InputRefused, DeliverInput, LoadForPrompt,
           AdmissionFails, LoadForCancel, AbortByCancel
  <2> QED BY <2>1, <2>2
<1>5. ASSUME UNCHANGED active PROVE owner'[active'[s]] = s
  BY <1>2, <1>5
<1>6. ASSUME NEW o \in Ops, RunAlone(o) \/ DriverStep(o) PROVE UNCHANGED active
  BY <1>6 DEF RunAlone, DriverStep, StartAdmitted, AttachResource, SubmitCompletion, sessionVars
<1>7. ASSUME NEW t \in Sessions, ClientStep(t) PROVE UNCHANGED active
  BY <1>7 DEF ClientStep, Prompt, CancelLive, CancelQueued, Close, sessionVars
<1>8. ASSUME NEW r \in Requests, OpenStep(r) PROVE UNCHANGED active
  BY <1>8 DEF OpenStep, OpenLoad, OpenRefused, OpenAttach, OpenClaim, OpenFinalize, OpenFails,
              OpenRegister, sessionVars
<1>9. UNCHANGED vars => UNCHANGED active
  BY DEF vars, sessionVars
<1> QED BY <1>3, <1>4, <1>5, <1>6, <1>7, <1>8, <1>9 DEF Next

(* Who decides an Operation has just read that nothing is owed. *)
LEMMA DecisionIsRead ==
  ASSUME HostInv, [Next]_vars, ~Crash, NEW s \in Sessions,
         work'[s].step = "finish", work'[s] # work[s]
  PROVE  /\ queue' = queue /\ queue[s] # <<>> /\ Head(queue[s]) = <<"complete", work'[s].op>>
         /\ Settles(work[s].op)'
<1>1. /\ work \in [Sessions -> Work] /\ queue \in [Sessions -> Seq(Item)]
  BY DEF HostInv, TypeInv, TypeOK, SessionTypeOK
<1>2. PICK t \in Sessions : QueueStep(t)
  BY DEF Next, vars, sessionVars, RunAlone, DriverStep, StartAdmitted, AttachResource,
         SubmitCompletion, ClientStep, Prompt, CancelLive, CancelQueued, Close, OpenStep, OpenLoad,
         OpenRefused, OpenAttach, OpenClaim, OpenFinalize, OpenFails, OpenRegister
<1>3. ~Dequeue(t)
  BY <1>1 DEF Dequeue, Idle, At
<1>4. \A leaf, op, input, v :
        /\ Proceed(t, At("preflight", leaf, op, input, v)) => FALSE
        /\ Proceed(t, At("deliver", leaf, op, input, v)) => FALSE
        /\ Proceed(t, At("abort", leaf, op, input, v)) => FALSE
  BY <1>1 DEF Proceed, At
<1>5. LoadForCompletion(t)
  BY <1>2, <1>3, <1>4 DEF QueueStep, RejectPrompt, QueueInput, InputRefused, DeliverInput,
     LoadForPrompt, AdmitPrompt, AdmissionFails, FinishOperation, LoadForCancel, AbortByCancel
<1>6. PICK o : o = Head(queue[t])[2]
  OBVIOUS
<1>7. DecideOutcome(t, o)
  BY <1>3, <1>5, <1>6 DEF LoadForCompletion, CompletionUnreadable, ParkIndeterminate,
                          SuspendPending, AlreadyFinished
<1>8. queue' = queue /\ \E v : work' = [work EXCEPT ![t] = At("finish", 0, o, 0, v)]
  BY <1>7 DEF DecideOutcome, Proceed
<1>9. s = t /\ work'[s].op = o
  BY <1>1, <1>8 DEF At
<1>10. queue[s] # <<>> /\ Head(queue[s])[1] = "complete"
  BY <1>5, <1>9 DEF LoadForCompletion, Serving
<1>11. Head(queue[s]) \in Item
  BY <1>1, <1>10
<1>12. Head(queue[s]) = <<"complete", o>>
  BY <1>6, <1>9, <1>10, <1>11 DEF Item
<1>13. Settles(o)'
  BY <1>5, <1>6, <1>7, DecisionSettles
<1>14. Settles(work[s].op)'
  BY <1>9, <1>13 DEF Settles, Finished, InputsPending, Incomplete
<1> QED BY <1>8, <1>9, <1>10, <1>12, <1>14

LEMMA CompletionKept ==
  ASSUME HostInv, CompletionInv, [Next]_vars
  PROVE  CompletionInv'
<1>1. CASE Crash
  BY <1>1 DEF Crash, HostLost, Idle, At, CompletionInv, CompletionSafe
<1>2. CASE ~Crash
  <2> SUFFICES ASSUME NEW s \in Sessions PROVE CompletionSafe(s)'
    BY DEF CompletionInv
  <2>1. /\ TypeInv /\ EffectInv /\ queue[s] \in Seq(Item) /\ CompletionSafe(s) /\ Known(work[s])
    BY DEF HostInv, TypeInv, TypeOK, SessionTypeOK, WorkKnown, CompletionInv
  <2>2. Waiting(s)
    BY <1>2, <2>1, EveryoneWaits
  <2>3. active'[s] # 0 => owner'[active'[s]] = s
    BY <1>2, ActiveIsOwned
  <2>4. ASSUME NEW item \in Item, Completes(s, item) PROVE Completes(s, item)'
    <3> SUFFICES ASSUME item[1] = "complete" PROVE owner'[item[2]] = s /\ Over(item[2])'
      BY DEF Completes
    <3>1. item[2] \in Ops /\ owner[item[2]] = s /\ Over(item[2])
      BY <2>4 DEF Completes, Item
    <3>2. InRun(item[2])
      BY <3>1 DEF Over, InRun
    <3> QED BY <1>2, <2>1, <3>1, <3>2, OverStays
  <2>5. ASSUME NEW k \in DOMAIN queue'[s] PROVE Completes(s, queue[s][k])'
    <3> DEFINE q == queue[s]
    <3>1. \/ \E j \in DOMAIN q : queue'[s][k] = q[j]
          \/ \E item \in Item : queue'[s] = Append(q, item) /\ queue'[s][k] = item
      <4>1. q \in Seq(Item) /\ Waiting(s)
        BY <2>1, <2>2
      <4>2. \/ queue'[s] = q
            \/ queue'[s] = Tail(q) /\ q # <<>>
            \/ \E item \in Item : queue'[s] = Append(q, item)
        BY <4>1 DEF Waiting
      <4> HIDE DEF q
      <4> QED BY <2>5, <4>1, <4>2
    <3>2. ASSUME NEW j \in DOMAIN queue[s], queue'[s][k] = queue[s][j]
          PROVE  Completes(s, queue[s][k])'
      <4>1. PICK item \in Item : item = queue[s][j]
        BY <2>1
      <4>2. Completes(s, item)
        BY <2>1, <4>1 DEF CompletionSafe
      <4> QED BY <2>4, <3>2, <4>1, <4>2 DEF Completes
    <3>3. ASSUME NEW item \in Item, queue'[s] = Append(queue[s], item), queue'[s][k] = item
          PROVE  Completes(s, queue[s][k])'
      BY <1>2, <2>1, <3>3, CompletionJoins DEF Completes
    <3> QED BY <3>1, <3>2, <3>3
  <2>6. ASSUME work'[s].step = "finish", work'[s] = work[s]
        PROVE  /\ queue'[s] # <<>> /\ Head(queue'[s]) = <<"complete", work'[s].op>>
               /\ Settles(work[s].op)'
    <3>1. PICK o \in Ops : o = work[s].op
      BY <2>1, <2>6 DEF Known
    <3>2. queue[s] # <<>> /\ Head(queue[s]) = <<"complete", o>> /\ Settles(o)
      BY <2>1, <2>6, <3>1 DEF CompletionSafe
    <3>3. Settles(o)'
      BY <1>2, <3>2, SettlesStays
    <3>4. Settles(work[s].op)'
      BY <2>6, <3>1, <3>3 DEF Settles, Finished, InputsPending, Incomplete
    <3>5. queue'[s] = queue[s] \/ \E item \in Item : queue'[s] = Append(queue[s], item)
      BY <2>2, <2>6 DEF Waiting, Idle, At
    <3>6. queue'[s] # <<>> /\ Head(queue'[s]) = Head(queue[s])
      BY <2>1, <3>2, <3>5
    <3> QED BY <2>6, <3>1, <3>2, <3>4, <3>6
  <2>7. ASSUME work'[s].step = "finish", work'[s] # work[s]
        PROVE  /\ queue'[s] # <<>> /\ Head(queue'[s]) = <<"complete", work'[s].op>>
               /\ Settles(work[s].op)'
    BY <1>2, <2>7, DecisionIsRead
  <2> QED BY <2>3, <2>5, <2>6, <2>7 DEF CompletionSafe
<1> QED BY <1>1, <1>2

(* A run writes no terminal record. *)
LEMMA RunFinishesNothing ==
  ASSUME TypeInv, NEW q \in Ops, RunStep(q), NEW o \in Ops, ~Finished(o)
  PROVE  ~Finished(o)'
<1>1. ASSUME journal' = journal PROVE ~Finished(o)'
  BY <1>1 DEF Finished
<1>2. CASE q # o
  BY <1>2, RunWritesOwn DEF SameEvidence, Finished
<1>3. CASE q = o
  <2>1. ASSUME NEW r \in Reply, SettleUsage(o, r) PROVE ~Finished(o)'
    <3>1. turn[o] \in Attempts
      BY <2>1 DEF SettleUsage, Goes, TypeInv, TurnKnown
    <3> QED BY <2>1, <3>1, NotFinishedBy, RecordTypes DEF SettleUsage, UsageSettled
  <2>2. CASE AttemptModel(o)
    <3>1. turn[o] + 1 \in Attempts
      BY <2>2, BoundsAssumption DEF AttemptModel, TypeInv, TypeOK, RunTypeOK, Attempts
    <3> QED BY <2>2, <3>1, NotFinishedBy, RecordTypes DEF AttemptModel, ModelAttempted
  <2>3. CASE DispatchTool(o) \/ LateDispatch(o)
    <3>1. turn[o] \in Attempts
      BY <2>3 DEF DispatchTool, LateDispatch, Goes, TypeInv, TurnKnown
    <3>2. Dispatch(o) \/ RecordRefused(o)
      BY <2>3 DEF DispatchTool, LateDispatch
    <3> QED BY <1>1, <3>1, <3>2, NotFinishedBy, RecordTypes, RefusedEvidence
            DEF Dispatch, ToolDispatched
  <2>4. CASE SettleRefused(o) \/ RefuseTool(o) \/ DispatchRefused(o) \/ ToolReturns(o)
             \/ LateExecute(o)
    BY <1>1, <2>4, RefusedEvidence
       DEF SettleRefused, RefuseTool, DispatchRefused, ToolReturns, LateExecute, persistenceVars
  <2>5. CASE LoopStep(o) /\ ~AttemptModel(o)
    BY <1>1, <2>5, RefusedEvidence
       DEF LoopStep, BuildAgent, BuildFails, StartRun, BeginLoop, InjectInput, InjectFails,
           AttemptRefused, DiscardReply, GiveUpRepair, CommitReply, CommitRefused,
           ExecuteTool, AbandonTool, PublishResult, PublishRefused, StopOnAbort, TakeInput,
           NextRequest, NothingLeft, ReachLimit, ReportFailure, FinishRun, AppendEntries,
           persistenceVars
  <2> QED BY <1>3, <2>1, <2>2, <2>3, <2>4, <2>5 DEF RunStep, ProviderStep, ToolStep, LateStep
<1> QED BY <1>2, <1>3

(* Who can finish an Operation. *)
LEMMA Finishers ==
  ASSUME TypeInv, EffectInv, [Next]_vars, NEW o \in Ops, ~Finished(o), Finished(o)'
  PROVE  \/ \E s \in Sessions : (FinishOperation(s) \/ AbortByCancel(s)) /\ work[s].op = o
         \/ \E r \in Requests : OpenFinalize(r)
<1>1. ASSUME UNCHANGED <<journal, entries, ending>> PROVE FALSE
  BY <1>1 DEF Finished
<1>2. ~UNCHANGED vars /\ ~Crash
  BY <1>1 DEF vars, persistenceVars, Crash
<1>3. \A q \in Ops : ~RunAlone(q)
  BY RunFinishesNothing DEF RunAlone
<1>4. \A q \in Ops : ~DriverStep(q)
  BY <1>1 DEF DriverStep, StartAdmitted, AttachResource, SubmitCompletion, persistenceVars
<1>5. \A s \in Sessions : ~ClientStep(s)
  BY <1>1 DEF ClientStep, Prompt, CancelLive, CancelQueued, Close, persistenceVars
<1>6. ASSUME NEW r \in Requests, OpenStep(r) PROVE OpenFinalize(r)
  BY <1>1, <1>6, RefusedEvidence
     DEF OpenStep, OpenLoad, OpenRefused, OpenAttach, OpenClaim, OpenFails, OpenRegister
<1>7. ASSUME NEW t \in Sessions, QueueStep(t)
      PROVE  (FinishOperation(t) \/ AbortByCancel(t)) /\ work[t].op = o
  <2>1. ASSUME SameEvidence(o) PROVE FALSE
    BY <2>1 DEF SameEvidence, Finished
  <2>2. CASE AdmitPrompt(t)
    <3>1. PICK q \in Ops : AdmitTransaction(q, work[t].leaf)
      BY <2>2 DEF AdmitPrompt
    <3>2. CASE q # o
      BY <2>1, <3>1, <3>2, AdmissionSparesOthers
    <3>3. CASE q = o
      <4>1. journal'[o] = <<OperationAccepted(o, InputEntry(o))>>
        BY <3>1, <3>3 DEF AdmitTransaction, TypeInv, TypeOK, PersistenceTypeOK
      <4> QED BY <4>1 DEF Finished, IsFinished, Of, OperationAccepted
    <3> QED BY <3>2, <3>3
  <2>3. CASE QueueInput(t)
    <3>1. active[t] \in Ops
      BY <2>3, ActiveOp DEF QueueInput
    <3>2. PICK i \in Inputs :
            AppendRecord(active[t], InputQueued(active[t], i, QueuedEntry(active[t], i)))
      BY <2>3 DEF QueueInput
    <3>3. CASE active[t] = o
      BY <3>1, <3>2, <3>3, NotFinishedBy, RecordTypes DEF InputQueued
    <3>4. CASE active[t] # o
      BY <2>1, <3>1, <3>2, <3>4, RecordSparesOthers, RecordTypes
    <3> QED BY <3>3, <3>4
  <2>4. CASE FinishOperation(t)
    <3>1. work[t].op \in Ops
      BY <2>4, CompletesRun
    <3>2. work[t].verdict \in Verdict
      BY DEF TypeInv, TypeOK, SessionTypeOK, Work
    <3>3. \/ AppendRecord(work[t].op,
               OperationFinished(work[t].op, TerminalOutcomeFor(work[t].op, work[t].verdict)))
          \/ RecordRefused(work[t].op)
      BY <2>4 DEF FinishOperation
    <3>4. work[t].op = o
      BY <1>1, <2>1, <3>1, <3>2, <3>3, RecordTypes, OutcomeOfCompletion, RecordSparesOthers,
         RefusedEvidence
    <3> QED BY <2>4, <3>4
  <2>5. CASE AbortByCancel(t)
    <3>1. work[t].op \in Ops
      BY <2>5 DEF AbortByCancel, Serving, TypeInv, WorkKnown, Known
    <3>2. \/ AppendRecord(work[t].op, OperationFinished(work[t].op, "aborted"))
          \/ RecordRefused(work[t].op)
      BY <2>5 DEF AbortByCancel
    <3>3. work[t].op = o
      BY <1>1, <2>1, <3>1, <3>2, RecordTypes, RecordSparesOthers, RefusedEvidence
         DEF TerminalOutcome
    <3> QED BY <2>5, <3>3
  <2>6. CASE LoadForCompletion(t)
    BY <1>1, <2>6, RefusedEvidence
       DEF LoadForCompletion, CompletionUnreadable, ParkIndeterminate, SuspendPending,
           AlreadyFinished, DecideOutcome
  <2>7. CASE InputRefused(t)
    BY <1>1, <2>7, ActiveOp, RefusedEvidence DEF InputRefused
  <2>8. CASE \/ RejectPrompt(t) \/ DeliverInput(t) \/ LoadForPrompt(t) \/ AdmissionFails(t)
             \/ LoadForCancel(t)
    BY <1>1, <2>8, RefusedEvidence
       DEF RejectPrompt, DeliverInput, LoadForPrompt, AdmissionFails, AdmitRefused, LoadForCancel
  <2> QED BY <1>7, <2>2, <2>3, <2>4, <2>5, <2>6, <2>7, <2>8 DEF QueueStep
<1> QED BY <1>2, <1>3, <1>4, <1>5, <1>6, <1>7 DEF Next

(* The ways in which an Operation that still owes something is closed.     *)
Owes(o) == InputsPending(o) \/ Incomplete(o)

(* Recovery says so, and leaves an unknown effect open. *)
ClosedAsInterrupted(o) ==
  /\ Lost(o) /\ ~Incomplete(o)
  /\ journal'[o][Len(journal'[o])].outcome = "interrupted"

(* The call its aborted run let go of was dispatched after the last read. *)
ClosedOverLateCall(o) ==
  /\ ~InputsPending(o) /\ abort[o]
  /\ \E s \in Sessions : FinishOperation(s) /\ work[s].op = o

(* A cancel that was queued before its admission, or a recovery, runs into *)
(* a live Operation; the latter only as in NoRecoveryWhileDriving.         *)
ClosedFromOutside(o) ==
  /\ ~Lost(o)
  /\ \/ \E s \in Sessions : AbortByCancel(s) /\ work[s].op = o
     \/ \E r \in Requests : OpenFinalize(r)

NothingLeftBehind ==
  \A o \in Ops : ~Finished(o) /\ Finished(o)' /\ Owes(o) =>
    ClosedAsInterrupted(o) \/ ClosedOverLateCall(o) \/ ClosedFromOutside(o)

LEMMA CompletionInvariant == Spec => [](HostInv /\ CompletionInv)
<1>1. Init => HostInv /\ CompletionInv
  <2>1. Init => HostInv
    BY TypesAtStart, EffectInvAtStart, JournalInvAtStart, RecoveryAtStart DEF HostInv
  <2>2. Init => CompletionInv
    BY DEF Init, SessionInit, Idle, At, CompletionInv, CompletionSafe
  <2> QED BY <2>1, <2>2
<1>2. HostInv /\ CompletionInv /\ [Next]_vars => HostInv' /\ CompletionInv'
  BY TypesKept, EffectInvKept, JournalsKept, DriversKept, RecoveryKept, CompletionKept DEF HostInv
<1> QED BY <1>1, <1>2, PTL DEF Spec

(***************************************************************************)
(* A terminal record closes over an accepted input that never reached the  *)
(* Session Journal, or over a tool without an outcome, in these ways only. *)
(* completeOperation itself loses no input, though the Session's prompts,  *)
(* cancels and completions share a queue with an await between the read    *)
(* and the write, and it leaves behind at most the call that an aborted    *)
(* run no longer waits for.                                                *)
(***************************************************************************)
THEOREM CompletionLosesNothing == Spec => [][NothingLeftBehind]_vars
<1>1. HostInv /\ CompletionInv /\ [Next]_vars => [NothingLeftBehind]_vars
  <2> SUFFICES ASSUME HostInv, CompletionInv, [Next]_vars, NEW o \in Ops,
                      ~Finished(o), Finished(o)', Owes(o)
               PROVE  ClosedAsInterrupted(o) \/ ClosedOverLateCall(o) \/ ClosedFromOutside(o)
    BY DEF NothingLeftBehind
  <2>1. TypeInv /\ EffectInv /\ RecoveryInv
    BY DEF HostInv
  <2>2. CASE Lost(o)
    <3>1. ~Crash
      BY DEF Crash, persistenceVars, Finished
    <3>2. PICK r \in Requests : Recovers(r, o)
      BY <2>1, <2>2, <3>1, LostKept DEF SameEvidence, Finished
    <3>3. PICK v \in Verdict : v = VerdictOf(o) /\ found[r][o] = v
      BY <2>1, <2>2, <3>2, VerdictType DEF Recovers, TypeInv, TypeOK, RecoveryInv, FoundHolds
    <3>4. Finalizable(v) /\ AppendRecord(o, OperationFinished(o, RecoveredOutcome(v)))
      BY <3>2, <3>3 DEF Recovers
    <3>5. v = RecoverOperation(journal[o], entries, ending)
      BY <2>1, <2>2, <3>3 DEF VerdictOf, Lost, EffectInv, EffectSafe
    <3>6. v.finalization # "inferred"
      BY <3>5, NothingOwed DEF Finished, Owes, InputsPending, Incomplete
    <3>7. ~Incomplete(o)
      BY <3>4, <3>5, OpenVerdict DEF Explains, Incomplete, Finished
    <3>8. journal'[o][Len(journal'[o])].outcome = "interrupted"
      <4> DEFINE record == OperationFinished(o, "interrupted")
      <4>1. record \in Record /\ record.outcome = "interrupted" /\ AppendRecord(o, record)
        BY <3>4, <3>6, RecordTypes DEF RecoveredOutcome, OperationFinished, TerminalOutcome
      <4> HIDE DEF record
      <4>2. journal'[o][Len(journal'[o])] = record
        BY <2>1, <4>1, AppendShape
      <4> QED BY <4>1, <4>2
    <3> QED BY <2>2, <3>7, <3>8 DEF ClosedAsInterrupted
  <2>3. ASSUME ~Lost(o), NEW s \in Sessions, FinishOperation(s), work[s].op = o
        PROVE  ClosedOverLateCall(o)
    <3>1. Settles(o)
      BY <2>3 DEF FinishOperation, Serving, CompletionInv, CompletionSafe
    <3> QED BY <2>3, <3>1 DEF Settles, Owes, ClosedOverLateCall
  <2>4. \/ \E s \in Sessions : (FinishOperation(s) \/ AbortByCancel(s)) /\ work[s].op = o
        \/ \E r \in Requests : OpenFinalize(r)
    BY <2>1, Finishers
  <2>5. CASE ~Lost(o)
    <3>1. ASSUME NEW s \in Sessions, AbortByCancel(s), work[s].op = o PROVE ClosedFromOutside(o)
      BY <2>5, <3>1 DEF ClosedFromOutside
    <3>2. (\E r \in Requests : OpenFinalize(r)) => ClosedFromOutside(o)
      BY <2>5 DEF ClosedFromOutside
    <3> QED BY <2>3, <2>4, <2>5, <3>1, <3>2
  <2> QED BY <2>2, <2>5
<1> QED BY <1>1, CompletionInvariant, PTL DEF Spec
=============================================================================
