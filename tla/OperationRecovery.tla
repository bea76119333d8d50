------------------------- MODULE OperationRecovery -------------------------
(***************************************************************************)
(* The Operation Journal of one Session and the pure reducer that turns    *)
(* the durable records of one Operation, plus the evidence found in the    *)
(* Session Journal, into the only recovery verdict the Runtime Host may    *)
(* act on (packages/agent/src/harness/operations/recovery.ts).             *)
(*                                                                         *)
(* Records and verdicts keep the fields the reducer tells apart: texts,    *)
(* timestamps, tool names and argument hashes are left out.                *)
(***************************************************************************)
EXTENDS Naturals, Sequences

(* Every way an Operation can end. *)
TerminalOutcome == {"completed", "failed", "aborted", "blocked", "interrupted"}

NoOutcome == "none"

(***************************************************************************)
(* Records.  An identifier the code mints (attempt, tool call, queued      *)
(* input, journal entry) is any value.                                     *)
(***************************************************************************)
OperationAccepted(op, inputEntry) ==
  [type |-> "operation_accepted", op |-> op, entry |-> inputEntry]

ModelAttempted(op, attempt, assistantEntry) ==
  [type |-> "model_attempted", op |-> op, id |-> attempt, entry |-> assistantEntry]

UsageSettled(op, attempt) ==
  [type |-> "usage_settled", op |-> op, id |-> attempt]

ToolDispatched(op, call, assistantEntry, resultEntry) ==
  [type |-> "tool_dispatched", op |-> op, id |-> call,
   assistant |-> assistantEntry, entry |-> resultEntry]

InputQueued(op, input, inputEntry) ==
  [type |-> "input_queued", op |-> op, id |-> input, entry |-> inputEntry]

OperationFinished(op, outcome) ==
  [type |-> "operation_finished", op |-> op, outcome |-> outcome]

(* The positions of the records of one type. *)
Of(records, type) == {i \in DOMAIN records : records[i].type = type}

(* Is there a terminal record? *)
IsFinished(records) == Of(records, "operation_finished") # {}

(* Variant: a store that forgets the terminal record. *)
AppendAllowedOnceAccepted(records) ==
  /\ records # <<>>
  /\ records[1].type = "operation_accepted"

(***************************************************************************)
(* assertOperationAppend: the only check a store makes before it appends   *)
(* a record other than operation_accepted.                                 *)
(***************************************************************************)
OperationAppendAllowed(records) ==
  /\ records # <<>>
  /\ records[1].type = "operation_accepted"
  /\ ~IsFinished(records)

(***************************************************************************)
(* The corruption checks of the record loop.                               *)
(***************************************************************************)
RepeatsId(records, type) ==
  \E i, j \in Of(records, type) : i < j /\ records[i].id = records[j].id

RepeatsEntry(records, type) ==
  \E i, j \in Of(records, type) : i < j /\ records[i].entry = records[j].entry

AttemptsBefore(records, i) ==
  {records[j] : j \in {k \in Of(records, "model_attempted") : k < i}}

SettlesUnknownAttempt(records) ==
  \E i \in Of(records, "usage_settled") :
    records[i].id \notin {a.id : a \in AttemptsBefore(records, i)}

DispatchesUnknownReply(records, durable) ==
  \E i \in Of(records, "tool_dispatched") :
    \/ records[i].assistant \notin {a.entry : a \in AttemptsBefore(records, i)}
    \/ records[i].assistant \notin durable

Malformed(records, durable) ==
  \/ records = <<>>
  \/ records[1].type # "operation_accepted"
  \/ records[1].entry \notin durable
  \/ \E i \in DOMAIN records : records[i].op # records[1].op
  \/ \E i \in Of(records, "operation_accepted") : i # 1
  \/ \E i \in Of(records, "operation_finished") : i # Len(records)
  \/ RepeatsId(records, "model_attempted")
  \/ RepeatsId(records, "usage_settled")
  \/ SettlesUnknownAttempt(records)
  \/ RepeatsId(records, "tool_dispatched")
  \/ RepeatsEntry(records, "tool_dispatched")
  \/ DispatchesUnknownReply(records, durable)
  \/ RepeatsId(records, "input_queued")
  \/ RepeatsEntry(records, "input_queued")

(***************************************************************************)
(* Verdicts.  "pending" says whether accepted inputs still wait for their  *)
(* Session Journal entry; "finalization" whether the outcome is a durable  *)
(* record or inferred from the last assistant message.                     *)
(***************************************************************************)
VerdictStatus ==
  {"none", "corrupted", "indeterminate_tool", "provider_interrupted", "ready",
   "terminal"}

Verdict ==
  [status : VerdictStatus \ {"terminal"}, pending : BOOLEAN,
   outcome : {NoOutcome}, finalization : {"none"}]
    \cup [status : {"terminal"}, pending : {FALSE},
          outcome : TerminalOutcome, finalization : {"durable", "inferred"}]

Open(status, pending) ==
  [status |-> status, pending |-> pending, outcome |-> NoOutcome,
   finalization |-> "none"]

Terminal(outcome, finalization) ==
  [status |-> "terminal", pending |-> FALSE, outcome |-> outcome,
   finalization |-> finalization]

Corrupted == Open("corrupted", FALSE)

(* No record of the Operation was ever written. *)
NoVerdict == Open("none", FALSE)

(* Dispatched tools whose T2 result entry is not durable. *)
IncompleteDispatches(records, durable) ==
  {i \in Of(records, "tool_dispatched") : records[i].entry \notin durable}

(* Accepted inputs whose Session Journal entry is not durable. *)
PendingInputs(records, durable) ==
  {i \in Of(records, "input_queued") : records[i].entry \notin durable}

(* Variant: the first attempt of the map instead of the last. *)
IsFirstAttempt(records, i) ==
  /\ i \in Of(records, "model_attempted")
  /\ \A j \in Of(records, "model_attempted") : i <= j

IsLatestAttempt(records, i) ==
  /\ i \in Of(records, "model_attempted")
  /\ \A j \in Of(records, "model_attempted") : j <= i

(***************************************************************************)
(* recoverOperation.  "durable" is evidence.sessionEntryIds, "ending" is   *)
(* evidence.terminalOutcomeByAssistantEntryId, with NoOutcome for an       *)
(* assistant entry that leaves the Operation open.                         *)
(***************************************************************************)
RecoverOpen(records, durable, ending) ==
  LET pending == PendingInputs(records, durable) # {}
      latest  == {records[i].entry : i \in {j \in DOMAIN records : IsLatestAttempt(records, j)}}
      ended   == {e \in latest : ending[e] # NoOutcome}
  IN  IF latest \ durable # {} THEN Open("provider_interrupted", pending)
      ELSE IF ended = {} THEN Open("ready", pending)
      ELSE IF pending THEN Corrupted
      ELSE Terminal(ending[CHOOSE e \in ended : TRUE], "inferred")

RecoverFinished(records, durable) ==
  LET outcome == records[Len(records)].outcome
  IN  IF \/ IncompleteDispatches(records, durable) # {}
         \/ PendingInputs(records, durable) # {} /\ outcome # "interrupted"
      THEN Corrupted
      ELSE Terminal(outcome, "durable")

RecoverOperation(records, durable, ending) ==
  IF Malformed(records, durable) THEN Corrupted
  ELSE IF IsFinished(records) THEN RecoverFinished(records, durable)
  ELSE IF IncompleteDispatches(records, durable) # {} THEN Open("indeterminate_tool", FALSE)
  ELSE RecoverOpen(records, durable, ending)

(***************************************************************************)
(* What a fresh Host may write for an Operation that nobody drives         *)
(* (finalizeRecoveredOperations): the outcome of a durable last reply, or  *)
(* "interrupted" where only input or a model request was lost.             *)
(***************************************************************************)
(* Variant: everything that has no terminal record yet. *)
FinalizableUnlessDurable(verdict) ==
  verdict.status \notin {"none", "corrupted"} /\ verdict.finalization # "durable"

Finalizable(verdict) ==
  \/ verdict.finalization = "inferred"
  \/ verdict.status \in {"ready", "provider_interrupted"}

RecoveredOutcome(verdict) ==
  IF verdict.finalization = "inferred" THEN verdict.outcome ELSE "interrupted"
=============================================================================
