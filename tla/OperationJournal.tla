-------------------------- MODULE OperationJournal --------------------------
(***************************************************************************)
(* The recovery reducer over every Operation Journal that a store can      *)
(* hold: arbitrary records behind the store's own append check, and        *)
(* entries that become durable in any order.  The reducer is compared with *)
(* the loop of recovery.ts read literally, one record at a time.           *)
(***************************************************************************)
EXTENDS OperationRecovery

CONSTANTS
  Id,          \* attempts, tool calls and queued inputs
  Entries,     \* Session Journal entries
  Ending,      \* the outcome an entry implies when it is a reply
  MaxRecords   \* records of the journal (bound)

(* evidence.terminalOutcomeByAssistantEntryId, total: NoOutcome where the  *)
(* map of the code has no value.                                           *)
ASSUME EndingAssumption ==
  Ending \in [Entries -> TerminalOutcome \cup {NoOutcome}]

VARIABLES records, durable

vars == <<records, durable>>

(* Records of Operation "o", and one of another Operation. *)
Rows ==
  {OperationAccepted("o", e) : e \in Entries}
    \cup {ModelAttempted("o", i, e) : i \in Id, e \in Entries}
    \cup {UsageSettled("o", i) : i \in Id}
    \cup {ToolDispatched("o", i, a, e) : i \in Id, a \in Entries, e \in Entries}
    \cup {InputQueued("o", i, e) : i \in Id, e \in Entries}
    \cup {OperationFinished("o", out) : out \in {"completed", "interrupted"}}
    \cup {OperationFinished("other", "failed")}

(* A store may hold one stray row, or nothing, before anything is appended. *)
Init ==
  /\ records \in {<<>>} \cup {<<r>> : r \in Rows}
  /\ durable \in SUBSET Entries

(* assertOperationAppend refuses an acceptance, and judges a record by the *)
(* records of its own Operation.                                           *)
Write ==
  /\ Len(records) < MaxRecords
  /\ OperationAppendAllowed(records)
  /\ \E r \in Rows : /\ r.type # "operation_accepted"
                      /\ r.op = records[1].op
                      /\ records' = Append(records, r)
  /\ UNCHANGED durable

MakeDurable ==
  /\ \E e \in Entries \ durable : durable' = durable \cup {e}
  /\ UNCHANGED records

Next == Write \/ MakeDurable

Spec == Init /\ [][Next]_vars

-----------------------------------------------------------------------------
(* The loop of recoverOperation: its collections before the second record, *)
(* the returns of one iteration, and what an iteration that does not       *)
(* return collects.                                                        *)
Start ==
  [bad |-> FALSE, attempts |-> <<>>, settled |-> {}, calls |-> {},
   results |-> {}, ids |-> {}, inputs |-> {}, terminal |-> NoOutcome]

Rejects(c, r, operation, evidence) ==
  \/ c.bad
  \/ r.op # operation
  \/ c.terminal # NoOutcome
  \/ r.type = "operation_accepted"
  \/ r.type = "model_attempted" /\ \E k \in DOMAIN c.attempts : c.attempts[k].id = r.id
  \/ /\ r.type = "usage_settled"
     /\ r.id \in c.settled \/ \A k \in DOMAIN c.attempts : c.attempts[k].id # r.id
  \/ /\ r.type = "tool_dispatched"
     /\ \/ \A k \in DOMAIN c.attempts : c.attempts[k].entry # r.assistant
        \/ r.assistant \notin evidence
        \/ r.id \in c.calls
        \/ r.entry \in c.results
  \/ r.type = "input_queued" /\ (r.id \in c.ids \/ r.entry \in c.inputs)

Collect(c, r) ==
  CASE r.type = "model_attempted" -> [c EXCEPT !.attempts = Append(@, r)]
    [] r.type = "usage_settled"   -> [c EXCEPT !.settled = @ \cup {r.id}]
    [] r.type = "tool_dispatched" ->
         [c EXCEPT !.calls = @ \cup {r.id}, !.results = @ \cup {r.entry}]
    [] r.type = "input_queued"    ->
         [c EXCEPT !.ids = @ \cup {r.id}, !.inputs = @ \cup {r.entry}]
    [] OTHER                      -> [c EXCEPT !.terminal = r.outcome]

Iterate(c, r, operation, evidence) ==
  IF Rejects(c, r, operation, evidence) THEN [c EXCEPT !.bad = TRUE] ELSE Collect(c, r)

(* The collections after each record; the first one only names the Operation. *)
Collections(rows, evidence) ==
  LET after[n \in DOMAIN rows] ==
        IF n = 1 THEN Start ELSE Iterate(after[n - 1], rows[n], rows[1].op, evidence)
  IN  after

(* What the code concludes from the collections of the whole journal. *)
Conclude(c, evidence) ==
  LET incomplete == ~(c.results \subseteq evidence)
      pending == ~(c.inputs \subseteq evidence)
      latest == c.attempts[Len(c.attempts)].entry
  IN  IF c.bad THEN Corrupted
      ELSE IF incomplete
        THEN IF c.terminal # NoOutcome THEN Corrupted ELSE Open("indeterminate_tool", FALSE)
      ELSE IF c.terminal # NoOutcome
        THEN IF pending /\ c.terminal # "interrupted" THEN Corrupted
             ELSE Terminal(c.terminal, "durable")
      ELSE IF c.attempts # <<>> /\ latest \notin evidence
        THEN Open("provider_interrupted", pending)
      ELSE IF c.attempts # <<>> /\ Ending[latest] # NoOutcome
        THEN IF pending THEN Corrupted ELSE Terminal(Ending[latest], "inferred")
      ELSE Open("ready", pending)

Loop(rows, evidence) ==
  IF rows = <<>> \/ rows[1].type # "operation_accepted" \/ rows[1].entry \notin evidence
  THEN Corrupted
  ELSE Conclude(Collections(rows, evidence)[Len(rows)], evidence)

-----------------------------------------------------------------------------
VerdictNow == RecoverOperation(records, durable, Ending)

(***************************************************************************)
(* The reducer of the model is the loop of the code, on every journal a    *)
(* store accepts and on every such journal with one row too many.          *)
(***************************************************************************)
ReducerIsLoop ==
  /\ VerdictNow = Loop(records, durable)
  /\ \A r \in Rows :
       RecoverOperation(Append(records, r), durable, Ending) = Loop(Append(records, r), durable)

(***************************************************************************)
(* A terminal record written for what the reducer calls finalizable, or    *)
(* for a run that completed with no input left, is accepted by the store   *)
(* and reads back as exactly that outcome: recovery is idempotent.         *)
(***************************************************************************)
ReadsBack(outcome) ==
  /\ OperationAppendAllowed(records)
  /\ RecoverOperation(Append(records, OperationFinished("o", outcome)), durable, Ending)
       = Terminal(outcome, "durable")

RecoveryIsIdempotent ==
  /\ Finalizable(VerdictNow) => ReadsBack(RecoveredOutcome(VerdictNow))
  /\ VerdictNow.status \in {"ready", "provider_interrupted"} /\ ~VerdictNow.pending
       => \A outcome \in TerminalOutcome : ReadsBack(outcome)

(***************************************************************************)
(* Once the reducer reports a durable outcome, nothing a writer can still  *)
(* do changes the verdict.                                                 *)
(***************************************************************************)
DurableVerdictIsFinal ==
  [][VerdictNow.finalization = "durable" => VerdictNow' = VerdictNow]_vars
=============================================================================
