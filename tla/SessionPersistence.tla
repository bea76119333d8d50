------------------------- MODULE SessionPersistence -------------------------
(***************************************************************************)
(* Product Session Persistence of one Session: the Operation Journal, the  *)
(* entries of the Session Journal's current branch, and the revision that  *)
(* orders entry appends (app/server/src/persistence/sqlite and             *)
(* app/server/src/sessions).  Every mutation is one transaction, so one    *)
(* step.  An entry append is conditional on the revision its writer last   *)
(* saw; a record append is not.                                            *)
(*                                                                         *)
(* Every entry moves the leaf and takes a new revision, so the number of   *)
(* entries stands for both.  Entries nobody names (refused tools, error    *)
(* messages) only count.  Navigation and retry, which leave entries on     *)
(* another branch, are not part of this module.                            *)
(***************************************************************************)
EXTENDS OperationRecovery

CONSTANTS
  MaxOps,        \* prompts the Session can accept
  MaxAttempts,   \* model attempts of one Operation
  MaxInputs,     \* mid-run inputs of one Operation
  MaxFaults      \* reads and writes the database may refuse

ASSUME BoundsAssumption ==
  /\ MaxOps \in Nat \ {0}
  /\ MaxAttempts \in Nat \ {0}
  /\ MaxInputs \in Nat
  /\ MaxFaults \in Nat

VARIABLES
  journal,    \* journal[o]: durable records of Operation o, in order
  entries,    \* identified entries of the current branch
  ending,     \* terminal outcome an assistant entry implies, if any
  revision,   \* entries appended so far
  faults      \* database failures so far (bound)

persistenceVars == <<journal, entries, ending, revision, faults>>

Ops == 1..MaxOps
Attempts == 1..MaxAttempts
Inputs == 1..MaxInputs

(***************************************************************************)
(* Entry ids: the prompt's is derived from the operation id, the others    *)
(* are minted and made durable in the record that reserves them.           *)
(***************************************************************************)
InputEntry(o) == <<"input", o, 0>>
QueuedEntry(o, i) == <<"queued", o, i>>
AssistantEntry(o, t) == <<"assistant", o, t>>
ResultEntry(o, t) == <<"result", o, t>>

AssistantEntries == {"assistant"} \X Ops \X Attempts

Entry ==
  ({"input"} \X Ops \X {0}) \cup ({"queued"} \X Ops \X Inputs)
    \cup AssistantEntries \cup ({"result"} \X Ops \X Attempts)

Record ==
  [type : {"operation_accepted"}, op : Ops, entry : Entry]
    \cup [type : {"model_attempted"}, op : Ops, id : Attempts, entry : AssistantEntries]
    \cup [type : {"usage_settled"}, op : Ops, id : Attempts]
    \cup [type : {"tool_dispatched"}, op : Ops, id : Attempts,
         assistant : AssistantEntries, entry : Entry]
    \cup [type : {"input_queued"}, op : Ops, id : Inputs, entry : Entry]
    \cup [type : {"operation_finished"}, op : Ops, outcome : TerminalOutcome]

Accepted(o) == journal[o] # <<>>
Finished(o) == IsFinished(journal[o])

PersistenceTypeOK ==
  /\ journal \in [Ops -> Seq(Record)]
  /\ entries \in SUBSET Entry
  /\ ending \in [AssistantEntries -> TerminalOutcome \cup {NoOutcome}]
  /\ revision \in Nat
  /\ faults \in 0..MaxFaults

PersistenceInit ==
  /\ journal = [o \in Ops |-> <<>>]
  /\ entries = {}
  /\ ending = [e \in AssistantEntries |-> NoOutcome]
  /\ revision = 0
  /\ faults = 0

(***************************************************************************)
(* The database refuses: a read or a write fails and leaves nothing.       *)
(***************************************************************************)
DatabaseFails ==
  /\ faults < MaxFaults
  /\ faults' = faults + 1
  /\ UNCHANGED <<journal, entries, ending, revision>>

(***************************************************************************)
(* appendOperation: the record is durable, or the caller gets an error.    *)
(***************************************************************************)
(* Variant: the check without the terminal record. *)
MayAppendToAny(o) == Accepted(o)

MayAppendTo(o) == OperationAppendAllowed(journal[o])

AppendRecord(o, record) ==
  /\ MayAppendTo(o)
  /\ journal' = [journal EXCEPT ![o] = Append(@, record)]
  /\ UNCHANGED <<entries, ending, revision, faults>>

RecordRefused(o) ==
  \/ ~MayAppendTo(o) /\ UNCHANGED persistenceVars
  \/ DatabaseFails

(***************************************************************************)
(* appendEntry by a writer that last saw revision "held".                  *)
(***************************************************************************)
RevisionMatches(held) == held = revision

AppendEntries(new, held) ==
  /\ RevisionMatches(held)
  /\ entries' = entries \cup new
  /\ revision' = revision + 1
  /\ UNCHANGED <<journal, faults>>

EntryRefused(held) ==
  \/ ~RevisionMatches(held) /\ UNCHANGED persistenceVars
  \/ DatabaseFails

(***************************************************************************)
(* admitPrompt: the input entry and operation_accepted in one transaction, *)
(* on the leaf the caller loaded.                                          *)
(***************************************************************************)
AdmitTransaction(o, leaf) ==
  /\ RevisionMatches(leaf)
  /\ journal' = [journal EXCEPT ![o] = <<OperationAccepted(o, InputEntry(o))>>]
  /\ entries' = entries \cup {InputEntry(o)}
  /\ revision' = revision + 1
  /\ UNCHANGED <<ending, faults>>

AdmitRefused(leaf) == EntryRefused(leaf)

(***************************************************************************)
(* recoverDurableState: the verdict on every Operation of the Session.     *)
(* One corrupted Operation makes the whole Session unreadable.             *)
(***************************************************************************)
VerdictOf(o) ==
  IF Accepted(o) THEN RecoverOperation(journal[o], entries, ending) ELSE NoVerdict

Verdicts == [o \in Ops |-> VerdictOf(o)]

Unreadable(verdicts) == \E o \in Ops : verdicts[o].status = "corrupted"

Settled(verdict) == verdict.status \in {"none", "terminal"}
=============================================================================
