------------------------- MODULE MCOperationRecovery -------------------------
(* Every short journal of one Operation. *)
EXTENDS OperationJournal, TLC

(* One entry is a reply that ends the Operation, the other is not. *)
ReplyEndings == "a" :> NoOutcome @@ "b" :> "failed"
=============================================================================
