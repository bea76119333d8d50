---------------------------- MODULE ReducerSafety ----------------------------
(***************************************************************************)
(* The recovery reducer on journals of every length.  The loop of the code *)
(* keeps collections; by induction on the position they hold exactly what  *)
(* the reducer reads off the rows before it, so that the reducer and the   *)
(* loop reach the same verdict.  On top of it: a recovered outcome reads   *)
(* back as what was written, and a durable verdict never changes.          *)
(***************************************************************************)
EXTENDS OperationJournal, Integers, WellFoundedInduction, TLAPS

(* Every set of naturals that is not empty has a least element. *)
LEMMA LeastNat ==
  ASSUME NEW T \in SUBSET Nat, T # {}
  PROVE  \E x \in T : \A y \in T : x <= y
<1> DEFINE R == OpToRel(<, Nat)
<1>1. IsWellFoundedOn(R, Nat)
  BY NatLessThanWellFounded, Zenon
<1>2. \A x, y \in Nat : x < y => <<x, y>> \in R
  BY DEF OpToRel
<1> HIDE DEF R
<1>3. PICK x \in T : \A y \in T : <<y, x>> \notin R
  BY <1>1, WFMin
<1>4. ASSUME NEW y \in T PROVE x <= y
  <2>1. x \in Nat /\ y \in Nat /\ ~(y < x)
    BY <1>2, <1>3
  <2> QED BY <2>1
<1> QED BY <1>4

(* Induction along 1..n, on the set of the positions that are reached. *)
LEMMA Along ==
  ASSUME NEW n \in Nat, NEW S,
         1 \in S,
         \A m \in 1..n : m \in S /\ m + 1 <= n => m + 1 \in S
  PROVE  1..n \subseteq S
<1> SUFFICES ASSUME NEW p \in 1..n, p \notin S
             PROVE  FALSE
  OBVIOUS
<1>1. PICK x \in (1..n) \ S : \A y \in (1..n) \ S : x <= y
  <2>1. (1..n) \ S \in SUBSET Nat
    OBVIOUS
  <2> QED BY <2>1, LeastNat
<1>2. x # 1 /\ x - 1 \in 1..n /\ (x - 1) + 1 = x
  BY <1>1
<1> QED BY <1>1, <1>2

-----------------------------------------------------------------------------
(* The collections exist: every iteration follows from the one before. *)
Follows(f, rows, evidence, n) ==
  f = [m \in 1..n |->
         IF m = 1 THEN Start ELSE Iterate(f[m - 1], rows[m], rows[1].op, evidence)]

LEMMA PrefixExists ==
  ASSUME NEW n \in Nat, n >= 1, NEW rows, NEW evidence
  PROVE  \E f : Follows(f, rows, evidence, n)
<1> DEFINE S == {m \in Nat : \E f : Follows(f, rows, evidence, m)}
<1>1. 1 \in S
  <2> DEFINE f == [m \in 1..1 |-> Start]
  <2>1. Follows(f, rows, evidence, 1)
    BY DEF Follows
  <2> QED BY <2>1
<1>2. ASSUME NEW m \in 1..n, m \in S
      PROVE  m + 1 \in S
  <2>1. PICK f : Follows(f, rows, evidence, m)
    BY <1>2
  <2> DEFINE g == [k \in 1..(m + 1) |->
                     IF k = m + 1 THEN Iterate(f[m], rows[m + 1], rows[1].op, evidence) ELSE f[k]]
  <2>2. ASSUME NEW k \in 1..(m + 1)
        PROVE  g[k] = IF k = 1 THEN Start ELSE Iterate(g[k - 1], rows[k], rows[1].op, evidence)
    <3>1. CASE k = m + 1
      <4>1. k # 1 /\ k - 1 = m /\ g[m] = f[m]
        BY <3>1
      <4> QED BY <3>1, <4>1
    <3>2. CASE k # m + 1
      <4>1. k \in 1..m /\ g[k] = f[k] /\ (k # 1 => k - 1 \in 1..m /\ g[k - 1] = f[k - 1])
        BY <3>2
      <4> QED BY <2>1, <4>1 DEF Follows
    <3> QED BY <3>1, <3>2
  <2>3. Follows(g, rows, evidence, m + 1)
    BY <2>2 DEF Follows
  <2> QED BY <2>3
<1> HIDE DEF S
<1>3. 1..n \subseteq S
  BY <1>1, <1>2, Along
<1> QED BY <1>3 DEF S

LEMMA CollectionsFollow ==
  ASSUME NEW Row, NEW rows \in Seq(Row), rows # <<>>, NEW evidence
  PROVE  LET c == Collections(rows, evidence)
         IN  /\ c[1] = Start
             /\ \A n \in 2..Len(rows) :
                  c[n] = Iterate(c[n - 1], rows[n], rows[1].op, evidence)
<1>1. Len(rows) \in Nat /\ Len(rows) >= 1 /\ DOMAIN rows = 1..Len(rows)
  OBVIOUS
<1>2. PICK f : Follows(f, rows, evidence, Len(rows))
  BY <1>1, PrefixExists
<1> DEFINE c == Collections(rows, evidence)
<1>3. c = [m \in DOMAIN rows |->
             IF m = 1 THEN Start ELSE Iterate(c[m - 1], rows[m], rows[1].op, evidence)]
  BY <1>1, <1>2 DEF Collections, Follows
<1> HIDE DEF c
<1>4. \A n \in 2..Len(rows) : n \in DOMAIN rows /\ n # 1
  BY <1>1
<1>5. 1 \in DOMAIN rows
  BY <1>1
<1>6. c[1] = Start
  BY <1>3, <1>5
<1>7. \A n \in 2..Len(rows) : c[n] = Iterate(c[n - 1], rows[n], rows[1].op, evidence)
  BY <1>3, <1>4
<1> QED BY <1>6, <1>7 DEF c

-----------------------------------------------------------------------------
(* A row of any Operation, over any identifiers and entries. *)
Row(operations) ==
  {OperationAccepted(o, e) : o \in operations, e \in Entries}
    \cup {ModelAttempted(o, i, e) : o \in operations, i \in Id, e \in Entries}
    \cup {UsageSettled(o, i) : o \in operations, i \in Id}
    \cup {ToolDispatched(o, i, a, e) : o \in operations, i \in Id, a \in Entries, e \in Entries}
    \cup {InputQueued(o, i, e) : o \in operations, i \in Id, e \in Entries}
    \cup {OperationFinished(o, out) : o \in operations, out \in TerminalOutcome}

RowType ==
  {"operation_accepted", "model_attempted", "usage_settled", "tool_dispatched",
   "input_queued", "operation_finished"}

LEMMA RowFields ==
  ASSUME NEW operations, NEW r \in Row(operations)
  PROVE  /\ r.type \in RowType
         /\ r.type \in {"model_attempted", "usage_settled", "tool_dispatched", "input_queued"}
              => r.id \in Id
         /\ r.type \in {"operation_accepted", "model_attempted", "tool_dispatched", "input_queued"}
              => r.entry \in Entries
         /\ r.type = "operation_finished" => r.outcome \in TerminalOutcome
<1>1. CASE r \in {OperationAccepted(o, e) : o \in operations, e \in Entries}
  BY <1>1 DEF OperationAccepted, RowType
<1>2. CASE r \in {ModelAttempted(o, i, e) : o \in operations, i \in Id, e \in Entries}
  BY <1>2 DEF ModelAttempted, RowType
<1>3. CASE r \in {UsageSettled(o, i) : o \in operations, i \in Id}
  BY <1>3 DEF UsageSettled, RowType
<1>4. CASE r \in {ToolDispatched(o, i, a, e) :
                    o \in operations, i \in Id, a \in Entries, e \in Entries}
  BY <1>4 DEF ToolDispatched, RowType
<1>5. CASE r \in {InputQueued(o, i, e) : o \in operations, i \in Id, e \in Entries}
  BY <1>5 DEF InputQueued, RowType
<1>6. CASE r \in {OperationFinished(o, out) : o \in operations, out \in TerminalOutcome}
  BY <1>6 DEF OperationFinished, RowType
<1> QED BY <1>1, <1>2, <1>3, <1>4, <1>5, <1>6 DEF Row

(* The rows the runs write are such rows. *)
LEMMA RowsAreRows == Rows \subseteq Row({"o", "other"})
<1> SUFFICES ASSUME NEW r \in Rows
             PROVE  r \in Row({"o", "other"})
  OBVIOUS
<1> DEFINE ops == {"o", "other"}
<1>1. CASE r \in {OperationAccepted("o", e) : e \in Entries}
  BY <1>1 DEF Row
<1>2. CASE r \in {ModelAttempted("o", i, e) : i \in Id, e \in Entries}
  BY <1>2 DEF Row
<1>3. CASE r \in {UsageSettled("o", i) : i \in Id}
  BY <1>3 DEF Row
<1>4. CASE r \in {ToolDispatched("o", i, a, e) : i \in Id, a \in Entries, e \in Entries}
  BY <1>4 DEF Row
<1>5. CASE r \in {InputQueued("o", i, e) : i \in Id, e \in Entries}
  BY <1>5 DEF Row
<1>6. CASE r \in {OperationFinished("o", out) : out \in {"completed", "interrupted"}}
             \cup {OperationFinished("other", "failed")}
  BY <1>6 DEF Row, TerminalOutcome
<1> QED BY <1>1, <1>2, <1>3, <1>4, <1>5, <1>6 DEF Rows

-----------------------------------------------------------------------------
(* The positions up to n, after the first, that hold a row of one type. *)
UpTo(rows, n, type) == {j \in 2..n : rows[j].type = type}

IdsUpTo(rows, n, type) == {rows[j].id : j \in UpTo(rows, n, type)}

EntriesUpTo(rows, n, type) == {rows[j].entry : j \in UpTo(rows, n, type)}

(* What is wrong with the row at i, given the rows before it. *)
Violates(rows, i, evidence) ==
  \/ rows[i].op # rows[1].op
  \/ UpTo(rows, i - 1, "operation_finished") # {}
  \/ rows[i].type = "operation_accepted"
  \/ rows[i].type = "model_attempted" /\ rows[i].id \in IdsUpTo(rows, i - 1, "model_attempted")
  \/ /\ rows[i].type = "usage_settled"
     /\ \/ rows[i].id \in IdsUpTo(rows, i - 1, "usage_settled")
        \/ rows[i].id \notin IdsUpTo(rows, i - 1, "model_attempted")
  \/ /\ rows[i].type = "tool_dispatched"
     /\ \/ rows[i].assistant \notin EntriesUpTo(rows, i - 1, "model_attempted")
        \/ rows[i].assistant \notin evidence
        \/ rows[i].id \in IdsUpTo(rows, i - 1, "tool_dispatched")
        \/ rows[i].entry \in EntriesUpTo(rows, i - 1, "tool_dispatched")
  \/ /\ rows[i].type = "input_queued"
     /\ \/ rows[i].id \in IdsUpTo(rows, i - 1, "input_queued")
        \/ rows[i].entry \in EntriesUpTo(rows, i - 1, "input_queued")

Collected(operations) ==
  [bad : BOOLEAN, attempts : Seq(Row(operations)), settled : SUBSET Id, calls : SUBSET Id,
   results : SUBSET Entries, ids : SUBSET Id, inputs : SUBSET Entries,
   terminal : TerminalOutcome \cup {NoOutcome}]

(* The attempts are the model_attempted rows, the latest one last. *)
AttemptsGathered(c, rows, n) ==
  LET attempted == UpTo(rows, n, "model_attempted")
  IN  /\ \A k \in DOMAIN c.attempts : \E j \in attempted : c.attempts[k] = rows[j]
      /\ \A j \in attempted : \E k \in DOMAIN c.attempts : c.attempts[k] = rows[j]
      /\ c.attempts # <<>> =>
           \E j \in attempted : /\ c.attempts[Len(c.attempts)] = rows[j]
                                /\ \A i \in attempted : i <= j

(* The sets hold what the rows up to n name, the terminal the last outcome. *)
SetsGathered(c, rows, n) ==
  /\ c.settled = IdsUpTo(rows, n, "usage_settled")
  /\ c.calls = IdsUpTo(rows, n, "tool_dispatched")
  /\ c.results = EntriesUpTo(rows, n, "tool_dispatched")
  /\ c.ids = IdsUpTo(rows, n, "input_queued")
  /\ c.inputs = EntriesUpTo(rows, n, "input_queued")

TerminalGathered(c, rows, n) ==
  /\ c.terminal = NoOutcome <=> UpTo(rows, n, "operation_finished") = {}
  /\ \A j \in UpTo(rows, n, "operation_finished") : c.terminal = rows[j].outcome

Gathered(c, rows, n) ==
  AttemptsGathered(c, rows, n) /\ SetsGathered(c, rows, n) /\ TerminalGathered(c, rows, n)

(* The loop invariant of recoverOperation. *)
LoopInv(operations, c, rows, n, evidence) ==
  /\ c \in Collected(operations)
  /\ c.bad <=> \E i \in 2..n : Violates(rows, i, evidence)
  /\ ~c.bad => Gathered(c, rows, n)

LEMMA NextPosition ==
  ASSUME NEW n \in Nat, n >= 1, NEW rows, NEW type
  PROVE  UpTo(rows, n + 1, type) =
           IF rows[n + 1].type = type THEN UpTo(rows, n, type) \cup {n + 1} ELSE UpTo(rows, n, type)
<1>1. 2..(n + 1) = (2..n) \cup {n + 1}
  OBVIOUS
<1> QED BY <1>1 DEF UpTo

LEMMA RejectsWhatViolates ==
  ASSUME NEW operations, NEW rows, NEW n \in Nat, n >= 1, NEW evidence,
         NEW c \in Collected(operations), Gathered(c, rows, n), ~c.bad
  PROVE  Rejects(c, rows[n + 1], rows[1].op, evidence) <=> Violates(rows, n + 1, evidence)
<1> DEFINE r == rows[n + 1]
<1>1. (n + 1) - 1 = n
  OBVIOUS
<1>2. c.terminal # NoOutcome <=> UpTo(rows, n, "operation_finished") # {}
  BY DEF Gathered, TerminalGathered
<1>3. (\E k \in DOMAIN c.attempts : c.attempts[k].id = r.id)
        <=> r.id \in IdsUpTo(rows, n, "model_attempted")
  BY DEF Gathered, AttemptsGathered, IdsUpTo
<1>4. (\E k \in DOMAIN c.attempts : c.attempts[k].entry = r.assistant)
        <=> r.assistant \in EntriesUpTo(rows, n, "model_attempted")
  BY DEF Gathered, AttemptsGathered, EntriesUpTo
<1>5. SetsGathered(c, rows, n)
  BY DEF Gathered
<1> QED BY <1>1, <1>2, <1>3, <1>4, <1>5 DEF Rejects, Violates, SetsGathered

LEMMA LoopStarts ==
  ASSUME NEW operations, NEW rows, NEW evidence
  PROVE  LoopInv(operations, Start, rows, 1, evidence)
<1>1. 2..1 = {}
  OBVIOUS
<1>2. \A type : UpTo(rows, 1, type) = {}
  BY <1>1 DEF UpTo
<1>3. Start \in Collected(operations)
  BY DEF Start, Collected
<1>4. Gathered(Start, rows, 1)
  BY <1>2 DEF Start, Gathered, AttemptsGathered, SetsGathered, TerminalGathered, IdsUpTo, EntriesUpTo
<1> QED BY <1>1, <1>3, <1>4 DEF LoopInv, Start

(* Collecting a row that is not rejected. *)
LEMMA CollectTypes ==
  ASSUME NEW operations, NEW c \in Collected(operations), NEW r \in Row(operations),
         r.type # "operation_accepted"
  PROVE  /\ Collect(c, r) \in Collected(operations)
         /\ Collect(c, r).bad = c.bad
<1>1. r.type \in RowType \ {"operation_accepted"}
  BY RowFields
<1>2. CASE r.type = "model_attempted"
  <2>1. Collect(c, r) = [c EXCEPT !.attempts = Append(@, r)]
    BY <1>2 DEF Collect
  <2>2. Append(c.attempts, r) \in Seq(Row(operations))
    BY DEF Collected
  <2> QED BY <2>1, <2>2 DEF Collected
<1>3. CASE r.type = "usage_settled"
  <2>1. Collect(c, r) = [c EXCEPT !.settled = @ \cup {r.id}] /\ r.id \in Id
    BY <1>3, RowFields DEF Collect
  <2> QED BY <2>1 DEF Collected
<1>4. CASE r.type = "tool_dispatched"
  <2>1. /\ Collect(c, r) = [c EXCEPT !.calls = @ \cup {r.id}, !.results = @ \cup {r.entry}]
        /\ r.id \in Id /\ r.entry \in Entries
    BY <1>4, RowFields DEF Collect
  <2> DEFINE b == [c EXCEPT !.calls = @ \cup {r.id}]
  <2>2. b \in Collected(operations) /\ b.bad = c.bad /\ b.results = c.results
    BY <2>1 DEF Collected
  <2>3. Collect(c, r) = [b EXCEPT !.results = @ \cup {r.entry}]
    BY <2>1, <2>2
  <2> HIDE DEF b
  <2> QED BY <2>1, <2>2, <2>3 DEF Collected
<1>5. CASE r.type = "input_queued"
  <2>1. /\ Collect(c, r) = [c EXCEPT !.ids = @ \cup {r.id}, !.inputs = @ \cup {r.entry}]
        /\ r.id \in Id /\ r.entry \in Entries
    BY <1>5, RowFields DEF Collect
  <2> DEFINE b == [c EXCEPT !.ids = @ \cup {r.id}]
  <2>2. b \in Collected(operations) /\ b.bad = c.bad /\ b.inputs = c.inputs
    BY <2>1 DEF Collected
  <2>3. Collect(c, r) = [b EXCEPT !.inputs = @ \cup {r.entry}]
    BY <2>1, <2>2
  <2> HIDE DEF b
  <2> QED BY <2>1, <2>2, <2>3 DEF Collected
<1>6. CASE r.type = "operation_finished"
  <2>1. Collect(c, r) = [c EXCEPT !.terminal = r.outcome] /\ r.outcome \in TerminalOutcome
    BY <1>6, RowFields DEF Collect
  <2> QED BY <2>1 DEF Collected
<1> QED BY <1>1, <1>2, <1>3, <1>4, <1>5, <1>6 DEF RowType

LEMMA CollectGathersAttempts ==
  ASSUME NEW operations, NEW rows, NEW n \in Nat, n >= 1,
         NEW c \in Collected(operations), Gathered(c, rows, n),
         rows[n + 1] \in Row(operations), rows[n + 1].type # "operation_accepted"
  PROVE  AttemptsGathered(Collect(c, rows[n + 1]), rows, n + 1)
<1> DEFINE r == rows[n + 1]
           d == Collect(c, r)
           attempted(m) == UpTo(rows, m, "model_attempted")
<1>1. c.attempts \in Seq(Row(operations))
  BY DEF Collected
<1>2. AttemptsGathered(c, rows, n)
  BY DEF Gathered
<1>3. CASE r.type = "model_attempted"
  <2>1. d.attempts = Append(c.attempts, r)
    BY <1>3 DEF Collect, Collected
  <2>2. attempted(n + 1) = attempted(n) \cup {n + 1}
    BY <1>3, NextPosition
  <2>3. PICK s : s = c.attempts /\ s \in Seq(Row(operations))
    BY <1>1
  <2>4. PICK t : t = d.attempts /\ t = Append(s, r)
    BY <2>1, <2>3
  <2>5. /\ DOMAIN t = 1..(Len(s) + 1) /\ Len(t) = Len(s) + 1 /\ DOMAIN s = 1..Len(s)
        /\ t[Len(s) + 1] = r /\ (\A k \in 1..Len(s) : t[k] = s[k])
        /\ Len(s) \in Nat
    BY <2>3, <2>4
  <2>6. \A k \in DOMAIN t : \E j \in attempted(n + 1) : t[k] = rows[j]
    <3> SUFFICES ASSUME NEW k \in DOMAIN t
                 PROVE  \E j \in attempted(n + 1) : t[k] = rows[j]
      OBVIOUS
    <3>1. CASE k \in DOMAIN s
      BY <1>2, <2>2, <2>3, <2>5, <3>1 DEF AttemptsGathered
    <3>2. CASE k = Len(s) + 1
      BY <2>2, <2>5, <3>2
    <3> QED BY <2>5, <3>1, <3>2
  <2>7. \A j \in attempted(n + 1) : \E k \in DOMAIN t : t[k] = rows[j]
    <3> SUFFICES ASSUME NEW j \in attempted(n + 1)
                 PROVE  \E k \in DOMAIN t : t[k] = rows[j]
      OBVIOUS
    <3>1. CASE j \in attempted(n)
      <4>1. PICK k \in DOMAIN s : s[k] = rows[j]
        BY <1>2, <2>3, <3>1 DEF AttemptsGathered
      <4>2. k \in DOMAIN t /\ t[k] = s[k]
        BY <2>5
      <4> QED BY <4>1, <4>2
    <3>2. CASE j = n + 1
      <4>1. Len(s) + 1 \in DOMAIN t
        BY <2>5
      <4> QED BY <2>5, <3>2, <4>1
    <3> QED BY <2>2, <3>1, <3>2
  <2>8. \A i \in attempted(n + 1) : i <= n + 1
    BY DEF UpTo
  <2>9. t[Len(t)] = rows[n + 1] /\ n + 1 \in attempted(n + 1)
    BY <2>2, <2>5
  <2> QED BY <2>4, <2>6, <2>7, <2>8, <2>9 DEF AttemptsGathered
<1>4. CASE r.type # "model_attempted"
  <2>1. d.attempts = c.attempts
    <3>1. r.type \in RowType \ {"operation_accepted", "model_attempted"}
      BY <1>4, RowFields
    <3> QED BY <3>1 DEF Collect, Collected, RowType
  <2>2. attempted(n + 1) = attempted(n)
    BY <1>4, NextPosition
  <2> QED BY <1>2, <2>1, <2>2 DEF AttemptsGathered
<1> QED BY <1>3, <1>4

LEMMA CollectGathersSets ==
  ASSUME NEW operations, NEW rows, NEW n \in Nat, n >= 1,
         NEW c \in Collected(operations), Gathered(c, rows, n),
         rows[n + 1] \in Row(operations), rows[n + 1].type # "operation_accepted"
  PROVE  SetsGathered(Collect(c, rows[n + 1]), rows, n + 1)
<1> DEFINE r == rows[n + 1]
           d == Collect(c, r)
<1>1. SetsGathered(c, rows, n)
  BY DEF Gathered
<1>2. ASSUME NEW type
      PROVE  /\ IdsUpTo(rows, n + 1, type) =
                  IF r.type = type THEN IdsUpTo(rows, n, type) \cup {r.id} ELSE IdsUpTo(rows, n, type)
             /\ EntriesUpTo(rows, n + 1, type) =
                  IF r.type = type THEN EntriesUpTo(rows, n, type) \cup {r.entry}
                                   ELSE EntriesUpTo(rows, n, type)
  <2>1. UpTo(rows, n + 1, type) =
          IF r.type = type THEN UpTo(rows, n, type) \cup {n + 1} ELSE UpTo(rows, n, type)
    BY NextPosition
  <2> QED BY <2>1 DEF IdsUpTo, EntriesUpTo
<1>3. r.type \in RowType \ {"operation_accepted"}
  BY RowFields
<1>4. /\ d.settled = IF r.type = "usage_settled" THEN c.settled \cup {r.id} ELSE c.settled
      /\ d.calls = IF r.type = "tool_dispatched" THEN c.calls \cup {r.id} ELSE c.calls
      /\ d.results = IF r.type = "tool_dispatched" THEN c.results \cup {r.entry} ELSE c.results
      /\ d.ids = IF r.type = "input_queued" THEN c.ids \cup {r.id} ELSE c.ids
      /\ d.inputs = IF r.type = "input_queued" THEN c.inputs \cup {r.entry} ELSE c.inputs
  BY <1>3 DEF Collect, Collected, RowType
<1> HIDE DEF d
<1> QED BY <1>1, <1>2, <1>4 DEF SetsGathered, d

LEMMA CollectGathersTerminal ==
  ASSUME NEW operations, NEW rows, NEW n \in Nat, n >= 1,
         NEW c \in Collected(operations), Gathered(c, rows, n), c.terminal = NoOutcome,
         rows[n + 1] \in Row(operations), rows[n + 1].type # "operation_accepted"
  PROVE  TerminalGathered(Collect(c, rows[n + 1]), rows, n + 1)
<1> DEFINE r == rows[n + 1]
           d == Collect(c, r)
<1>1. UpTo(rows, n, "operation_finished") = {}
  BY DEF Gathered, TerminalGathered
<1>2. r.type \in RowType \ {"operation_accepted"}
  BY RowFields
<1>3. d.terminal = IF r.type = "operation_finished" THEN r.outcome ELSE NoOutcome
  BY <1>2 DEF Collect, Collected, RowType
<1>4. UpTo(rows, n + 1, "operation_finished") =
        IF r.type = "operation_finished" THEN {n + 1} ELSE {}
  BY <1>1, NextPosition
<1>5. r.type = "operation_finished" => r.outcome # NoOutcome
  BY RowFields DEF TerminalOutcome, NoOutcome
<1> HIDE DEF d
<1> QED BY <1>3, <1>4, <1>5 DEF TerminalGathered, d

LEMMA LoopContinues ==
  ASSUME NEW operations, NEW rows, NEW n \in Nat, n >= 1, NEW evidence,
         rows[n + 1] \in Row(operations), NEW c, LoopInv(operations, c, rows, n, evidence)
  PROVE  LoopInv(operations, Iterate(c, rows[n + 1], rows[1].op, evidence), rows, n + 1, evidence)
<1> DEFINE r == rows[n + 1]
           d == Iterate(c, r, rows[1].op, evidence)
<1>1. c \in Collected(operations)
  BY DEF LoopInv
<1>2. (\E i \in 2..(n + 1) : Violates(rows, i, evidence))
        <=> (\E i \in 2..n : Violates(rows, i, evidence)) \/ Violates(rows, n + 1, evidence)
  <2>1. 2..(n + 1) = (2..n) \cup {n + 1}
    OBVIOUS
  <2> QED BY <2>1
<1>3. CASE Rejects(c, r, rows[1].op, evidence)
  <2>1. d = [c EXCEPT !.bad = TRUE]
    BY <1>3 DEF Iterate
  <2>2. d \in Collected(operations) /\ d.bad
    BY <1>1, <2>1 DEF Collected
  <2>3. ~c.bad => Violates(rows, n + 1, evidence)
    BY <1>1, <1>3, RejectsWhatViolates DEF LoopInv
  <2>4. \E i \in 2..(n + 1) : Violates(rows, i, evidence)
    BY <1>2, <2>3 DEF LoopInv
  <2> QED BY <2>2, <2>4 DEF LoopInv
<1>4. CASE ~Rejects(c, r, rows[1].op, evidence)
  <2>1. d = Collect(c, r) /\ ~c.bad /\ r.type # "operation_accepted" /\ c.terminal = NoOutcome
    BY <1>4 DEF Iterate, Rejects
  <2>2. Gathered(c, rows, n)
    BY <2>1 DEF LoopInv
  <2>3. d \in Collected(operations) /\ ~d.bad
    BY <1>1, <2>1, CollectTypes
  <2>4. Gathered(d, rows, n + 1)
    BY <1>1, <2>1, <2>2, CollectGathersAttempts, CollectGathersSets, CollectGathersTerminal
       DEF Gathered
  <2>5. ~Violates(rows, n + 1, evidence)
    BY <1>1, <1>4, <2>1, <2>2, RejectsWhatViolates
  <2>6. ~\E i \in 2..(n + 1) : Violates(rows, i, evidence)
    BY <1>2, <2>1, <2>5 DEF LoopInv
  <2> QED BY <2>3, <2>4, <2>6 DEF LoopInv
<1> QED BY <1>3, <1>4

(* After the last record the collections hold what the whole journal says. *)
LEMMA LoopInvariant ==
  ASSUME NEW operations, NEW rows \in Seq(Row(operations)), rows # <<>>, NEW evidence
  PROVE  LoopInv(operations, Collections(rows, evidence)[Len(rows)], rows, Len(rows), evidence)
<1> DEFINE c == Collections(rows, evidence)
           S == {n \in Nat : LoopInv(operations, c[n], rows, n, evidence)}
<1>1. Len(rows) \in Nat /\ Len(rows) >= 1 /\ \A n \in 1..Len(rows) : rows[n] \in Row(operations)
  OBVIOUS
<1>2. c[1] = Start /\ \A n \in 2..Len(rows) : c[n] = Iterate(c[n - 1], rows[n], rows[1].op, evidence)
  BY CollectionsFollow
<1> HIDE DEF c
<1>3. 1 \in S
  BY <1>2, LoopStarts
<1>4. ASSUME NEW n \in 1..Len(rows), n \in S, n + 1 <= Len(rows)
      PROVE  n + 1 \in S
  <2>1. n \in Nat /\ n >= 1 /\ n + 1 \in 2..Len(rows) /\ n + 1 \in 1..Len(rows) /\ (n + 1) - 1 = n
    BY <1>1, <1>4
  <2>2. c[n + 1] = Iterate(c[n], rows[n + 1], rows[1].op, evidence)
    BY <1>2, <2>1
  <2>3. LoopInv(operations, c[n], rows, n, evidence)
    BY <1>4
  <2> QED BY <1>1, <2>1, <2>2, <2>3, LoopContinues
<1> HIDE DEF S
<1>5. 1..Len(rows) \subseteq S
  BY <1>1, <1>3, <1>4, Along
<1> QED BY <1>1, <1>5 DEF S, c

-----------------------------------------------------------------------------
(* Every corruption the reducer looks for is charged to the row at which   *)
(* the loop meets it.                                                      *)
LEMMA MalformedIsViolated ==
  ASSUME NEW Any, NEW rows \in Seq(Any), rows # <<>>, NEW evidence,
         rows[1].type = "operation_accepted", rows[1].entry \in evidence
  PROVE  Malformed(rows, evidence) <=> \E i \in 2..Len(rows) : Violates(rows, i, evidence)
<1> DEFINE L == Len(rows)
           Typed(i, type) == rows[i].type = type
           IdSeen(type) ==
             \E i \in 2..L : Typed(i, type) /\ rows[i].id \in IdsUpTo(rows, i - 1, type)
           EntrySeen(type) ==
             \E i \in 2..L : Typed(i, type) /\ rows[i].entry \in EntriesUpTo(rows, i - 1, type)
<1>1. L \in Nat /\ L >= 1 /\ DOMAIN rows = 1..L /\ 1..L = {1} \cup (2..L)
  OBVIOUS
<1>2. ASSUME NEW type, type # "operation_accepted"
      PROVE  Of(rows, type) = {i \in 2..L : Typed(i, type)}
  BY <1>1, <1>2 DEF Of
<1>3. ASSUME NEW type, type # "operation_accepted", NEW i \in 2..L
      PROVE  UpTo(rows, i - 1, type) = {j \in Of(rows, type) : j < i}
  <2>1. Of(rows, type) = {j \in 2..L : Typed(j, type)}
    BY <1>2, <1>3
  <2>2. \A j : j \in 2..(i - 1) <=> j \in 2..L /\ j < i
    BY <1>1
  <2> QED BY <2>1, <2>2 DEF UpTo
<1>4. ASSUME NEW type, type # "operation_accepted"
      PROVE  /\ RepeatsId(rows, type) <=> IdSeen(type)
             /\ RepeatsEntry(rows, type) <=> EntrySeen(type)
  <2>1. Of(rows, type) = {i \in 2..L : Typed(i, type)}
    BY <1>2, <1>4
  <2>2. \A i \in 2..L : UpTo(rows, i - 1, type) = {j \in Of(rows, type) : j < i}
    BY <1>3, <1>4
  <2>3. RepeatsId(rows, type) <=> IdSeen(type)
    BY <2>1, <2>2 DEF RepeatsId, IdsUpTo
  <2>4. RepeatsEntry(rows, type) <=> EntrySeen(type)
    BY <2>1, <2>2 DEF RepeatsEntry, EntriesUpTo
  <2> QED BY <2>3, <2>4
<1>5. ASSUME NEW i \in 2..L
      PROVE  /\ {a.id : a \in AttemptsBefore(rows, i)} = IdsUpTo(rows, i - 1, "model_attempted")
             /\ {a.entry : a \in AttemptsBefore(rows, i)} = EntriesUpTo(rows, i - 1, "model_attempted")
  <2>1. UpTo(rows, i - 1, "model_attempted") = {j \in Of(rows, "model_attempted") : j < i}
    BY <1>3
  <2>2. AttemptsBefore(rows, i) = {rows[j] : j \in UpTo(rows, i - 1, "model_attempted")}
    BY <2>1 DEF AttemptsBefore
  <2> QED BY <2>2 DEF IdsUpTo, EntriesUpTo
<1>6. SettlesUnknownAttempt(rows)
        <=> \E i \in 2..L : /\ Typed(i, "usage_settled")
                            /\ rows[i].id \notin IdsUpTo(rows, i - 1, "model_attempted")
  BY <1>2, <1>5 DEF SettlesUnknownAttempt
<1>7. DispatchesUnknownReply(rows, evidence)
        <=> \E i \in 2..L : /\ Typed(i, "tool_dispatched")
                            /\ \/ rows[i].assistant \notin EntriesUpTo(rows, i - 1, "model_attempted")
                               \/ rows[i].assistant \notin evidence
  BY <1>2, <1>5 DEF DispatchesUnknownReply
<1>8. (\E i \in Of(rows, "operation_finished") : i # L)
        <=> \E i \in 2..L : UpTo(rows, i - 1, "operation_finished") # {}
  <2>1. ASSUME NEW i \in Of(rows, "operation_finished"), i # L
        PROVE  \E j \in 2..L : UpTo(rows, j - 1, "operation_finished") # {}
    <3>1. i \in 2..L /\ i + 1 \in 2..L /\ i < i + 1
      BY <1>1, <1>2, <2>1
    <3>2. i \in UpTo(rows, (i + 1) - 1, "operation_finished")
      BY <1>3, <3>1
    <3> QED BY <3>1, <3>2
  <2>2. ASSUME NEW i \in 2..L, UpTo(rows, i - 1, "operation_finished") # {}
        PROVE  \E j \in Of(rows, "operation_finished") : j # L
    <3>1. PICK j \in Of(rows, "operation_finished") : j < i
      BY <1>3, <2>2
    <3>2. j \in 2..L
      BY <1>2
    <3>3. j < L
      BY <1>1, <3>1, <3>2
    <3> QED BY <3>2, <3>3
  <2> QED BY <2>1, <2>2
<1>9. (\E i \in DOMAIN rows : rows[i].op # rows[1].op) <=> \E i \in 2..L : rows[i].op # rows[1].op
  BY <1>1
<1>10. (\E i \in Of(rows, "operation_accepted") : i # 1)
         <=> \E i \in 2..L : Typed(i, "operation_accepted")
  BY <1>1 DEF Of
<1> HIDE DEF L
<1>11. Malformed(rows, evidence) <=>
         \/ \E i \in 2..L : rows[i].op # rows[1].op
         \/ \E i \in 2..L : Typed(i, "operation_accepted")
         \/ \E i \in 2..L : UpTo(rows, i - 1, "operation_finished") # {}
         \/ RepeatsId(rows, "model_attempted")
         \/ RepeatsId(rows, "usage_settled")
         \/ SettlesUnknownAttempt(rows)
         \/ RepeatsId(rows, "tool_dispatched")
         \/ RepeatsEntry(rows, "tool_dispatched")
         \/ DispatchesUnknownReply(rows, evidence)
         \/ RepeatsId(rows, "input_queued")
         \/ RepeatsEntry(rows, "input_queued")
  BY <1>8, <1>9, <1>10 DEF Malformed, L
<1>12. (\E i \in 2..L : Violates(rows, i, evidence)) <=>
         \/ \E i \in 2..L : rows[i].op # rows[1].op
         \/ \E i \in 2..L : Typed(i, "operation_accepted")
         \/ \E i \in 2..L : UpTo(rows, i - 1, "operation_finished") # {}
         \/ IdSeen("model_attempted")
         \/ IdSeen("usage_settled")
         \/ \E i \in 2..L : Typed(i, "usage_settled") /\ rows[i].id \notin IdsUpTo(rows, i - 1, "model_attempted")
         \/ IdSeen("tool_dispatched")
         \/ EntrySeen("tool_dispatched")
         \/ \E i \in 2..L : /\ Typed(i, "tool_dispatched")
                            /\ \/ rows[i].assistant \notin EntriesUpTo(rows, i - 1, "model_attempted")
                               \/ rows[i].assistant \notin evidence
         \/ IdSeen("input_queued")
         \/ EntrySeen("input_queued")
  BY DEF Violates
<1> HIDE DEF IdSeen, EntrySeen
<1>13. /\ RepeatsId(rows, "model_attempted") <=> IdSeen("model_attempted")
       /\ RepeatsId(rows, "usage_settled") <=> IdSeen("usage_settled")
       /\ RepeatsId(rows, "tool_dispatched") <=> IdSeen("tool_dispatched")
       /\ RepeatsEntry(rows, "tool_dispatched") <=> EntrySeen("tool_dispatched")
       /\ RepeatsId(rows, "input_queued") <=> IdSeen("input_queued")
       /\ RepeatsEntry(rows, "input_queued") <=> EntrySeen("input_queued")
  BY <1>4
<1> QED BY <1>6, <1>7, <1>11, <1>12, <1>13 DEF L

(* What the reducer reads off a journal that is not malformed is what the  *)
(* collections of the loop hold.                                           *)
LatestReplies(rows) == {rows[i].entry : i \in {j \in DOMAIN rows : IsLatestAttempt(rows, j)}}

LEMMA CollectionsAgree ==
  ASSUME NEW operations, NEW rows \in Seq(Row(operations)), NEW evidence, NEW c,
         ~Malformed(rows, evidence), Gathered(c, rows, Len(rows)),
         c \in Collected(operations)
  PROVE  /\ IncompleteDispatches(rows, evidence) = {} <=> c.results \subseteq evidence
         /\ PendingInputs(rows, evidence) = {} <=> c.inputs \subseteq evidence
         /\ IsFinished(rows) <=> c.terminal # NoOutcome
         /\ IsFinished(rows) => c.terminal = rows[Len(rows)].outcome
         /\ LatestReplies(rows) =
              IF c.attempts = <<>> THEN {} ELSE {c.attempts[Len(c.attempts)].entry}
<1> DEFINE L == Len(rows)
<1>1. L \in Nat /\ DOMAIN rows = 1..L /\ rows # <<>> /\ rows[1].type = "operation_accepted"
  BY DEF Malformed
<1>2. ASSUME NEW type, type # "operation_accepted"
      PROVE  Of(rows, type) = UpTo(rows, L, type)
  <2>1. \A j : j \in 1..L /\ j # 1 <=> j \in 2..L
    BY <1>1
  <2> QED BY <1>1, <1>2, <2>1 DEF Of, UpTo
<1>3. IncompleteDispatches(rows, evidence) = {} <=> c.results \subseteq evidence
  <2>1. c.results = {rows[j].entry : j \in Of(rows, "tool_dispatched")}
    BY <1>2 DEF Gathered, SetsGathered, EntriesUpTo
  <2> QED BY <2>1 DEF IncompleteDispatches
<1>4. PendingInputs(rows, evidence) = {} <=> c.inputs \subseteq evidence
  <2>1. c.inputs = {rows[j].entry : j \in Of(rows, "input_queued")}
    BY <1>2 DEF Gathered, SetsGathered, EntriesUpTo
  <2> QED BY <2>1 DEF PendingInputs
<1>5. Of(rows, "operation_finished") = UpTo(rows, L, "operation_finished")
  BY <1>2
<1>6. IsFinished(rows) <=> c.terminal # NoOutcome
  BY <1>5 DEF IsFinished, Gathered, TerminalGathered
<1>7. IsFinished(rows) => c.terminal = rows[L].outcome
  BY <1>5 DEF IsFinished, Malformed, Gathered, TerminalGathered
<1>8. PICK attempted : attempted = Of(rows, "model_attempted")
  OBVIOUS
<1>9. attempted = UpTo(rows, L, "model_attempted") /\ attempted \subseteq Nat
  BY <1>1, <1>2, <1>8 DEF Of
<1>10. \A j : IsLatestAttempt(rows, j) <=> j \in attempted /\ \A i \in attempted : i <= j
  BY <1>8 DEF IsLatestAttempt
<1>11. CASE c.attempts = <<>>
  <2>1. attempted = {}
    BY <1>9, <1>11 DEF Gathered, AttemptsGathered
  <2> QED BY <1>3, <1>4, <1>6, <1>7, <1>10, <1>11, <2>1 DEF LatestReplies
<1>12. CASE c.attempts # <<>>
  <2>1. PICK j \in attempted : /\ c.attempts[Len(c.attempts)] = rows[j]
                               /\ \A i \in attempted : i <= j
    BY <1>9, <1>12 DEF Gathered, AttemptsGathered
  <2>2. \A k : IsLatestAttempt(rows, k) <=> k = j
    BY <1>9, <1>10, <2>1
  <2>3. j \in DOMAIN rows
    BY <1>8 DEF Of
  <2>4. LatestReplies(rows) = {rows[j].entry}
    BY <2>2, <2>3 DEF LatestReplies
  <2> QED BY <1>3, <1>4, <1>6, <1>7, <1>12, <2>1, <2>4
<1> QED BY <1>11, <1>12

(***************************************************************************)
(* On every journal of every length, and any evidence, the reducer reaches *)
(* the verdict of the code's loop: its conditions on the whole journal say *)
(* the same as the early returns and collections of recoverOperation.      *)
(***************************************************************************)
THEOREM ReducerTranslatesLoop ==
  ASSUME NEW operations, NEW rows \in Seq(Row(operations)), NEW evidence
  PROVE  RecoverOperation(rows, evidence, Ending) = Loop(rows, evidence)
<1>1. CASE rows = <<>> \/ rows[1].type # "operation_accepted" \/ rows[1].entry \notin evidence
  BY <1>1 DEF RecoverOperation, Malformed, Loop
<1>2. CASE rows # <<>> /\ rows[1].type = "operation_accepted" /\ rows[1].entry \in evidence
  <2> DEFINE c == Collections(rows, evidence)[Len(rows)]
  <2>1. Loop(rows, evidence) = Conclude(c, evidence)
    BY <1>2 DEF Loop
  <2>2. LoopInv(operations, c, rows, Len(rows), evidence)
    BY <1>2, LoopInvariant
  <2> HIDE DEF c
  <2>3. Malformed(rows, evidence) <=> c.bad
    BY <1>2, <2>2, MalformedIsViolated DEF LoopInv
  <2>4. CASE c.bad
    BY <2>1, <2>3, <2>4 DEF RecoverOperation, Conclude
  <2>5. CASE ~c.bad
    <3>1. ~Malformed(rows, evidence) /\ Gathered(c, rows, Len(rows)) /\ c \in Collected(operations)
      BY <2>2, <2>3, <2>5 DEF LoopInv
    <3>2. /\ IncompleteDispatches(rows, evidence) = {} <=> c.results \subseteq evidence
          /\ PendingInputs(rows, evidence) = {} <=> c.inputs \subseteq evidence
          /\ IsFinished(rows) <=> c.terminal # NoOutcome
          /\ IsFinished(rows) => c.terminal = rows[Len(rows)].outcome
          /\ LatestReplies(rows) =
               IF c.attempts = <<>> THEN {} ELSE {c.attempts[Len(c.attempts)].entry}
      BY <3>1, CollectionsAgree
    <3>3. CASE IsFinished(rows)
      BY <2>1, <2>5, <3>1, <3>2, <3>3 DEF RecoverOperation, RecoverFinished, Conclude
    <3>4. CASE ~IsFinished(rows) /\ IncompleteDispatches(rows, evidence) # {}
      BY <2>1, <2>5, <3>1, <3>2, <3>4 DEF RecoverOperation, Conclude
    <3>5. CASE ~IsFinished(rows) /\ IncompleteDispatches(rows, evidence) = {}
      <4> DEFINE pending == PendingInputs(rows, evidence) # {}
                 latest == LatestReplies(rows)
                 ended == {e \in latest : Ending[e] # NoOutcome}
                 last == c.attempts[Len(c.attempts)].entry
      <4>1. RecoverOperation(rows, evidence, Ending) =
              IF latest \ evidence # {} THEN Open("provider_interrupted", pending)
              ELSE IF ended = {} THEN Open("ready", pending)
              ELSE IF pending THEN Corrupted
              ELSE Terminal(Ending[CHOOSE e \in ended : TRUE], "inferred")
        BY <3>1, <3>5 DEF RecoverOperation, RecoverOpen, LatestReplies
      <4>2. Conclude(c, evidence) =
              IF c.attempts # <<>> /\ last \notin evidence THEN Open("provider_interrupted", pending)
              ELSE IF c.attempts # <<>> /\ Ending[last] # NoOutcome
                THEN IF pending THEN Corrupted ELSE Terminal(Ending[last], "inferred")
              ELSE Open("ready", pending)
        <5>1. pending <=> ~(c.inputs \subseteq evidence)
          BY <3>2
        <5>2. c.results \subseteq evidence /\ c.terminal = NoOutcome
          BY <3>2, <3>5
        <5> HIDE DEF pending
        <5> QED BY <2>5, <5>1, <5>2 DEF Conclude
      <4>3. latest = IF c.attempts = <<>> THEN {} ELSE {last}
        BY <3>2
      <4> HIDE DEF pending, latest
      <4>4. CASE c.attempts = <<>>
        BY <2>1, <4>1, <4>2, <4>3, <4>4
      <4>5. CASE c.attempts # <<>> /\ Ending[last] = NoOutcome
        <5>1. ended = {}
          BY <4>3, <4>5
        <5> QED BY <2>1, <4>1, <4>2, <4>3, <4>5, <5>1
      <4>6. CASE c.attempts # <<>> /\ Ending[last] # NoOutcome
        <5>1. ended = {last}
          BY <4>3, <4>6
        <5>2. (CHOOSE e \in ended : TRUE) = last
          BY <5>1
        <5> HIDE DEF ended
        <5> QED BY <2>1, <4>1, <4>2, <4>3, <4>6, <5>1, <5>2
      <4> QED BY <4>4, <4>5, <4>6
    <3> QED BY <3>3, <3>4, <3>5
  <2> QED BY <2>4, <2>5
<1> QED BY <1>1, <1>2

-----------------------------------------------------------------------------
(* A terminal record at the end of a journal violates nothing. *)
LEMMA FinishIsReadable ==
  ASSUME NEW Any, NEW rows \in Seq(Any), NEW evidence, NEW outcome,
         ~Malformed(rows, evidence), ~IsFinished(rows)
  PROVE  ~Malformed(Append(rows, OperationFinished(rows[1].op, outcome)), evidence)
<1> DEFINE record == OperationFinished(rows[1].op, outcome)
           L == Len(rows)
<1>1. /\ L \in Nat /\ L >= 1 /\ DOMAIN rows = 1..L /\ rows # <<>>
      /\ rows[1].type = "operation_accepted" /\ rows[1].entry \in evidence
  BY DEF Malformed
<1>2. PICK after : after = Append(rows, record)
  OBVIOUS
<1>3. /\ after \in Seq(Any \cup {record}) /\ after # <<>> /\ Len(after) = L + 1
      /\ after[L + 1] = record /\ \A i \in 1..L : after[i] = rows[i]
  BY <1>1, <1>2
<1>4. ASSUME NEW i \in 2..L
      PROVE  ~Violates(after, i, evidence)
  <2>1. ~Violates(rows, i, evidence)
    BY <1>1, MalformedIsViolated
  <2>2. after[i] = rows[i] /\ after[1] = rows[1] /\ \A j \in 2..(i - 1) : after[j] = rows[j]
    BY <1>1, <1>3
  <2>3. \A type : UpTo(after, i - 1, type) = UpTo(rows, i - 1, type)
    BY <2>2 DEF UpTo
  <2>4. \A type : /\ IdsUpTo(after, i - 1, type) = IdsUpTo(rows, i - 1, type)
                  /\ EntriesUpTo(after, i - 1, type) = EntriesUpTo(rows, i - 1, type)
    BY <2>2, <2>3 DEF IdsUpTo, EntriesUpTo, UpTo
  <2> QED BY <2>1, <2>2, <2>3, <2>4 DEF Violates
<1>5. ~Violates(after, L + 1, evidence)
  <2>1. (L + 1) - 1 = L /\ after[1] = rows[1]
    BY <1>1, <1>3
  <2>2. UpTo(after, L, "operation_finished") = {}
    BY <1>1, <1>3 DEF IsFinished, Of, UpTo
  <2> QED BY <1>3, <2>1, <2>2 DEF Violates, OperationFinished
<1>6. \A i \in 2..Len(after) : ~Violates(after, i, evidence)
  <2>1. 2..Len(after) = (2..L) \cup {L + 1}
    BY <1>1, <1>3
  <2> QED BY <1>4, <1>5, <2>1
<1>7. after[1].type = "operation_accepted" /\ after[1].entry \in evidence
  BY <1>1, <1>3
<1>8. ~Malformed(after, evidence)
  BY <1>3, <1>6, <1>7, MalformedIsViolated
<1> QED BY <1>2, <1>8

LEMMA FinishReadsBack ==
  ASSUME NEW Any, NEW rows \in Seq(Any), NEW evidence, NEW outcome, NEW ends,
         ~Malformed(rows, evidence), ~IsFinished(rows),
         IncompleteDispatches(rows, evidence) = {},
         PendingInputs(rows, evidence) = {} \/ outcome = "interrupted"
  PROVE  /\ OperationAppendAllowed(rows)
         /\ RecoverOperation(Append(rows, OperationFinished(rows[1].op, outcome)), evidence, ends)
              = Terminal(outcome, "durable")
<1> DEFINE record == OperationFinished(rows[1].op, outcome)
           L == Len(rows)
<1>1. L \in Nat /\ DOMAIN rows = 1..L /\ rows # <<>> /\ rows[1].type = "operation_accepted"
  BY DEF Malformed
<1>2. PICK after : after = Append(rows, record)
  OBVIOUS
<1>3. /\ DOMAIN after = 1..(L + 1) /\ Len(after) = L + 1
      /\ after[L + 1] = record /\ \A i \in 1..L : after[i] = rows[i]
  BY <1>1, <1>2
<1>4. record.type = "operation_finished" /\ record.outcome = outcome
  BY DEF OperationFinished
<1> HIDE DEF record
<1>5. ASSUME NEW type, type # "operation_finished"
      PROVE  Of(after, type) = Of(rows, type) /\ Of(rows, type) \subseteq 1..L
  BY <1>1, <1>3, <1>4, <1>5 DEF Of
<1>6. IncompleteDispatches(after, evidence) = {}
  BY <1>3, <1>5 DEF IncompleteDispatches
<1>7. PendingInputs(after, evidence) = PendingInputs(rows, evidence)
  BY <1>3, <1>5 DEF PendingInputs
<1>8. IsFinished(after)
  <2>1. L + 1 \in DOMAIN after
    BY <1>1, <1>3
  <2> QED BY <1>3, <1>4, <2>1 DEF IsFinished, Of
<1>9. RecoverFinished(after, evidence) = Terminal(outcome, "durable")
  BY <1>3, <1>4, <1>6, <1>7 DEF RecoverFinished
<1>10. ~Malformed(after, evidence)
  BY <1>2, FinishIsReadable DEF record
<1> QED BY <1>1, <1>2, <1>8, <1>9, <1>10 DEF OperationAppendAllowed, RecoverOperation, record

(* What an open verdict says of the journal it was reduced from. *)
LEMMA OpenVerdictSays ==
  ASSUME NEW rows, NEW evidence, NEW ends, NEW verdict,
         verdict = RecoverOperation(rows, evidence, ends),
         verdict.status \in {"ready", "provider_interrupted"} \/ verdict.finalization = "inferred"
  PROVE  /\ ~Malformed(rows, evidence)
         /\ ~IsFinished(rows)
         /\ IncompleteDispatches(rows, evidence) = {}
         /\ verdict.finalization = "inferred" \/ ~verdict.pending => PendingInputs(rows, evidence) = {}
<1> USE DEF Corrupted, Open, Terminal
<1>1. ~Malformed(rows, evidence)
  BY DEF RecoverOperation
<1>2. ~IsFinished(rows)
  BY <1>1 DEF RecoverOperation, RecoverFinished
<1>3. IncompleteDispatches(rows, evidence) = {}
  BY <1>1, <1>2 DEF RecoverOperation
<1>4. verdict = RecoverOpen(rows, evidence, ends)
  BY <1>1, <1>2, <1>3 DEF RecoverOperation
<1>5. verdict.finalization = "inferred" \/ ~verdict.pending => PendingInputs(rows, evidence) = {}
  <2> DEFINE pending == PendingInputs(rows, evidence) # {}
             latest == LatestReplies(rows)
             ended == {e \in latest : ends[e] # NoOutcome}
             implied == ends[CHOOSE e \in ended : TRUE]
  <2>1. verdict = IF latest \ evidence # {} THEN Open("provider_interrupted", pending)
                  ELSE IF ended = {} THEN Open("ready", pending)
                  ELSE IF pending THEN Corrupted
                  ELSE Terminal(implied, "inferred")
    BY <1>4 DEF RecoverOpen, LatestReplies
  <2> SUFFICES ASSUME pending
               PROVE  verdict.finalization # "inferred" /\ verdict.pending
    OBVIOUS
  <2>2. pending = TRUE
    OBVIOUS
  <2> HIDE DEF pending, latest, ended, implied
  <2> QED BY <2>1, <2>2
<1> QED BY <1>1, <1>2, <1>3, <1>5

-----------------------------------------------------------------------------
(***************************************************************************)
(* The specification of the journal.                                       *)
(***************************************************************************)
JournalType == records \in Seq(Rows) /\ durable \in SUBSET Entries

(* What the variables range over, at every length of the journal. *)
THEOREM JournalTypes == Spec => []JournalType
<1>1. Init => JournalType
  <2>1. \A r \in Rows : <<r>> \in Seq(Rows)
    OBVIOUS
  <2>2. <<>> \in Seq(Rows)
    OBVIOUS
  <2> QED BY <2>1, <2>2 DEF Init, JournalType
<1>2. JournalType /\ [Next]_vars => JournalType'
  <2> SUFFICES ASSUME JournalType, [Next]_vars
               PROVE  JournalType'
    OBVIOUS
  <2>1. CASE Write
    BY <2>1 DEF Write, JournalType
  <2>2. CASE MakeDurable
    BY <2>2 DEF MakeDurable, JournalType
  <2>3. CASE UNCHANGED vars
    BY <2>3 DEF vars, JournalType
  <2> QED BY <2>1, <2>2, <2>3 DEF Next
<1> QED BY <1>1, <1>2, PTL DEF Spec

(* The reducer is the loop on every reachable journal, and on every such   *)
(* journal with one row too many (recovery.ts: recoverOperation).          *)
THEOREM ReducerIsTheLoop == Spec => []ReducerIsLoop
<1>1. JournalType => ReducerIsLoop
  <2> SUFFICES ASSUME JournalType PROVE ReducerIsLoop
    OBVIOUS
  <2> DEFINE ops == {"o", "other"}
  <2>1. records \in Seq(Row(ops))
    BY RowsAreRows DEF JournalType
  <2>2. ASSUME NEW r \in Rows
        PROVE  Append(records, r) \in Seq(Row(ops))
    <3>1. r \in Row(ops)
      BY RowsAreRows
    <3> QED BY <2>1, <3>1
  <2> HIDE DEF ops
  <2> QED BY <2>1, <2>2, ReducerTranslatesLoop DEF ReducerIsLoop, VerdictNow
<1> QED BY <1>1, JournalTypes, PTL

(* An accepted journal of the runs is one of Operation "o". *)
LEMMA AcceptedIsOwn ==
  ASSUME JournalType, ~Malformed(records, durable)
  PROVE  records[1].op = "o"
<1>1. records # <<>> /\ records[1].type = "operation_accepted" /\ records[1] \in Rows
  BY DEF Malformed, JournalType
<1>2. ASSUME NEW r \in Rows, r.type = "operation_accepted"
      PROVE  r.op = "o"
  BY <1>2 DEF Rows, OperationAccepted, ModelAttempted, UsageSettled, ToolDispatched, InputQueued,
     OperationFinished
<1> QED BY <1>1, <1>2

(* The outcome recovery writes, and that of a run that completed with no   *)
(* input left, is accepted and reads back as written.                      *)
THEOREM RecoveryReadsBack == Spec => []RecoveryIsIdempotent
<1>1. JournalType => RecoveryIsIdempotent
  <2> SUFFICES ASSUME JournalType PROVE RecoveryIsIdempotent
    OBVIOUS
  <2>1. records \in Seq(Rows)
    BY DEF JournalType
  <2>2. PICK verdict : verdict = VerdictNow
    OBVIOUS
  <2>3. ASSUME verdict.status \in {"ready", "provider_interrupted"}
                 \/ verdict.finalization = "inferred",
               NEW outcome,
               (verdict.finalization = "inferred" \/ ~verdict.pending) \/ outcome = "interrupted"
        PROVE  ReadsBack(outcome)
    <3>1. /\ ~Malformed(records, durable) /\ ~IsFinished(records)
          /\ IncompleteDispatches(records, durable) = {}
          /\ PendingInputs(records, durable) = {} \/ outcome = "interrupted"
      BY <2>2, <2>3, OpenVerdictSays DEF VerdictNow
    <3>2. records[1].op = "o"
      BY <3>1, AcceptedIsOwn
    <3> QED BY <2>1, <3>1, <3>2, FinishReadsBack DEF ReadsBack
  <2>4. Finalizable(verdict) => ReadsBack(RecoveredOutcome(verdict))
    BY <2>3 DEF Finalizable, RecoveredOutcome
  <2>5. verdict.status \in {"ready", "provider_interrupted"} /\ ~verdict.pending
          => \A outcome \in TerminalOutcome : ReadsBack(outcome)
    BY <2>3
  <2> QED BY <2>2, <2>4, <2>5 DEF RecoveryIsIdempotent
<1> QED BY <1>1, JournalTypes, PTL

(* A durable verdict was reduced from a terminal record at the end. *)
LEMMA DurableVerdictSays ==
  ASSUME NEW rows, NEW evidence, NEW ends,
         RecoverOperation(rows, evidence, ends).finalization = "durable"
  PROVE  /\ ~Malformed(rows, evidence)
         /\ IsFinished(rows)
         /\ IncompleteDispatches(rows, evidence) = {}
         /\ PendingInputs(rows, evidence) = {} \/ rows[Len(rows)].outcome = "interrupted"
<1> USE DEF Corrupted, Open, Terminal
<1>1. ~Malformed(rows, evidence)
  BY DEF RecoverOperation
<1>2. RecoverOpen(rows, evidence, ends).finalization # "durable"
  <2> DEFINE latest == LatestReplies(rows)
             ended == {e \in latest : ends[e] # NoOutcome}
             pending == PendingInputs(rows, evidence) # {}
             implied == ends[CHOOSE e \in ended : TRUE]
  <2>1. RecoverOpen(rows, evidence, ends) =
          IF latest \ evidence # {} THEN Open("provider_interrupted", pending)
          ELSE IF ended = {} THEN Open("ready", pending)
          ELSE IF pending THEN Corrupted
          ELSE Terminal(implied, "inferred")
    BY DEF RecoverOpen, LatestReplies
  <2> HIDE DEF pending, latest, ended, implied
  <2> QED BY <2>1
<1>3. IsFinished(rows)
  BY <1>1, <1>2 DEF RecoverOperation
<1>4. RecoverOperation(rows, evidence, ends) = RecoverFinished(rows, evidence)
  BY <1>1, <1>3 DEF RecoverOperation
<1> QED BY <1>1, <1>3, <1>4 DEF RecoverFinished

(* More durable entries do not change a durable verdict. *)
LEMMA DurableVerdictStays ==
  ASSUME NEW rows, NEW less, NEW more, less \subseteq more, NEW ends,
         RecoverOperation(rows, less, ends).finalization = "durable"
  PROVE  RecoverOperation(rows, more, ends) = RecoverOperation(rows, less, ends)
<1>1. /\ ~Malformed(rows, less) /\ IsFinished(rows)
      /\ IncompleteDispatches(rows, less) = {}
      /\ PendingInputs(rows, less) = {} \/ rows[Len(rows)].outcome = "interrupted"
  BY DurableVerdictSays
<1>2. ~Malformed(rows, more)
  BY <1>1 DEF Malformed, DispatchesUnknownReply
<1>3. IncompleteDispatches(rows, more) = {} /\ PendingInputs(rows, more) \subseteq PendingInputs(rows, less)
  BY <1>1 DEF IncompleteDispatches, PendingInputs
<1> QED BY <1>1, <1>2, <1>3 DEF RecoverOperation, RecoverFinished

(* No step of a writer changes a durable verdict: the store refuses every  *)
(* record after the terminal one, and entries only become durable.         *)
THEOREM DurableVerdictStands == Spec => DurableVerdictIsFinal
<1>1. ASSUME [Next]_vars, VerdictNow.finalization = "durable"
      PROVE  VerdictNow' = VerdictNow
  <2>1. IsFinished(records)
    BY <1>1, DurableVerdictSays DEF VerdictNow
  <2>2. CASE Write
    BY <2>1, <2>2 DEF Write, OperationAppendAllowed
  <2>3. CASE MakeDurable
    <3>1. durable \subseteq durable' /\ records' = records
      BY <2>3 DEF MakeDurable
    <3> QED BY <1>1, <3>1, DurableVerdictStays DEF VerdictNow
  <2>4. CASE UNCHANGED vars
    BY <2>4 DEF vars, VerdictNow
  <2> QED BY <1>1, <2>2, <2>3, <2>4 DEF Next
<1> QED BY <1>1, PTL DEF Spec, DurableVerdictIsFinal

(* Whatever the journal holds, the reducer answers with one of the         *)
(* declared verdicts: a terminal one carries an outcome and says where it  *)
(* is from, and no other carries any (types.ts: OperationRecoveryVerdict). *)
THEOREM VerdictsAreTyped == Spec => [](VerdictNow \in Verdict)
<1>1. ASSUME JournalType
      PROVE  VerdictNow \in Verdict
  <2> DEFINE ops == {"o", "other"}
             latest == LatestReplies(records)
             ended == {e \in latest : Ending[e] # NoOutcome}
             pending == PendingInputs(records, durable) # {}
             implied == Ending[CHOOSE e \in ended : TRUE]
  <2>1. \A i \in DOMAIN records : records[i] \in Row(ops)
    BY <1>1, RowsAreRows DEF JournalType
  <2>2. \A p \in BOOLEAN : /\ Open("provider_interrupted", p) \in Verdict
                           /\ Open("ready", p) \in Verdict
                           /\ Open("indeterminate_tool", p) \in Verdict
    BY DEF Open, Verdict, VerdictStatus
  <2>3. Corrupted \in Verdict
    BY DEF Corrupted, Open, Verdict, VerdictStatus
  <2>4. \A out \in TerminalOutcome, from \in {"durable", "inferred"} : Terminal(out, from) \in Verdict
    BY DEF Terminal, Verdict, VerdictStatus
  <2>5. ASSUME ~Malformed(records, durable), IsFinished(records)
        PROVE  RecoverFinished(records, durable) \in Verdict
    <3>1. PICK i \in DOMAIN records : records[i].type = "operation_finished" /\ i = Len(records)
      BY <2>5 DEF IsFinished, Malformed, Of
    <3>2. records[Len(records)].outcome \in TerminalOutcome
      BY <2>1, <3>1, RowFields
    <3> QED BY <2>3, <2>4, <3>2 DEF RecoverFinished
  <2>6. RecoverOpen(records, durable, Ending) \in Verdict
    <3>1. latest \subseteq Entries
      BY <2>1, RowFields DEF LatestReplies, IsLatestAttempt, Of
    <3>2. ended # {} => (CHOOSE e \in ended : TRUE) \in ended
      OBVIOUS
    <3>3. ended # {} => implied \in TerminalOutcome
      BY <3>1, <3>2, EndingAssumption
    <3>4. RecoverOpen(records, durable, Ending) =
            IF latest \ durable # {} THEN Open("provider_interrupted", pending)
            ELSE IF ended = {} THEN Open("ready", pending)
            ELSE IF pending THEN Corrupted
            ELSE Terminal(implied, "inferred")
      BY DEF RecoverOpen, LatestReplies
    <3>5. pending \in BOOLEAN
      OBVIOUS
    <3> HIDE DEF latest, ended, pending, implied
    <3> QED BY <2>2, <2>3, <2>4, <3>3, <3>4, <3>5
  <2> QED BY <2>2, <2>3, <2>5, <2>6 DEF VerdictNow, RecoverOperation
<1> QED BY <1>1, JournalTypes, PTL
=============================================================================
