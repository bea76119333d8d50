-------------------------- MODULE ConfigStoreSafety --------------------------
(***************************************************************************)
(* Theorems about ConfigStore: for any processes, writes, deaths and       *)
(* edits, one process writes at a time and no write that returned is lost, *)
(* as long as no lock is removed that was not that of a dead process; and  *)
(* an agent ends with the settings in the file, however its loads overlap. *)
(***************************************************************************)
EXTENDS ConfigStore, SequenceTheorems, TLAPS

EditEntries == {"edit"} \X Nat
Entries == (Processes \cup {"edit"}) \X Nat

Stages == {"idle", "shown", "locking", "breaking", "again", "loading"} \cup Critical
PlanSet == [attempt : 0..2, expected : SUBSET Entries, base : SUBSET Entries]
LockSet == {NoLock} \cup [by : Processes, pid : BOOLEAN]
LoadSet == [no : Nat, prev : SUBSET Entries, read : SUBSET Entries,
            stage : {"reading", "read", "newest"}]
TurnSet == [no : Nat, prev : SUBSET Entries, read : SUBSET Entries, back : BOOLEAN]

(* What the writers hold. *)
WriterTypes ==
  /\ file \in SUBSET Entries
  /\ edits \in Nat
  /\ removed \in SUBSET Entries
  /\ lock \in LockSet
  /\ alive \subseteq Processes
  /\ pc \in [Processes -> Stages]
  /\ writes \in [Processes -> 0..MaxWrites]
  /\ plan \in [Processes -> PlanSet]
  /\ done \subseteq Processes \X Nat
  /\ broken \in BOOLEAN

(* What the agents hold to read by. *)
ReaderTypes ==
  /\ lastValid \in [Agents -> SUBSET Entries]
  /\ notices \in [Agents -> SUBSET {"event", "timer"}]
  /\ watching \in [Agents -> BOOLEAN]
  /\ loads \in [Agents -> SUBSET LoadSet]
  /\ queue \in [Agents -> Seq(TurnSet)]

(* A write under way has a plan, and a second attempt is the last. *)
PlanInv ==
  \A p \in Processes :
    /\ pc[p] \in {"idle", "loading"} => plan[p] = NoPlan
    /\ pc[p] \notin {"idle", "loading"} => plan[p].attempt > 0
    /\ pc[p] = "again" => plan[p].attempt < 2

(* An agent waits for one load of its own write at most, wherever that load *)
(* is; one load is the newest; and the watchers are missing only for a load *)
(* whose turn it is.                                                        *)
LoadInv ==
  \A a \in Agents :
    /\ \A l, m \in loads[a] : l.no = m.no => l = m
    /\ \A l, m \in loads[a] : l.stage = "newest" /\ m.stage = "newest" => l = m
    /\ \A i, j \in 1..Len(queue[a]) : queue[a][i].no = Own /\ queue[a][j].no = Own => i = j
    /\ \A l \in loads[a] : l.no = Own => \A i \in 1..Len(queue[a]) : queue[a][i].no # Own
    /\ \A l \in loads[a] : l.no = Own => pc[a] = "loading"
    /\ \A i \in 1..Len(queue[a]) : queue[a][i].no = Own => pc[a] = "loading"
    /\ watching[a] \/ queue[a] # <<>>

(* What programs have written is in the file or taken out by the user; a    *)
(* write under way knows it as of the revision it expects, and so as of now *)
(* once that has been checked.                                              *)
Kept ==
  /\ done \subseteq file \cup removed
  /\ \A p \in alive :
       /\ pc[p] = "shown" => plan[p].expected \ EditEntries \subseteq file \cup removed
       /\ pc[p] \in {"locking", "breaking", "created", "held"} =>
            plan[p].expected \ EditEntries \subseteq plan[p].base \cup removed
       /\ pc[p] = "checked" => file \ EditEntries \subseteq plan[p].base \cup removed
       /\ pc[p] \in {"written", "loading"} => Entry(p) \in file \cup removed

KeptInv == ~broken => Kept

Inv == WriterTypes /\ ReaderTypes /\ PlanInv /\ LoadInv /\ OneWriter /\ KeptInv

(* The steps of the writers that leave the readers alone, and the others. *)
Quietly(p) ==
  \/ BeginsGrant(p) \/ Shows(p) \/ Saves(p)
  \/ Locks(p) \/ FindsDead(p) \/ Breaks(p) \/ TimesOut(p) \/ WritesPid(p) \/ Checks(p)
  \/ Dies(p)

-----------------------------------------------------------------------------
LEMMA EntryIsProgram ==
  ASSUME WriterTypes, NEW p \in Processes
  PROVE  Entry(p) \in Processes \X Nat /\ Entry(p) \in Entries /\ Entry(p) \notin EditEntries
  BY ConfigAssumption DEF WriterTypes, Entry, Entries, EditEntries, Processes

LEMMA EditIsNone ==
  ASSUME NEW k \in Nat
  PROVE  Edit(k) \in Entries /\ Edit(k) \in EditEntries
  BY DEF Edit, Entries, EditEntries

LEMMA ProgramsAreNoEdits == (Processes \X Nat) \cap EditEntries = {}
  BY ConfigAssumption DEF EditEntries, Processes

LEMMA NobodyIsNone == "none" \notin Processes /\ NoLock.by = "none"
  BY ConfigAssumption DEF Processes, NoLock

LEMMA InitInv == Init => Inv
<1> SUFFICES ASSUME Init PROVE Inv
  OBVIOUS
<1>1. WriterTypes
  <2>1. NoPlan \in PlanSet
    BY DEF NoPlan, PlanSet
  <2>2. MaxWrites \in Nat
    BY ConfigAssumption
  <2>3. writes \in [Processes -> 0..MaxWrites]
    BY <2>2 DEF Init
  <2>4. pc \in [Processes -> Stages] /\ plan \in [Processes -> PlanSet]
    BY <2>1 DEF Init, Stages
  <2> QED BY <2>3, <2>4 DEF Init, WriterTypes, LockSet
<1>2. ReaderTypes
  BY DEF Init, ReaderTypes
<1>3. PlanInv /\ LoadInv
  BY DEF Init, PlanInv, LoadInv, Processes
<1>4. OneWriter /\ KeptInv
  BY NobodyIsNone DEF Init, OneWriter, KeptInv, Kept, Critical
<1> QED BY <1>1, <1>2, <1>3, <1>4 DEF Inv

-----------------------------------------------------------------------------
(***************************************************************************)
(* The steps of a writer that leave the readers alone.                     *)
(***************************************************************************)
LEMMA QuietTypes ==
  ASSUME Inv, NEW p \in Processes, Quietly(p)
  PROVE  WriterTypes' /\ ReaderTypes' /\ PlanInv'
<1> USE DEF Inv, WriterTypes, reader, user, Processes
<1>1. ReaderTypes'
  BY DEF Quietly, BeginsGrant, Shows, Saves, Locks, FindsDead, Breaks, TimesOut, WritesPid,
         Checks, Dies, ReaderTypes
<1>2. ASSUME BeginsGrant(p) PROVE WriterTypes' /\ PlanInv'
  <2>1. plan[p].attempt + 1 \in 1..2
    BY <1>2 DEF BeginsGrant, PlanInv, PlanSet, NoPlan
  <2>2. [attempt |-> plan[p].attempt + 1, expected |-> file, base |-> file] \in PlanSet
    BY <2>1 DEF PlanSet
  <2>3. writes' \in [Processes -> 0..MaxWrites]
    BY <1>2, ConfigAssumption DEF BeginsGrant
  <2> QED BY <1>2, <2>1, <2>2, <2>3 DEF BeginsGrant, PlanInv, Stages
<1>3. ASSUME Shows(p) \/ Saves(p) PROVE WriterTypes' /\ PlanInv'
  <2>1. writes' \in [Processes -> 0..MaxWrites]
    BY <1>3, ConfigAssumption DEF Shows, Saves
  <2> QED BY <1>3, <2>1 DEF Shows, Saves, PlanInv, PlanSet, Stages
<1>4. ASSUME Locks(p) \/ FindsDead(p) \/ Breaks(p) \/ WritesPid(p) \/ Checks(p)
      PROVE  WriterTypes' /\ PlanInv'
  <2>1. lock' \in LockSet
    <3>1. CASE WritesPid(p)
      <4>1. CASE lock.by = p
        <5>1. lock \in [by : Processes, pid : BOOLEAN]
          BY <4>1, NobodyIsNone DEF LockSet
        <5>2. [lock EXCEPT !.pid = TRUE] \in [by : Processes, pid : BOOLEAN]
          BY <5>1
        <5> QED BY <3>1, <4>1, <5>2 DEF WritesPid, LockSet
      <4>2. CASE lock.by # p
        BY <3>1, <4>2 DEF WritesPid
      <4> QED BY <4>1, <4>2
    <3>2. CASE Locks(p) \/ Breaks(p)
      <4>1. [by |-> p, pid |-> FALSE] \in LockSet /\ NoLock \in LockSet
        BY DEF LockSet
      <4> QED BY <3>2, <4>1 DEF Locks, Breaks, RemovesLock
    <3>3. CASE FindsDead(p) \/ Checks(p)
      BY <3>3 DEF FindsDead, Checks
    <3> QED BY <1>4, <3>1, <3>2, <3>3
  <2>2. broken' \in BOOLEAN
    BY <1>4, Zenon DEF Locks, FindsDead, Breaks, RemovesLock, WritesPid, Checks
  <2> QED BY <1>4, <2>1, <2>2
    DEF Locks, FindsDead, Breaks, WritesPid, Checks, PlanInv, Stages, Critical
<1>5. ASSUME TimesOut(p) PROVE WriterTypes' /\ PlanInv'
  <2>1. NoPlan \in PlanSet
    BY DEF NoPlan, PlanSet
  <2> QED BY <1>5, <2>1 DEF TimesOut, PlanInv, Stages
<1>6. ASSUME Dies(p) PROVE WriterTypes' /\ PlanInv'
  BY <1>6 DEF Dies, PlanInv
<1> QED BY <1>1, <1>2, <1>3, <1>4, <1>5, <1>6 DEF Quietly

LEMMA QuietLoads ==
  ASSUME Inv, NEW p \in Processes, Quietly(p)
  PROVE  LoadInv'
<1>1. UNCHANGED <<loads, queue, watching>>
  BY DEF Quietly, BeginsGrant, Shows, Saves, Locks, FindsDead, Breaks, TimesOut, WritesPid,
         Checks, Dies, reader
<1>2. \A a \in Agents : pc'[a] = "loading" <=> pc[a] = "loading"
  BY DEF Quietly, BeginsGrant, Shows, Saves, Locks, FindsDead, Breaks, TimesOut, WritesPid,
         Checks, Dies, Inv, WriterTypes, Processes, Critical
<1> QED BY <1>1, <1>2 DEF Inv, LoadInv

(* Whoever removes a lock, the only process that can lose its own is one *)
(* that a broken lock excepts.                                           *)
LEMMA RemovedLock ==
  ASSUME Inv, NEW p \in Processes, RemovesLock(p), ~broken', alive' = alive,
         NEW q \in alive, pc[q] \in Critical
  PROVE  q = p
<1>1. ~broken /\ lock.by = q
  BY DEF Inv, RemovesLock, OneWriter
<1>2. lock = NoLock \/ lock.by = p \/ lock.by \notin alive
  BY DEF RemovesLock, IsDead
<1> QED BY <1>1, <1>2, NobodyIsNone DEF Inv, WriterTypes

LEMMA QuietWriters ==
  ASSUME Inv, NEW p \in Processes, Quietly(p)
  PROVE  OneWriter'
<1> USE DEF Inv
<1>1. ASSUME BeginsGrant(p) \/ Shows(p) \/ Saves(p) \/ FindsDead(p) \/ TimesOut(p) \/ Checks(p)
      PROVE  OneWriter'
  BY <1>1 DEF BeginsGrant, Shows, Saves, FindsDead, TimesOut, Checks, OneWriter, WriterTypes,
              Critical
<1>2. ASSUME Locks(p) PROVE OneWriter'
  BY <1>2, NobodyIsNone DEF Locks, OneWriter, WriterTypes, Critical
<1>3. ASSUME Breaks(p) PROVE OneWriter'
  <2>1. ASSUME ~broken', NEW q \in alive, pc'[q] \in Critical PROVE FALSE
    <3>1. pc[q] \in Critical
      BY <1>3, <2>1 DEF Breaks, WriterTypes, Critical
    <3>2. q = p
      BY <1>3, <2>1, <3>1, RemovedLock DEF Breaks
    <3> QED BY <1>3, <3>1, <3>2 DEF Breaks, Critical
  <2> QED BY <1>3, <2>1, NobodyIsNone DEF Breaks, RemovesLock, OneWriter, WriterTypes
<1>4. ASSUME WritesPid(p) PROVE OneWriter'
  <2>1. lock'.by = lock.by
    BY <1>4 DEF WritesPid, WriterTypes, LockSet, NoLock
  <2> QED BY <1>4, <2>1 DEF WritesPid, OneWriter, WriterTypes, Critical
<1>5. ASSUME Dies(p) PROVE OneWriter'
  BY <1>5 DEF Dies, OneWriter
<1> QED BY <1>1, <1>2, <1>3, <1>4, <1>5 DEF Quietly

LEMMA QuietKept ==
  ASSUME Inv, NEW p \in Processes, Quietly(p)
  PROVE  KeptInv'
<1> SUFFICES ASSUME ~broken' PROVE Kept'
  BY DEF KeptInv
<1>1. Kept
  BY DEF Inv, KeptInv, Quietly, BeginsGrant, Shows, Saves, Locks, FindsDead, Breaks,
         RemovesLock, TimesOut, WritesPid, Checks, Dies
<1>2. UNCHANGED <<file, removed, done>> /\ alive' \subseteq alive
  BY DEF Quietly, BeginsGrant, Shows, Saves, Locks, FindsDead, Breaks, TimesOut, WritesPid,
         Checks, Dies, user
<1>3. \A q \in Processes \ {p} : pc'[q] = pc[q] /\ plan'[q] = plan[q] /\ writes'[q] = writes[q]
  BY DEF Quietly, BeginsGrant, Shows, Saves, Locks, FindsDead, Breaks, TimesOut, WritesPid,
         Checks, Dies, Inv, WriterTypes, Processes
<1> DEFINE KeptBy(q) ==
       /\ pc[q] = "shown" => plan[q].expected \ EditEntries \subseteq file \cup removed
       /\ pc[q] \in {"locking", "breaking", "created", "held"} =>
            plan[q].expected \ EditEntries \subseteq plan[q].base \cup removed
       /\ pc[q] = "checked" => file \ EditEntries \subseteq plan[q].base \cup removed
       /\ pc[q] \in {"written", "loading"} => Entry(q) \in file \cup removed
<1>4. ASSUME NEW q \in alive', q # p PROVE KeptBy(q)'
  BY <1>1, <1>2, <1>3, <1>4 DEF Kept, Entry, Inv, WriterTypes
<1>5. ASSUME p \in alive' PROVE KeptBy(p)'
  <2> USE DEF Inv, WriterTypes, Critical
  <2>1. ASSUME BeginsGrant(p) \/ Shows(p) PROVE KeptBy(p)'
    BY <2>1, <1>2, <1>5 DEF BeginsGrant, Shows, Processes
  <2>2. ASSUME Saves(p) PROVE KeptBy(p)'
    <3>1. plan[p].expected \ EditEntries \subseteq file \cup removed
      BY <2>2, <1>1, <1>5 DEF Saves, Kept
    <3>2. plan'[p].expected = plan[p].expected /\ plan'[p].base = file /\ pc'[p] = "locking"
      BY <2>2 DEF Saves, PlanSet, Processes
    <3> QED BY <1>2, <3>1, <3>2
  <2>3. ASSUME Locks(p) \/ FindsDead(p) \/ Breaks(p) \/ WritesPid(p) PROVE KeptBy(p)'
    <3>1. plan[p].expected \ EditEntries \subseteq plan[p].base \cup removed
      BY <2>3, <1>1, <1>2, <1>5 DEF Locks, FindsDead, Breaks, WritesPid, Kept
    <3>2. plan'[p] = plan[p] /\ pc'[p] \in {"locking", "breaking", "created", "held"}
      BY <2>3 DEF Locks, FindsDead, Breaks, WritesPid
    <3> QED BY <1>2, <3>1, <3>2
  <2>4. ASSUME Checks(p) PROVE KeptBy(p)'
    <3>1. plan[p].expected \ EditEntries \subseteq plan[p].base \cup removed
      BY <2>4, <1>1, <1>2, <1>5 DEF Checks, Kept
    <3>2. plan'[p] = plan[p]
          /\ pc'[p] = IF file = plan[p].expected THEN "checked" ELSE "conflict"
      BY <2>4 DEF Checks
    <3> QED BY <1>2, <3>1, <3>2
  <2>5. ASSUME TimesOut(p) PROVE KeptBy(p)'
    BY <2>5 DEF TimesOut
  <2>6. ~Dies(p)
    BY <1>5 DEF Dies
  <2> QED BY <2>1, <2>2, <2>3, <2>4, <2>5, <2>6 DEF Quietly
<1>6. done' \subseteq file' \cup removed'
  BY <1>1, <1>2 DEF Kept
<1> QED BY <1>4, <1>5, <1>6 DEF Kept

-----------------------------------------------------------------------------
(***************************************************************************)
(* The file is replaced, and the lock given back.                          *)
(***************************************************************************)
LEMMA ReplaceInv ==
  ASSUME Inv, NEW p \in Processes, Replaces(p)
  PROVE  Inv'
<1> USE DEF Inv
<1>1. file' = plan[p].base \cup {Entry(p)} /\ file' \in SUBSET Entries
  BY EntryIsProgram DEF Replaces, WriterTypes, PlanSet
<1>2. WriterTypes'
  BY <1>1 DEF Replaces, WriterTypes, Stages, Critical, user
<1>3. ReaderTypes'
  BY DEF Replaces, Noticed, ReaderTypes
<1>4. PlanInv'
  BY DEF Replaces, PlanInv, WriterTypes
<1>5. LoadInv'
  BY DEF Replaces, Noticed, LoadInv, WriterTypes, Processes
<1>6. OneWriter'
  BY DEF Replaces, OneWriter, WriterTypes, Critical
<1>7. ASSUME ~broken' PROVE Kept'
  <2>1. ~broken /\ Kept /\ p \in alive /\ pc[p] = "checked"
    BY <1>7 DEF Replaces, KeptInv
  <2>2. file \ EditEntries \subseteq file' \cup removed
    BY <1>1, <2>1 DEF Kept
  <2>3. UNCHANGED <<done, alive, plan, writes, removed>> /\ Entry(p)' = Entry(p)
    BY DEF Replaces, Entry, user
  <2>4. done' \subseteq file' \cup removed'
    BY <2>1, <2>2, <2>3, ProgramsAreNoEdits DEF Kept, WriterTypes
  <2>5. ASSUME NEW q \in alive, q # p
        PROVE  /\ pc'[q] = pc[q] /\ pc[q] # "checked" /\ Entry(q)' = Entry(q)
               /\ pc[q] \in {"written", "loading"} => Entry(q) \in file' \cup removed'
    <3>1. pc[q] \notin Critical
      BY <2>1, <2>5 DEF OneWriter, Critical
    <3>2. pc'[q] = pc[q] /\ Entry(q)' = Entry(q)
      BY <2>5, <2>3 DEF Replaces, WriterTypes, Entry
    <3>3. q \in Processes
      BY DEF WriterTypes
    <3> QED BY <2>1, <2>2, <2>3, <3>1, <3>2, <3>3, EntryIsProgram DEF Kept, Critical
  <2>6. pc'[p] = "written" /\ Entry(p) \in file'
    BY <1>1 DEF Replaces, WriterTypes
  <2> QED BY <2>1, <2>2, <2>3, <2>4, <2>5, <2>6 DEF Kept
<1> QED BY <1>2, <1>3, <1>4, <1>5, <1>6, <1>7 DEF KeptInv

LEMMA ReleaseTypes ==
  ASSUME Inv, NEW p \in Processes, Releases(p)
  PROVE  WriterTypes' /\ ReaderTypes' /\ PlanInv'
<1> USE DEF Inv, WriterTypes
<1>1. NoPlan \in PlanSet /\ NoLock \in LockSet
  BY DEF NoPlan, PlanSet, LockSet
<1>2. broken' \in BOOLEAN
  BY Zenon DEF Releases, RemovesLock
<1>3. pc' \in [Processes -> Stages] /\ plan' \in [Processes -> PlanSet]
  BY <1>1 DEF Releases, Stages
<1>4. done' \subseteq Processes \X Nat
  BY EntryIsProgram DEF Releases
<1>5. WriterTypes'
  BY <1>1, <1>2, <1>3, <1>4 DEF Releases, RemovesLock, user
<1>6. loads' \in [Agents -> SUBSET LoadSet]
  <2>1. \A a \in Agents : NewLoad(Own, a) \in LoadSet
    BY DEF NewLoad, Own, LoadSet, ReaderTypes
  <2>2. CASE UNCHANGED loads
    BY <2>2 DEF ReaderTypes
  <2>3. CASE p \in Agents /\ loads' = [loads EXCEPT ![p] = @ \cup {NewLoad(Own, p)}]
    BY <2>1, <2>3 DEF ReaderTypes
  <2> QED BY <2>2, <2>3 DEF Releases
<1>7. ReaderTypes'
  BY <1>6 DEF Releases, ReaderTypes
<1>8. PlanInv'
  BY DEF Releases, PlanInv, PlanSet
<1> QED BY <1>5, <1>7, <1>8

LEMMA ReleaseLoads ==
  ASSUME Inv, NEW p \in Processes, Releases(p)
  PROVE  LoadInv'
<1> USE DEF Inv, WriterTypes, ReaderTypes, Processes
<1>1. CASE UNCHANGED loads /\ pc'[p] # "loading"
  BY <1>1 DEF Releases, LoadInv
<1>2. CASE p \in Agents /\ pc' = [pc EXCEPT ![p] = "loading"]
           /\ loads' = [loads EXCEPT ![p] = @ \cup {NewLoad(Own, p)}]
  <2>1. pc[p] # "loading" /\ watching' = watching /\ queue' = queue
    BY <1>2 DEF Releases
  <2>2. NewLoad(Own, p).no = Own /\ NewLoad(Own, p).stage = "reading"
    BY DEF NewLoad
  <2> QED BY <1>2, <2>1, <2>2 DEF LoadInv
<1>3. CASE p \notin Agents /\ pc' = [pc EXCEPT ![p] = "idle"] /\ UNCHANGED loads
  BY <1>3 DEF Releases, LoadInv
<1> QED BY <1>1, <1>2, <1>3 DEF Releases

LEMMA ReleaseInv ==
  ASSUME Inv, NEW p \in Processes, Releases(p)
  PROVE  Inv'
<1> USE DEF Inv, WriterTypes
<1>1. pc[p] \in {"conflict", "written"} /\ RemovesLock(p) /\ p \in alive
      /\ UNCHANGED <<file, removed, alive, writes>>
  BY DEF Releases, user
<1>2. pc' = [pc EXCEPT ![p] = pc'[p]] /\ pc'[p] \in {"again", "idle", "loading"}
  BY DEF Releases
<1>3. \A q \in Processes \ {p} : plan'[q] = plan[q]
  BY DEF Releases
<1>4. OneWriter'
  <2>1. ASSUME ~broken', NEW q \in alive, pc'[q] \in Critical PROVE FALSE
    <3>1. q # p /\ pc[q] \in Critical
      BY <1>2, <2>1 DEF Critical
    <3> QED BY <1>1, <2>1, <3>1, RemovedLock
  <2> QED BY <1>1, <2>1, NobodyIsNone DEF RemovesLock, OneWriter
<1>5. ASSUME ~broken' PROVE Kept'
  <2>1. Kept
    BY <1>1, <1>5 DEF RemovesLock, KeptInv
  <2>2. pc'[p] = "loading" => pc[p] = "written"
    BY DEF Releases
  <2>3. done' \subseteq file' \cup removed'
    BY <1>1, <2>1 DEF Releases, Kept
  <2>4. \A q \in Processes : Entry(q)' = Entry(q)
    BY <1>1 DEF Entry
  <2>5. pc'[p] = "loading" => Entry(p)' \in file' \cup removed'
    BY <1>1, <2>1, <2>2, <2>4 DEF Kept
  <2>6. \A q \in alive \ {p} : pc'[q] = pc[q] /\ plan'[q] = plan[q]
    BY <1>2, <1>3
  <2> QED BY <1>1, <1>2, <2>1, <2>3, <2>4, <2>5, <2>6 DEF Kept
<1> QED BY <1>4, <1>5, ReleaseTypes, ReleaseLoads DEF KeptInv

LEMMA EditInv ==
  ASSUME Inv, Edits
  PROVE  Inv'
<1> USE DEF Inv
<1>1. /\ edits' \in Nat
      /\ \/ \E e \in Entries \cap EditEntries : file' = file \cup {e} /\ removed' = removed
         \/ \E e \in file : file' = file \ {e} /\ removed' = removed \cup {e}
  BY EditIsNone DEF Edits, WriterTypes
<1>2. WriterTypes' /\ PlanInv' /\ OneWriter'
  BY <1>1 DEF Edits, writer, WriterTypes, PlanInv, OneWriter
<1>3. ReaderTypes' /\ LoadInv'
  BY DEF Edits, writer, Noticed, ReaderTypes, LoadInv
<1>4. KeptInv'
  <2>1. \A q \in Processes : Entry(q)' = Entry(q)
    BY DEF Edits, writer, Entry
  <2>2. /\ file \cup removed \subseteq file' \cup removed'
        /\ removed \subseteq removed' /\ file' \ EditEntries \subseteq file
    BY <1>1
  <2> QED BY <2>1, <2>2 DEF Edits, writer, KeptInv, Kept, WriterTypes
<1> QED BY <1>2, <1>3, <1>4

-----------------------------------------------------------------------------
(***************************************************************************)
(* The steps of a reader.                                                  *)
(***************************************************************************)
(* The first of the loads at the watchers, and the others. *)
LEMMA FirstTurn ==
  ASSUME NEW s \in Seq(TurnSet), s # <<>>
  PROVE  /\ Len(s) \in Nat \ {0} /\ Head(s) = s[1] /\ Head(s) \in TurnSet
         /\ Tail(s) \in Seq(TurnSet) /\ Len(Tail(s)) = Len(s) - 1
         /\ \A i \in 1..Len(Tail(s)) : Tail(s)[i] = s[i + 1]
  BY HeadTailProperties, EmptySeq

LEMMA OutdatedLoad ==
  ASSUME NEW l \in LoadSet
  PROVE  Outdated(l) \in LoadSet /\ Outdated(l).no = l.no /\ Outdated(l).stage # "newest"
<1>1. CASE l.stage = "newest"
  <2>1. Outdated(l) = [l EXCEPT !.stage = "read"]
    BY <1>1 DEF Outdated
  <2> QED BY <2>1 DEF LoadSet
<1>2. CASE l.stage # "newest"
  BY <1>2 DEF Outdated
<1> QED BY <1>1, <1>2

LEMMA AppendedTurn ==
  ASSUME NEW s \in Seq(TurnSet), NEW t \in TurnSet
  PROVE  /\ Len(s) \in Nat /\ Append(s, t) \in Seq(TurnSet) /\ Append(s, t) # <<>>
         /\ Len(Append(s, t)) = Len(s) + 1
         /\ \A i \in 1..Len(s) : Append(s, t)[i] = s[i]
         /\ Append(s, t)[Len(s) + 1] = t
  BY AppendProperties, LenProperties

LEMMA ReadInv ==
  ASSUME Inv, NEW a \in Agents, Schedules(a) \/ Reloads(a) \/ Unwatches(a)
         \/ \E l \in loads[a] : Reads(a, l) \/ Takes(a, l)
  PROVE  Inv'
<1> USE DEF Inv
<1>1. UNCHANGED <<file, user, writer>>
  BY DEF Schedules, Reloads, Reads, Takes, Unwatches
<1>2. WriterTypes' /\ PlanInv' /\ OneWriter' /\ KeptInv'
  BY <1>1 DEF writer, user, WriterTypes, PlanInv, OneWriter, KeptInv, Kept, Entry
<1>3. ASSUME Schedules(a) PROVE ReaderTypes' /\ LoadInv'
  BY <1>1, <1>3 DEF Schedules, writer, ReaderTypes, LoadInv
<1>4. ASSUME Reloads(a) PROVE ReaderTypes' /\ LoadInv'
  <2>1. PICK no \in 1..MaxReloads :
          /\ \A l \in loads[a] : l.no # no
          /\ loads' = [loads EXCEPT ![a] = @ \cup {NewLoad(no, a)}]
    BY <1>4 DEF Reloads
  <2>2. /\ NewLoad(no, a) \in LoadSet /\ NewLoad(no, a).no = no /\ no # Own
        /\ NewLoad(no, a).stage = "reading"
    BY ConfigAssumption DEF NewLoad, Own, LoadSet, ReaderTypes
  <2> QED BY <1>1, <1>4, <2>1, <2>2 DEF Reloads, writer, ReaderTypes, LoadInv
<1>5. ASSUME NEW l \in loads[a], Reads(a, l) PROVE ReaderTypes' /\ LoadInv'
  <2> DEFINE m == [l EXCEPT !.read = file, !.stage = "newest"]
  <2>1. l \in LoadSet
    BY DEF ReaderTypes
  <2>2. m \in LoadSet /\ m.no = l.no /\ m.stage = "newest"
    BY <2>1 DEF LoadSet, WriterTypes
  <2>3. loads' = [loads EXCEPT ![a] = {Outdated(k) : k \in @ \ {l}} \cup {m}]
        /\ UNCHANGED <<lastValid, notices, watching, queue, pc>>
    BY <1>5 DEF Reads, writer
  <2>4. \A k \in loads[a] : /\ Outdated(k) \in LoadSet /\ Outdated(k).no = k.no
                            /\ Outdated(k).stage # "newest"
    BY OutdatedLoad DEF ReaderTypes
  <2> HIDE DEF m
  <2>5. ReaderTypes'
    BY <2>2, <2>3, <2>4 DEF ReaderTypes
  <2>6. \A k \in loads'[a] : k = m \/ \E n \in loads[a] \ {l} : k = Outdated(n)
    BY <2>3 DEF ReaderTypes
  <2>7. /\ \A k, n \in loads'[a] : k.no = n.no => k = n
        /\ \A k, n \in loads'[a] : k.stage = "newest" /\ n.stage = "newest" => k = n
        /\ \A k \in loads'[a] : \E n \in loads[a] : k.no = n.no
    BY <2>2, <2>4, <2>6 DEF LoadInv
  <2>8. \A b \in Agents \ {a} : loads'[b] = loads[b]
    BY <2>3
  <2> QED BY <2>3, <2>5, <2>7, <2>8 DEF LoadInv
<1>6. ASSUME NEW l \in loads[a], Takes(a, l) PROVE ReaderTypes' /\ LoadInv'
  <2> DEFINE turn == [no |-> l.no, prev |-> l.prev, read |-> l.read,
                      back |-> l.read = l.prev /\ l.prev # lastValid[a]]
  <2>1. l \in LoadSet /\ turn \in TurnSet /\ turn.no = l.no
    BY DEF ReaderTypes, LoadSet, TurnSet
  <2>2. queue' = [queue EXCEPT ![a] = Append(@, turn)]
    BY <1>6 DEF Takes
  <2>3. loads' = [loads EXCEPT ![a] = @ \ {l}] /\ UNCHANGED <<notices, watching, pc>>
        /\ lastValid' = [lastValid EXCEPT ![a] = l.read]
    BY <1>6 DEF Takes, writer
  <2> HIDE DEF turn
  <2>4. /\ queue'[a] \in Seq(TurnSet) /\ queue'[a] # <<>> /\ Len(queue'[a]) = Len(queue[a]) + 1
        /\ \A i \in 1..Len(queue[a]) : queue'[a][i] = queue[a][i]
        /\ queue'[a][Len(queue[a]) + 1] = turn /\ Len(queue[a]) \in Nat
    <3>1. queue[a] \in Seq(TurnSet) /\ queue'[a] = Append(queue[a], turn)
      BY <2>2 DEF ReaderTypes
    <3> QED BY <2>1, <3>1, AppendedTurn
  <2>5. ReaderTypes'
    BY <2>1, <2>2, <2>3, <2>4 DEF ReaderTypes, LoadSet
  <2>6. \A i \in 1..Len(queue'[a]) : i \in 1..Len(queue[a]) \/ i = Len(queue[a]) + 1
    BY <2>4
  <2>7. \A i \in 1..Len(queue'[a]) : queue'[a][i].no = Own =>
          \/ i \in 1..Len(queue[a]) /\ queue[a][i].no = Own
          \/ i = Len(queue[a]) + 1 /\ l.no = Own
    BY <2>1, <2>4, <2>6
  <2>8. /\ \A i, j \in 1..Len(queue'[a]) : queue'[a][i].no = Own /\ queue'[a][j].no = Own => i = j
        /\ \A k \in loads'[a] : k.no = Own => \A i \in 1..Len(queue'[a]) : queue'[a][i].no # Own
        /\ \A i \in 1..Len(queue'[a]) : queue'[a][i].no = Own => pc'[a] = "loading"
    BY <2>3, <2>7 DEF LoadInv, ReaderTypes
  <2>9. \A b \in Agents \ {a} : loads'[b] = loads[b] /\ queue'[b] = queue[b]
    BY <2>2, <2>3
  <2>10. loads'[a] = loads[a] \ {l}
    BY <2>3 DEF ReaderTypes
  <2> QED BY <2>3, <2>4, <2>5, <2>8, <2>9, <2>10 DEF LoadInv
<1>7. ASSUME Unwatches(a) PROVE ReaderTypes' /\ LoadInv'
  <2>1. /\ queue[a] # <<>> /\ UNCHANGED <<lastValid, loads, queue, pc>>
        /\ watching' = [watching EXCEPT ![a] = FALSE]
        /\ notices' = [notices EXCEPT ![a] = @ \ {"event"}]
    BY <1>7 DEF Unwatches, writer
  <2> QED BY <2>1 DEF LoadInv, ReaderTypes
<1> QED BY <1>2, <1>3, <1>4, <1>5, <1>6, <1>7

LEMMA LoadedInv ==
  ASSUME Inv, NEW a \in Agents, Loaded(a)
  PROVE  Inv'
<1> USE DEF Inv
<1> DEFINE l == Head(queue[a])
<1>1. a \in Processes /\ a \in alive /\ queue[a] # <<>>
      /\ watching' = [watching EXCEPT ![a] = TRUE] /\ queue' = [queue EXCEPT ![a] = Tail(@)]
      /\ UNCHANGED <<file, user, lock, alive, writes, plan, broken, lastValid, notices, loads>>
  BY DEF Loaded, Processes
<1>2. /\ Len(queue[a]) \in Nat \ {0} /\ l = queue[a][1] /\ 1 \in 1..Len(queue[a])
      /\ Tail(queue[a]) \in Seq(TurnSet) /\ Len(Tail(queue[a])) = Len(queue[a]) - 1
      /\ \A i \in 1..Len(Tail(queue[a])) : Tail(queue[a])[i] = queue[a][i + 1]
  BY <1>1, FirstTurn DEF ReaderTypes
<1>3. IF l.no = Own
      THEN pc' = [pc EXCEPT ![a] = "idle"] /\ done' = done \cup {Entry(a)}
      ELSE UNCHANGED <<pc, done>>
  BY DEF Loaded
<1> HIDE DEF l
<1>4. l.no = Own => pc[a] = "loading"
  BY <1>2 DEF LoadInv
<1>5. WriterTypes'
  BY <1>1, <1>3, EntryIsProgram DEF WriterTypes, Stages, user
<1>6. ReaderTypes'
  BY <1>1, <1>2 DEF ReaderTypes
<1>7. PlanInv'
  BY <1>1, <1>3, <1>4 DEF PlanInv, WriterTypes
<1>8. LoadInv'
  <2>1. \A b \in Agents \ {a} : /\ pc'[b] = pc[b] /\ queue'[b] = queue[b]
                               /\ watching'[b] = watching[b]
    BY <1>1, <1>3 DEF WriterTypes, ReaderTypes, Processes
  <2>2. queue'[a] = Tail(queue[a]) /\ watching'[a] /\ loads' = loads
    BY <1>1 DEF ReaderTypes
  <2>3. \A i \in 1..Len(queue'[a]) : i + 1 \in 1..Len(queue[a]) /\ queue'[a][i] = queue[a][i + 1]
                                  /\ i + 1 # 1
    BY <1>2, <2>2
  <2>4. l.no = Own => /\ \A i \in 1..Len(queue'[a]) : queue'[a][i].no # Own
                      /\ \A k \in loads[a] : k.no # Own
    BY <1>2, <2>3 DEF LoadInv
  <2>5. l.no # Own => pc'[a] = pc[a]
    BY <1>3
  <2>6. /\ \A i, j \in 1..Len(queue'[a]) : queue'[a][i].no = Own /\ queue'[a][j].no = Own => i = j
        /\ \A k \in loads'[a] : k.no = Own => \A i \in 1..Len(queue'[a]) : queue'[a][i].no # Own
        /\ \A k \in loads'[a] : k.no = Own => pc'[a] = "loading"
        /\ \A i \in 1..Len(queue'[a]) : queue'[a][i].no = Own => pc'[a] = "loading"
    <3>1. \A i, j \in 1..Len(queue'[a]) : queue'[a][i].no = Own /\ queue'[a][j].no = Own => i = j
      <4> SUFFICES ASSUME NEW i \in 1..Len(queue'[a]), NEW j \in 1..Len(queue'[a]),
                          queue'[a][i].no = Own, queue'[a][j].no = Own
                   PROVE  i = j
        OBVIOUS
      <4>1. \A x, y \in 1..Len(queue[a]) : queue[a][x].no = Own /\ queue[a][y].no = Own => x = y
        BY DEF LoadInv
      <4>2. /\ i + 1 \in 1..Len(queue[a]) /\ queue[a][i + 1].no = Own
            /\ j + 1 \in 1..Len(queue[a]) /\ queue[a][j + 1].no = Own
        BY <2>3
      <4>3. i + 1 = j + 1
        <5> HIDE DEF Inv
        <5> QED BY ONLY <4>1, <4>2
      <4>4. i \in Int /\ j \in Int
        OBVIOUS
      <4> QED BY <4>3, <4>4
    <3> QED BY <2>2, <2>3, <2>4, <2>5, <3>1 DEF LoadInv
  <2>7. ASSUME NEW b \in Agents \ {a}
        PROVE  /\ loads'[b] = loads[b] /\ queue'[b] = queue[b] /\ pc'[b] = pc[b]
               /\ watching'[b] = watching[b]
    BY <2>1, <2>2
  <2>8. \A k, m \in loads'[a] : /\ k.no = m.no => k = m
                                /\ k.stage = "newest" /\ m.stage = "newest" => k = m
    BY <2>2 DEF LoadInv
  <2>9. watching'[a] \/ queue'[a] # <<>>
    BY <2>2
  <2> QED
    <3> SUFFICES ASSUME NEW b \in Agents
                 PROVE  /\ \A k, m \in loads'[b] : k.no = m.no => k = m
                        /\ \A k, m \in loads'[b] : k.stage = "newest" /\ m.stage = "newest" => k = m
                        /\ \A i, j \in 1..Len(queue'[b]) :
                             queue'[b][i].no = Own /\ queue'[b][j].no = Own => i = j
                        /\ \A k \in loads'[b] : k.no = Own =>
                             \A i \in 1..Len(queue'[b]) : queue'[b][i].no # Own
                        /\ \A k \in loads'[b] : k.no = Own => pc'[b] = "loading"
                        /\ \A i \in 1..Len(queue'[b]) : queue'[b][i].no = Own => pc'[b] = "loading"
                        /\ watching'[b] \/ queue'[b] # <<>>
      BY Zenon DEF LoadInv, Own
    <3>1. CASE b = a
      BY <2>6, <2>8, <2>9, <3>1
    <3>2. CASE b # a
      <4>1. b \in Agents \ {a}
        BY <3>2
      <4>2. LoadInv
        OBVIOUS
      <4> QED BY <2>7, <4>1, <4>2 DEF LoadInv
    <3> QED BY <3>1, <3>2
<1>9. OneWriter'
  BY <1>1, <1>3, <1>4 DEF OneWriter, WriterTypes, Critical
<1>10. KeptInv'
  <2>1. (\A q \in Processes : Entry(q)' = Entry(q)) /\ removed' = removed
    BY <1>1 DEF Entry, user
  <2> QED BY <1>1, <1>3, <1>4, <2>1 DEF KeptInv, Kept, WriterTypes
<1> QED BY <1>5, <1>6, <1>7, <1>8, <1>9, <1>10

-----------------------------------------------------------------------------
LEMMA InvStutter ==
  ASSUME Inv, UNCHANGED vars
  PROVE  Inv'
<1> USE DEF vars, writer, reader, user
<1>1. WriterTypes' /\ PlanInv' /\ OneWriter'
  BY DEF Inv, WriterTypes, PlanInv, OneWriter
<1>2. ReaderTypes' /\ LoadInv'
  BY DEF Inv, ReaderTypes, LoadInv
<1>3. KeptInv'
  BY DEF Inv, KeptInv, Kept, Entry
<1> QED BY <1>1, <1>2, <1>3 DEF Inv

LEMMA QuietInv ==
  ASSUME Inv, NEW p \in Processes, Quietly(p)
  PROVE  Inv'
<1>1. LoadInv' /\ OneWriter' /\ KeptInv'
  BY QuietLoads, QuietWriters, QuietKept
<1> QED BY <1>1, QuietTypes DEF Inv

LEMMA InvStep ==
  ASSUME Inv, [Next]_vars
  PROVE  Inv'
<1>1. ASSUME NEW p \in Processes, Write(p) \/ Dies(p) PROVE Inv'
  BY <1>1, QuietInv, ReplaceInv, ReleaseInv DEF Write, Quietly
<1>2. ASSUME NEW a \in Agents, Read(a) PROVE Inv'
  BY <1>2, ReadInv, LoadedInv DEF Read
<1>3. CASE Edits
  BY <1>3, EditInv
<1>4. CASE UNCHANGED vars
  BY <1>4, InvStutter
<1> QED BY <1>1, <1>2, <1>3, <1>4 DEF Next

LEMMA SpecInv == Spec => []Inv
<1>1. Init => Inv
  BY InitInv
<1>2. Inv /\ [Next]_vars => Inv'
  BY InvStep
<1> QED BY <1>1, <1>2, PTL DEF Spec

(***************************************************************************)
(* A process between creating and removing the lock file finds it its own, *)
(* so two never write at once (withWriteLock), for any processes, writes   *)
(* and deaths, unless a lock was removed that was not a dead process's.    *)
(***************************************************************************)
THEOREM OneWriterAtATime == Spec => []OneWriter
<1>1. Inv => OneWriter
  BY DEF Inv
<1> QED BY <1>1, SpecInv, PTL

(***************************************************************************)
(* Under the same condition every entry whose write has returned stays in  *)
(* the file until the user takes it out (writeScopeRaw): a write extends   *)
(* what it has read, and is refused when the file is not the one it        *)
(* expects.                                                                *)
(***************************************************************************)
THEOREM WritesAreKept == Spec => []NoWriteLost
<1>1. Inv => NoWriteLost
  BY DEF Inv, KeptInv, Kept, NoWriteLost
<1> QED BY <1>1, SpecInv, PTL

(***************************************************************************)
(* Every reachable state is type correct: a write under way has a plan,    *)
(* and the watchers are missing only while a load installs them.           *)
(***************************************************************************)
THEOREM ConfigTypesCorrect == Spec => []TypeOK
<1>1. Inv => TypeOK
  <2> SUFFICES ASSUME Inv PROVE TypeOK
    OBVIOUS
  <2> USE DEF Inv, WriterTypes, ReaderTypes
  <2>1. lock = NoLock \/ (lock.by \in Processes /\ lock.pid \in BOOLEAN)
    BY DEF LockSet
  <2>2. ASSUME NEW p \in Processes
        PROVE  /\ pc[p] \in {"idle", "shown", "locking", "breaking", "again", "loading"}
                    \cup Critical
               /\ writes[p] \in 0..MaxWrites /\ plan[p].attempt \in 0..2
               /\ pc[p] \in {"idle", "loading"} <=> plan[p] = NoPlan
    BY DEF Stages, PlanSet, PlanInv, NoPlan
  <2>3. ASSUME NEW a \in Agents
        PROVE  /\ notices[a] \subseteq {"event", "timer"} /\ watching[a] \in BOOLEAN
               /\ watching[a] \/ queue[a] # <<>>
    BY DEF LoadInv
  <2> QED BY <2>1, <2>2, <2>3 DEF TypeOK
<1> QED BY <1>1, SpecInv, PTL
-----------------------------------------------------------------------------
(***************************************************************************)
(* What the readers know.                                                  *)
(***************************************************************************)
FollowTypes ==
  /\ snapshot \in [Agents -> SUBSET Entries]
  /\ heard \in [Agents -> SUBSET Entries]
  /\ missed \in [Agents -> BOOLEAN]
  /\ late \in [Agents -> BOOLEAN]
  /\ unsaid \in [Agents -> BOOLEAN]
  /\ silent \in [Agents -> BOOLEAN]

(* The agent decides by v, and unless a write was silent the listeners know *)
(* it; or a reload told nobody what it should have.                         *)
Told(a, v) == unsaid[a] \/ (snapshot[a] = v /\ (~silent[a] => heard[a] = v))

(* With no change to hear of and nothing left to read, the file is what a   *)
(* load has read last.                                                      *)
HasRead(a) ==
  ~missed[a] /\ notices[a] = {} /\ (\A l \in loads[a] : l.stage # "reading") =>
    /\ \A l \in loads[a] : l.stage = "newest" => l.read = file
    /\ ~HasNewest(a) => late[a] \/ lastValid[a] = file

(* Has the load nothing to tell, and need not? *)
NothingNew(l) == l.no # Own /\ l.read = l.prev /\ ~l.back

(* The last load at the watchers has set lastValid, and one that has nothing *)
(* to tell finds what the one before it will have told.                      *)
HasTold(a) ==
  /\ queue[a] = <<>> => Told(a, lastValid[a])
  /\ queue[a] # <<>> => lastValid[a] = queue[a][Len(queue[a])].read
  /\ \A i \in 1..Len(queue[a]) : NothingNew(queue[a][i]) =>
       IF i = 1 THEN Told(a, queue[a][i].read) ELSE queue[a][i - 1].read = queue[a][i].read

FollowInv == \A a \in Agents : HasRead(a) /\ HasTold(a)

ReaderInv == Inv /\ FollowTypes /\ FollowInv

LEMMA InitReaders == Init => ReaderInv
<1> SUFFICES ASSUME Init PROVE ReaderInv
  OBVIOUS
<1>1. FollowTypes
  BY DEF Init, FollowTypes
<1>2. FollowInv
  BY DEF Init, FollowInv, HasRead, HasTold, HasNewest, Told
<1> QED BY <1>1, <1>2, InitInv DEF ReaderInv

LEMMA FollowTypesStep ==
  ASSUME Inv, FollowTypes, [Next]_vars
  PROVE  FollowTypes'
<1> USE DEF FollowTypes, ReaderTypes, Inv, telling
<1>1. ASSUME NEW p \in Processes, Quietly(p) PROVE FollowTypes'
  BY <1>1 DEF Quietly, BeginsGrant, Shows, Saves, Locks, FindsDead, Breaks, TimesOut, WritesPid,
              Checks, Dies, reader
<1>2. ASSUME NEW p \in Processes, Replaces(p) \/ Releases(p) \/ Edits PROVE FollowTypes'
  BY <1>2 DEF Replaces, Releases, Edits, Noticed
<1>3. ASSUME NEW a \in Agents, Read(a) PROVE FollowTypes'
  <2>1. CASE Schedules(a) \/ Reloads(a) \/ Unwatches(a)
    BY <1>3, <2>1 DEF Schedules, Reloads, Unwatches
  <2>2. ASSUME NEW l \in loads[a], Reads(a, l) \/ Takes(a, l) PROVE FollowTypes'
    BY <2>2 DEF Reads, Takes
  <2>3. CASE Loaded(a)
    <3> DEFINE l == Head(queue[a])
    <3>1. l \in TurnSet
      BY <2>3, FirstTurn DEF Loaded
    <3>2. Emits(a, l) /\ UNCHANGED <<missed, late>>
      BY <2>3 DEF Loaded
    <3> HIDE DEF l
    <3>3. l.read \in SUBSET Entries /\ l.back \in BOOLEAN
      BY <3>1 DEF TurnSet
    <3>4. heard' \in [Agents -> SUBSET Entries] /\ snapshot' \in [Agents -> SUBSET Entries]
      BY <3>2, <3>3 DEF Emits
    <3>5. silent' \in [Agents -> BOOLEAN] /\ unsaid' \in [Agents -> BOOLEAN]
      BY <3>2, <3>3 DEF Emits
    <3> QED BY <3>2, <3>4, <3>5
  <2> QED BY <1>3, <2>1, <2>2, <2>3 DEF Read
<1>4. CASE Edits
  BY <1>4 DEF Edits, Noticed
<1>5. CASE UNCHANGED vars
  BY <1>5 DEF vars, reader
<1> QED BY <1>1, <1>2, <1>3, <1>4, <1>5 DEF Next, Write, Quietly

(* A step of the writers that does not change the file tells no reader, but *)
(* for the load that a grant begins.                                        *)
LEMMA FollowWrites ==
  ASSUME ReaderInv, NEW p \in Processes, Quietly(p) \/ Releases(p)
  PROVE  FollowInv'
<1> USE DEF ReaderInv, FollowInv, telling
<1>1. UNCHANGED <<file, lastValid, snapshot, heard, notices, queue, late, missed, unsaid, silent>>
  <2>1. CASE Quietly(p)
    BY <2>1 DEF Quietly, BeginsGrant, Shows, Saves, Locks, FindsDead, Breaks, TimesOut, WritesPid,
                Checks, Dies, reader
  <2>2. CASE Releases(p)
    BY <2>2 DEF Releases
  <2> QED BY <2>1, <2>2
<1>2. ASSUME NEW a \in Agents
      PROVE  loads'[a] = loads[a] \/ loads'[a] = loads[a] \cup {NewLoad(Own, a)}
  <2>1. CASE Quietly(p)
    BY <2>1 DEF Quietly, BeginsGrant, Shows, Saves, Locks, FindsDead, Breaks, TimesOut, WritesPid,
                Checks, Dies, reader
  <2>2. CASE Releases(p)
    BY <2>2 DEF Releases, Inv, ReaderTypes
  <2> QED BY <2>1, <2>2
<1>3. \A a \in Agents : NewLoad(Own, a).stage = "reading"
  BY DEF NewLoad
<1>4. ASSUME NEW a \in Agents PROVE HasRead(a)'
  BY <1>1, <1>2, <1>3 DEF HasRead, HasNewest
<1>5. ASSUME NEW a \in Agents PROVE HasTold(a)'
  BY <1>1 DEF HasTold, Told
<1> QED BY <1>4, <1>5

(* A change of the file is an event to every agent that watches, and unseen *)
(* by the others.                                                           *)
LEMMA FollowChange ==
  ASSUME ReaderInv, Noticed
  PROVE  FollowInv'
<1> USE DEF ReaderInv, FollowInv
<1>1. ASSUME NEW a \in Agents PROVE HasRead(a)'
  <2>1. CASE watching[a]
    <3>1. "event" \in notices'[a]
      BY <2>1 DEF Noticed
    <3> QED BY <3>1 DEF HasRead
  <2>2. CASE ~watching[a]
    <3>1. missed'[a]
      BY <2>2 DEF Noticed
    <3> QED BY <3>1 DEF HasRead
  <2> QED BY <2>1, <2>2
<1>2. ASSUME NEW a \in Agents PROVE HasTold(a)'
  BY DEF HasTold, Told, Noticed, telling
<1> QED BY <1>1, <1>2

(* The other agents, in a step of the reader of one. *)
LEMMA FollowOthers ==
  ASSUME ReaderInv, NEW a \in Agents, Read(a), NEW b \in Agents \ {a}
  PROVE  HasRead(b)' /\ HasTold(b)'
<1> USE DEF ReaderInv, FollowInv, Inv, ReaderTypes, FollowTypes, telling
<1> DEFINE Same ==
      /\ file' = file /\ lastValid'[b] = lastValid[b] /\ snapshot'[b] = snapshot[b]
      /\ heard'[b] = heard[b] /\ notices'[b] = notices[b] /\ queue'[b] = queue[b]
      /\ loads'[b] = loads[b] /\ late'[b] = late[b] /\ missed'[b] = missed[b]
      /\ unsaid'[b] = unsaid[b] /\ silent'[b] = silent[b]
<1>1. ASSUME Schedules(a) \/ Reloads(a) \/ Unwatches(a) PROVE Same
  BY <1>1 DEF Schedules, Reloads, Unwatches
<1>2. ASSUME NEW l \in loads[a], Reads(a, l) \/ Takes(a, l) PROVE Same
  BY <1>2 DEF Reads, Takes
<1>3. ASSUME Loaded(a) PROVE Same
  BY <1>3 DEF Loaded, Emits
<1>4. Same
  BY <1>1, <1>2, <1>3 DEF Read
<1>5. HasRead(b)'
  <2>1. HasNewest(b)' <=> HasNewest(b)
    BY <1>4 DEF HasNewest
  <2> QED BY <1>4, <2>1 DEF HasRead
<1>6. HasTold(b)'
  <2>1. \A v : Told(b, v) => Told(b, v)'
    BY <1>4 DEF Told
  <2> QED BY <1>4, <2>1 DEF HasTold
<1> QED BY <1>5, <1>6

(* A reload is scheduled, or begins. *)
LEMMA FollowReloads ==
  ASSUME ReaderInv, NEW a \in Agents, Schedules(a) \/ Reloads(a)
  PROVE  HasRead(a)' /\ HasTold(a)'
<1> USE DEF ReaderInv, FollowInv, Inv, ReaderTypes, telling
<1>1. CASE Schedules(a)
  <2>1. notices'[a] = {"timer"} /\ UNCHANGED <<lastValid, queue, snapshot, heard, unsaid, silent>>
    BY <1>1 DEF Schedules
  <2> QED BY <2>1 DEF HasRead, HasTold, Told
<1>2. CASE Reloads(a)
  <2>1. PICK no \in 1..MaxReloads : loads'[a] = loads[a] \cup {NewLoad(no, a)}
    BY <1>2 DEF Reloads
  <2>2. UNCHANGED <<lastValid, queue, snapshot, heard, unsaid, silent>>
    BY <1>2 DEF Reloads
  <2>3. NewLoad(no, a).stage = "reading"
    BY DEF NewLoad
  <2> QED BY <2>1, <2>2, <2>3 DEF HasRead, HasTold, Told
<1> QED BY <1>1, <1>2

(* The file is read. *)
LEMMA FollowReads ==
  ASSUME ReaderInv, NEW a \in Agents, NEW l \in loads[a], Reads(a, l)
  PROVE  HasRead(a)' /\ HasTold(a)'
<1> USE DEF ReaderInv, FollowInv, Inv, ReaderTypes
<1> DEFINE m == [l EXCEPT !.read = file, !.stage = "newest"]
<1>1. l \in LoadSet /\ file \in SUBSET Entries
  BY DEF WriterTypes
<1>2. m.read = file /\ m.stage = "newest"
  BY <1>1 DEF LoadSet
<1>3. loads'[a] = {Outdated(k) : k \in loads[a] \ {l}} \cup {m}
      /\ UNCHANGED <<file, lastValid, queue, snapshot, heard, unsaid, silent>>
  BY DEF Reads, telling
<1>4. \A k \in loads[a] : Outdated(k).stage # "newest"
  BY DEF Outdated, LoadSet
<1> HIDE DEF m
<1>5. HasRead(a)'
  BY <1>2, <1>3, <1>4 DEF HasRead, HasNewest
<1>6. HasTold(a)'
  BY <1>3 DEF HasTold, Told
<1> QED BY <1>5, <1>6

(* What was read becomes the last valid settings. *)
LEMMA FollowTakes ==
  ASSUME ReaderInv, NEW a \in Agents, NEW l \in loads[a], Takes(a, l)
  PROVE  HasRead(a)' /\ HasTold(a)'
<1> USE DEF ReaderInv, FollowInv, Inv, ReaderTypes
<1> DEFINE turn == [no |-> l.no, prev |-> l.prev, read |-> l.read,
                    back |-> l.read = l.prev /\ l.prev # lastValid[a]]
<1>1. l \in LoadSet /\ turn \in TurnSet /\ turn.read = l.read
  BY DEF LoadSet, TurnSet
<1>2. NothingNew(turn) => turn.read = lastValid[a]
  BY DEF NothingNew
<1>3. /\ loads'[a] = loads[a] \ {l} /\ lastValid'[a] = l.read
      /\ queue'[a] = Append(queue[a], turn)
      /\ UNCHANGED <<file, notices, missed, snapshot, heard, unsaid, silent>>
  BY DEF Takes, telling
<1>4. late'[a] = (l.stage # "newest" /\ (late[a] \/ (~HasNewest(a) /\ l.read # lastValid[a])))
  BY DEF Takes, FollowTypes
<1> HIDE DEF turn
<1>5. HasRead(a)'
  <2> SUFFICES ASSUME ~missed'[a], notices'[a] = {}, \A k \in loads'[a] : k.stage # "reading"
               PROVE  /\ \A k \in loads'[a] : k.stage = "newest" => k.read = file'
                      /\ ~HasNewest(a)' => late'[a] \/ lastValid'[a] = file'
    BY DEF HasRead
  <2>1. l.stage # "reading"
    BY DEF Takes
  <2>2. /\ \A k \in loads[a] : k.stage = "newest" => k.read = file
        /\ ~HasNewest(a) => late[a] \/ lastValid[a] = file
    BY <1>3, <2>1 DEF HasRead
  <2>3. CASE l.stage = "newest"
    BY <1>3, <2>2, <2>3
  <2>4. CASE l.stage # "newest"
    <3>1. HasNewest(a)' <=> HasNewest(a)
      BY <1>3, <2>4 DEF HasNewest
    <3> QED BY <1>3, <1>4, <2>2, <2>4, <3>1
  <2> QED BY <2>3, <2>4
<1>6. HasTold(a)'
  <2> DEFINE n == Len(queue[a])
  <2>1. /\ queue'[a] # <<>> /\ Len(queue'[a]) = n + 1 /\ n \in Nat
        /\ \A i \in 1..n : queue'[a][i] = queue[a][i]
        /\ queue'[a][n + 1] = turn
    <3>1. queue[a] \in Seq(TurnSet)
      OBVIOUS
    <3> QED BY <1>1, <1>3, <3>1, AppendedTurn
  <2>2. n = 0 => queue[a] = <<>>
    BY EmptySeq
  <2> HIDE DEF n
  <2>3. \A v : Told(a, v) => Told(a, v)'
    BY <1>3 DEF Told
  <2>4. ASSUME NEW i \in 1..Len(queue'[a]), NothingNew(queue'[a][i])
        PROVE  IF i = 1 THEN Told(a, queue[a][i].read)'
               ELSE queue'[a][i - 1].read = queue'[a][i].read
    <3>1. CASE i = n + 1
      <4>1. CASE n = 0
        BY <1>2, <2>1, <2>2, <2>3, <2>4, <3>1, <4>1 DEF HasTold
      <4>2. CASE n # 0
        <5>1. lastValid[a] = queue[a][n].read
          BY <2>1, <4>2 DEF HasTold, n
        <5>2. i - 1 = n /\ n \in 1..n /\ i # 1
          BY <2>1, <3>1, <4>2
        <5> QED BY <1>2, <2>1, <2>4, <3>1, <5>1, <5>2
      <4> QED BY <4>1, <4>2
    <3>2. CASE i # n + 1
      <4>1. i \in 1..n /\ (i # 1 => i - 1 \in 1..n)
        BY <2>1, <3>2
      <4>2. IF i = 1 THEN Told(a, queue[a][i].read) ELSE queue[a][i - 1].read = queue[a][i].read
        BY <2>1, <2>4, <4>1 DEF HasTold, n
      <4> QED BY <2>1, <2>3, <4>1, <4>2
    <3> QED BY <3>1, <3>2
  <2> QED BY <1>1, <1>3, <2>1, <2>4 DEF HasTold, NothingNew
<1> QED BY <1>5, <1>6

(* What the newest load has read was read last. *)
LEMMA NewestIsLast ==
  ASSUME LoadInv, NEW a \in Agents, NEW l \in loads[a], l.stage = "newest"
  PROVE  LastRead(a) = l.read
<1> DEFINE c == CHOOSE k \in loads[a] : k.stage = "newest"
<1>1. c \in loads[a] /\ c.stage = "newest"
  OBVIOUS
<1>2. HasNewest(a)
  BY DEF HasNewest
<1>3. LastRead(a) = c.read
  BY <1>2 DEF LastRead
<1> HIDE DEF c
<1>4. c = l
  BY <1>1 DEF LoadInv
<1> QED BY <1>3, <1>4

(* The watchers close, with the changes they have not told yet. *)
LEMMA FollowUnwatches ==
  ASSUME ReaderInv, NEW a \in Agents, Unwatches(a)
  PROVE  HasRead(a)' /\ HasTold(a)'
<1> USE DEF ReaderInv, FollowInv, Inv, ReaderTypes
<1>1. /\ notices'[a] = notices[a] \ {"event"}
      /\ UNCHANGED <<file, lastValid, loads, queue, late, snapshot, heard, unsaid, silent>>
  BY DEF Unwatches, telling
<1>2. missed'[a] = (missed[a] \/ ("event" \in notices[a] /\ file # LastRead(a)))
  BY DEF Unwatches, FollowTypes
<1>3. HasRead(a)'
  <2>1. CASE "event" \notin notices[a]
    BY <1>1, <1>2, <2>1 DEF HasRead, HasNewest
  <2>2. CASE "event" \in notices[a] /\ file = LastRead(a)
    <3>1. \A l \in loads[a] : l.stage = "newest" => l.read = file
      BY <2>2, NewestIsLast
    <3>2. ~HasNewest(a) => lastValid[a] = file
      BY <2>2 DEF LastRead
    <3> QED BY <1>1, <3>1, <3>2 DEF HasRead, HasNewest
  <2>3. CASE "event" \in notices[a] /\ file # LastRead(a)
    BY <1>2, <2>3 DEF HasRead
  <2> QED BY <2>1, <2>2, <2>3
<1>4. HasTold(a)'
  BY <1>1 DEF HasTold, Told
<1> QED BY <1>3, <1>4

(* The load returns, and tells what is new. *)
LEMMA FollowLoaded ==
  ASSUME ReaderInv, NEW a \in Agents, Loaded(a)
  PROVE  HasRead(a)' /\ HasTold(a)'
<1> USE DEF ReaderInv, FollowInv, Inv, ReaderTypes, FollowTypes
<1>0. PICK l : l = Head(queue[a])
  OBVIOUS
<1> DEFINE n == Len(queue[a])
<1>1. /\ queue[a] # <<>> /\ queue'[a] = Tail(queue[a]) /\ Emits(a, l)
      /\ UNCHANGED <<file, lastValid, notices, loads, late, missed>>
  BY <1>0 DEF Loaded
<1>2. /\ n \in Nat \ {0} /\ l = queue[a][1] /\ l \in TurnSet
      /\ Tail(queue[a]) \in Seq(TurnSet) /\ Len(queue'[a]) = n - 1
      /\ \A i \in 1..(n - 1) : queue'[a][i] = queue[a][i + 1]
  BY <1>0, <1>1, FirstTurn
<1>3. HasRead(a)'
  BY <1>1 DEF HasRead, HasNewest
<1>4. lastValid[a] = queue[a][n].read /\ (NothingNew(queue[a][1]) => Told(a, queue[a][1].read))
  <2>1. HasTold(a)
    OBVIOUS
  <2>2. lastValid[a] = queue[a][n].read
    BY <1>1, <2>1 DEF HasTold
  <2>3. 1 \in 1..Len(queue[a])
    BY <1>2
  <2>4. NothingNew(queue[a][1]) => Told(a, queue[a][1].read)
    BY <2>1, <2>3 DEF HasTold
  <2> QED BY <2>2, <2>4
<1>5. \A i \in 2..n : NothingNew(queue[a][i]) => queue[a][i - 1].read = queue[a][i].read
  BY <1>2 DEF HasTold
<1> HIDE DEF n
<1>6. Told(a, l.read)'
  <2>1. /\ heard'[a] = IF l.no # Own /\ l.read # l.prev THEN l.read ELSE heard[a]
        /\ snapshot'[a] = IF l.no = Own \/ l.read # l.prev THEN l.read ELSE snapshot[a]
        /\ unsaid'[a] = (l.no # Own /\ l.read = l.prev /\ (unsaid[a] \/ l.back))
        /\ silent'[a] = IF l.no = Own THEN l.read # heard[a] ELSE silent[a] /\ l.read = l.prev
    BY <1>1 DEF Emits
  <2>2. CASE l.no = Own
    BY <2>1, <2>2 DEF Told
  <2>3. CASE l.no # Own /\ l.read # l.prev
    BY <2>1, <2>3 DEF Told
  <2>4. CASE l.no # Own /\ l.read = l.prev /\ l.back
    BY <2>1, <2>4 DEF Told
  <2>5. CASE NothingNew(l)
    <3>1. Told(a, l.read) /\ l.no # Own /\ l.read = l.prev
      BY <1>2, <1>4, <2>5 DEF NothingNew
    <3> QED BY <2>1, <3>1 DEF Told
  <2> QED BY <2>2, <2>3, <2>4, <2>5 DEF NothingNew
<1>7. HasTold(a)'
  <2>1. queue'[a] = <<>> => n = 1
    BY <1>1, <1>2, EmptySeq
  <2>2. queue'[a] = <<>> => Told(a, lastValid[a])'
    BY <1>1, <1>2, <1>4, <1>6, <2>1
  <2>3. queue'[a] # <<>> => lastValid'[a] = queue'[a][Len(queue'[a])].read
    <3>1. queue'[a] # <<>> => n - 1 \in 1..(n - 1)
      BY <1>1, <1>2, EmptySeq
    <3> QED BY <1>1, <1>2, <1>4, <3>1
  <2>4. ASSUME NEW i \in 1..Len(queue'[a]), NothingNew(queue'[a][i])
        PROVE  IF i = 1 THEN Told(a, queue[a][i].read)'
               ELSE queue'[a][i - 1].read = queue'[a][i].read
    <3>1. i \in 1..(n - 1) /\ i + 1 \in 2..n /\ (i + 1) - 1 = i /\ queue'[a][i] = queue[a][i + 1]
      BY <1>2
    <3>2. queue[a][i].read = queue'[a][i].read
      BY <1>5, <2>4, <3>1
    <3>3. i # 1 => queue'[a][i - 1] = queue[a][i]
      <4>1. i # 1 => i - 1 \in 1..(n - 1) /\ (i - 1) + 1 = i
        BY <1>2, <3>1
      <4> QED BY <1>2, <4>1
    <3> QED BY <1>2, <1>6, <3>2, <3>3
  <2> QED BY <2>2, <2>3, <2>4 DEF HasTold, NothingNew
<1> QED BY <1>3, <1>7

LEMMA ReaderStep ==
  ASSUME ReaderInv, [Next]_vars
  PROVE  ReaderInv'
<1>1. Inv' /\ FollowTypes'
  BY InvStep, FollowTypesStep DEF ReaderInv
<1>2. FollowInv'
  <2>1. ASSUME NEW p \in Processes, Write(p) \/ Dies(p) PROVE FollowInv'
    <3>1. Quietly(p) \/ Releases(p) \/ (Replaces(p) /\ Noticed)
      BY <2>1 DEF Write, Quietly, Replaces
    <3> QED BY <3>1, FollowWrites, FollowChange
  <2>2. ASSUME NEW a \in Agents, Read(a) PROVE FollowInv'
    <3>1. HasRead(a)' /\ HasTold(a)'
      BY <2>2, FollowReloads, FollowReads, FollowTakes, FollowUnwatches, FollowLoaded DEF Read
    <3> QED BY <2>2, <3>1, FollowOthers DEF FollowInv
  <2>3. CASE Edits
    BY <2>3, FollowChange DEF Edits
  <2>4. CASE UNCHANGED vars
    BY <2>4 DEF vars, reader, telling, ReaderInv, FollowInv, HasRead, HasNewest, HasTold, Told
  <2> QED BY <2>1, <2>2, <2>3, <2>4 DEF Next
<1> QED BY <1>1, <1>2 DEF ReaderInv

(***************************************************************************)
(* Once nothing is under way an agent decides by the settings in the file, *)
(* and its listeners know them (store.ts watch, reload and load), for any  *)
(* processes and writes and any number of overlapping loads, also when an  *)
(* earlier revision comes back, unless a change fell between two sets of   *)
(* watchers, a load set what it had read before another, or a reload found *)
(* the revision it began with after another load had set one in between.   *)
(***************************************************************************)
THEOREM AgentsFollowTheFile == Spec => []ReadersFollow
<1>1. ReaderInv => ReadersFollow
  <2> SUFFICES ASSUME ReaderInv, NEW a \in Agents, Quiet(a), ~missed[a], ~late[a], ~unsaid[a]
               PROVE  snapshot[a] = file /\ (~silent[a] => heard[a] = file)
    BY DEF ReadersFollow
  <2>1. loads[a] = {} /\ notices[a] = {} /\ queue[a] = <<>>
    BY DEF Quiet
  <2>2. lastValid[a] = file
    BY <2>1 DEF ReaderInv, FollowInv, HasRead, HasNewest
  <2>3. Told(a, lastValid[a])
    BY <2>1 DEF ReaderInv, FollowInv, HasTold
  <2> QED BY <2>2, <2>3 DEF Told
<1> QED BY <1>1, InitReaders, ReaderStep, PTL DEF Spec
=============================================================================
