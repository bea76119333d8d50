---------------------------- MODULE ApprovalsSafety ----------------------------
(***************************************************************************)
(* Proofs about SessionApprovals.  The queue of an Operation never idles   *)
(* and is empty once cancelled; it shows at most one request, which is     *)
(* awaited unless an Extension tool of a detached subagent is left behind. *)
(***************************************************************************)
EXTENDS SessionApprovals, FiniteSetTheorems, TLAPS

(***************************************************************************)
(* The inductive invariant.                                                *)
(***************************************************************************)

\* Where the queued function of a call is once it has been started.
Busy == {"scheduled", "review", "asked", "failing", "decided", "recheck"}

SlotHeld ==
  \A o \in Operations :
    queue[o].slot # NoCall =>
      /\ OperationOf[queue[o].slot] = o
      /\ body[queue[o].slot] \in Busy
      /\ verdict[queue[o].slot] = "none"

HolderHasSlot ==
  \A c \in Calls :
    body[c] \in Busy /\ verdict[c] = "none" => queue[OperationOf[c]].slot = c

\* Is this sequence of entries in order, when the functions are at `bodies`?
EntriesWait(o, entries, bodies, settled) ==
  /\ \A i \in DOMAIN entries :
       /\ OperationOf[entries[i]] = o
       /\ bodies[entries[i]] # "none"
       /\ entries[i] \notin settled => bodies[entries[i]] = "queued"
  /\ \A i, j \in DOMAIN entries : entries[i] = entries[j] => i = j

Settled == {c \in Calls : verdict[c] # "none"}

EntriesOK ==
  \A o \in Operations :
    /\ EntriesWait(o, queue[o].entries, body, Settled)
    /\ queue[o].slot = NoCall => queue[o].entries = <<>>

QueueInv == SlotHeld /\ HolderHasSlot /\ EntriesOK

QueueTypes ==
  /\ queue \in [Operations -> Queue]
  /\ verdict \in [Calls -> Verdicts]
  /\ body \in [Calls -> Bodies]

HostTypes ==
  /\ active \in {0} \cup Operations
  /\ phase \in [Operations -> Phases]
  /\ closed \in BOOLEAN
  /\ closes \in 0..MaxCloses
  /\ pending \subseteq Calls
  /\ aborted \subseteq Calls
  /\ controllers \subseteq Calls
  /\ answer \in [Calls -> Decisions \cup {"none", "reviewed"}]
  /\ outcome \in [Calls -> Outcomes]
  /\ grants \subseteq Scopes
  /\ changes \in 0..MaxChanges

Ended == {"ending", "over", "stuck"}

\* The signals of c are aborted, or at least that of its queue: the own signal of
\* an Extension tool is not when a detached subagent is left behind.
SignalsAborted(c) ==
  /\ c \in controllers
  /\ c \in Extension =>
       c \in aborted \/ (c \in Detached /\ phase[OperationOf[c]] \in Ended)

\* The function of c goes on although c has settled.
GoesOn(c) == body[c] \in Busy /\ verdict[c] # "none"

SettledGoesOn == \A c \in Calls : GoesOn(c) => SignalsAborted(c)

\* One call of an Operation can be left behind: the one that held the slot.
OneLeftBehind ==
  \A c, d \in Calls :
    /\ GoesOn(c) /\ c \notin aborted
    /\ GoesOn(d) /\ d \notin aborted
    /\ c \in Extension /\ d \in Extension
    /\ OperationOf[c] = OperationOf[d]
    => c = d

OutcomeAfterVerdict ==
  \A c \in Calls : outcome[c] # "none" => verdict[c] # "none"

EndedIsCancelled ==
  \A o \in Operations : phase[o] \in Ended => queue[o].cancelled

ActiveIsOpen ==
  \A o \in Operations : phase[o] \in {"running", "ending", "stuck"} <=> active = o

\* The request of c is shown while its running Operation waits for it.
AskedInTime(c) ==
  /\ active = OperationOf[c]
  /\ phase[OperationOf[c]] = "running"
  /\ verdict[c] = "none"

\* The request of c is shown although c has settled.
AskedInVain(c) == verdict[c] # "none" /\ c \in Extension \ aborted

ShownIsAsked ==
  \A c \in pending : body[c] = "asked" /\ (AskedInTime(c) \/ AskedInVain(c))

\* The promise of requestApproval is resolved with the client's decision.
DecidedIsAnswered ==
  \A c \in Calls : body[c] = "decided" => answer[c] \in Decisions

HostInv ==
  /\ SettledGoesOn
  /\ OneLeftBehind
  /\ DecidedIsAnswered
  /\ OutcomeAfterVerdict
  /\ EndedIsCancelled
  /\ CancelSettles
  /\ ActiveIsOpen
  /\ ShownIsAsked

ApprovalInv == TypeOK /\ QueueInv /\ HostInv

(***************************************************************************)
(* settle and pump.                                                        *)
(***************************************************************************)

\* What a step of the queue leaves alone.
SettleFrame(gone, bodies) ==
  /\ \A c \in Calls :
       /\ c \notin gone => verdict'[c] = verdict[c]
       /\ c \in gone => verdict'[c] # "none"
       /\ verdict[c] # "none" => verdict'[c] = verdict[c]
       /\ \/ body'[c] = bodies[c]
          \/ bodies[c] = "queued" /\ body'[c] = "scheduled" /\ verdict'[c] = "none"
  /\ \A p \in Operations : queue'[p].cancelled = queue[p].cancelled

LEMMA SettleKeeps ==
  ASSUME QueueTypes, QueueInv,
         NEW o \in Operations, NEW gone \in SUBSET CallsOf(o),
         NEW v \in Verdicts, gone # {} => v # "none",
         NEW entries \in Seq(Calls), NEW bodies \in [Calls -> Bodies],
         EntriesWait(o, entries, bodies, Settled \cup gone),
         \A c \in Calls \ CallsOf(o) : bodies[c] = body[c],
         \A c \in CallsOf(o) \ gone :
           verdict[c] = "none" /\ bodies[c] \in Busy => queue[o].slot = c,
         queue[o].slot \in Calls \ gone => bodies[queue[o].slot] \in Busy,
         queue[o].slot \in gone => queue[o].slot \in Calls,
         Settle(o, gone, v, entries, bodies)
  PROVE  QueueTypes' /\ QueueInv' /\ SettleFrame(gone, bodies)
PROOF
<1> USE ApprovalAssumption
<1> DEFINE waiting == {i \in DOMAIN entries :
                         entries[i] \notin gone /\ verdict[entries[i]] = "none"}
<1>1. /\ queue \in [Operations -> Queue]
      /\ verdict \in [Calls -> Verdicts]
      /\ gone \subseteq Calls
      /\ NoCall \notin Calls
      /\ DOMAIN entries = 1..Len(entries) /\ Len(entries) \in Nat
      /\ \A i \in DOMAIN entries : entries[i] \in Calls
  BY DEF QueueTypes, CallsOf
<1>2. verdict' = [c \in Calls |->
          IF c \in gone /\ verdict[c] = "none" THEN v ELSE verdict[c]]
  BY DEF Settle
<1>3. /\ verdict' \in [Calls -> Verdicts]
      /\ \A c \in Calls : /\ c \in gone => verdict'[c] # "none"
                          /\ c \notin gone => verdict'[c] = verdict[c]
                          /\ verdict[c] # "none" => verdict'[c] = verdict[c]
  BY <1>1, <1>2
<1>4. Settled' = Settled \cup gone
  BY <1>1, <1>3 DEF Settled
<1>5. CASE \E i \in waiting :
             /\ SlotFree(o, gone)
             /\ \A j \in waiting : i <= j
             /\ queue' = [queue EXCEPT
                   ![o].slot = entries[i],
                   ![o].entries = SubSeq(entries, i + 1, Len(entries))]
             /\ body' = [bodies EXCEPT ![entries[i]] = "scheduled"]
  <2>1. PICK i \in waiting :
             /\ SlotFree(o, gone)
             /\ queue' = [queue EXCEPT
                   ![o].slot = entries[i],
                   ![o].entries = SubSeq(entries, i + 1, Len(entries))]
             /\ body' = [bodies EXCEPT ![entries[i]] = "scheduled"]
    BY <1>5
  <2> DEFINE e == entries[i]
             rest == SubSeq(entries, i + 1, Len(entries))
  <2>2. /\ i \in 1..Len(entries) /\ e \in Calls /\ e \notin gone
        /\ verdict[e] = "none" /\ bodies[e] = "queued" /\ OperationOf[e] = o
    BY <1>1, <2>1 DEF EntriesWait, Settled
  <2>3. /\ rest \in Seq(Calls) /\ Len(rest) = Len(entries) - i
        /\ \A j \in 1..Len(rest) :
             /\ rest[j] = entries[i + j]
             /\ i + j \in 1..Len(entries)
             /\ i + j # i
    <3> DEFINE n == Len(entries)
    <3>1. n \in Nat /\ i \in 1..n /\ entries \in Seq(Calls)
      BY <1>1, <2>2
    <3>2. /\ i + 1 \in 1..n + 1 /\ n - i \in Nat
          /\ \A j \in 1..n - i : i + j \in 1..n /\ i + j # i /\ i + 1 + j - 1 = i + j
      BY <3>1
    <3>3. /\ rest \in Seq(Calls)
          /\ Len(rest) = n - i
          /\ \A j \in 1..n - i : rest[j] = entries[i + 1 + j - 1]
      BY <3>1, <3>2, <1>1
    <3> QED BY <3>2, <3>3
  <2>4. /\ queue'[o] = [slot |-> e, entries |-> rest, cancelled |-> queue[o].cancelled]
        /\ queue'[o].slot = e /\ queue'[o].entries = rest
        /\ queue'[o].cancelled = queue[o].cancelled
        /\ \A p \in Operations \ {o} : queue'[p] = queue[p]
        /\ queue' \in [Operations -> Queue]
    <3>1. PICK s \in Calls \cup {NoCall}, es \in Seq(Calls), k \in BOOLEAN :
            queue[o] = [slot |-> s, entries |-> es, cancelled |-> k]
      BY <1>1 DEF Queue
    <3>2. [slot |-> e, entries |-> rest, cancelled |-> k] \in Queue
      BY <2>2, <2>3 DEF Queue
    <3>3. queue' = [queue EXCEPT ![o].slot = e, ![o].entries = rest]
      BY <2>1
    <3> HIDE DEF rest, e
    <3>4. queue'[o] = [[queue[o] EXCEPT !.slot = e] EXCEPT !.entries = rest]
      BY <3>3, <1>1
    <3>5. queue'[o] = [slot |-> e, entries |-> rest, cancelled |-> k]
      <4>1. [queue[o] EXCEPT !.slot = e] = [slot |-> e, entries |-> es, cancelled |-> k]
        BY <3>1
      <4>2. queue'[o] = [[slot |-> e, entries |-> es, cancelled |-> k] EXCEPT !.entries = rest]
        BY <3>4, <4>1
      <4> QED BY <4>2
    <3>6. /\ DOMAIN queue' = Operations
          /\ \A p \in Operations \ {o} : queue'[p] = queue[p]
          /\ queue' = [p \in Operations |-> queue'[p]]
      BY <3>3, <1>1
    <3>7. /\ queue'[o].slot = e /\ queue'[o].entries = rest
          /\ queue'[o].cancelled = k /\ queue[o].cancelled = k
      BY <3>1, <3>5
    <3>8. queue' \in [Operations -> Queue]
      <4>1. \A p \in Operations : queue'[p] \in Queue
        BY <3>2, <3>5, <3>6, <1>1
      <4> QED BY <3>6, <4>1
    <3> QED BY <3>5, <3>6, <3>7, <3>8
  <2>5. /\ body' \in [Calls -> Bodies]
        /\ body'[e] = "scheduled"
        /\ \A c \in Calls \ {e} : body'[c] = bodies[c]
    BY <2>1, <2>2 DEF Bodies
  <2>6. QueueTypes'
    BY <1>3, <2>4, <2>5 DEF QueueTypes
  <2>7. SlotHeld'
    <3> SUFFICES ASSUME NEW p \in Operations, queue'[p].slot # NoCall
                 PROVE  /\ OperationOf[queue'[p].slot] = p
                        /\ body'[queue'[p].slot] \in Busy
                        /\ verdict'[queue'[p].slot] = "none"
      BY DEF SlotHeld
    <3>1. CASE p = o
      BY <3>1, <2>4, <2>5, <2>2, <1>3 DEF Busy
    <3>2. CASE p # o
      <4>1. /\ queue[p].slot \in Calls /\ OperationOf[queue[p].slot] = p
            /\ body[queue[p].slot] \in Busy /\ verdict[queue[p].slot] = "none"
        BY <3>2, <2>4, <1>1 DEF QueueInv, SlotHeld, Queue
      <4>2. queue[p].slot \notin CallsOf(o) /\ queue[p].slot # e
        BY <4>1, <3>2, <2>2 DEF CallsOf
      <4> QED BY <4>1, <4>2, <3>2, <2>4, <2>5, <1>3
    <3> QED BY <3>1, <3>2
  <2>8. HolderHasSlot'
    <3> SUFFICES ASSUME NEW c \in Calls, body'[c] \in Busy, verdict'[c] = "none"
                 PROVE  queue'[OperationOf[c]].slot = c
      BY DEF HolderHasSlot
    <3>1. CASE c = e
      BY <3>1, <2>2, <2>4
    <3>2. CASE c # e /\ c \in CallsOf(o)
      <4>1. c \notin gone /\ verdict[c] = "none" /\ bodies[c] \in Busy
        BY <3>2, <2>5, <1>3
      <4>2. queue[o].slot = c
        BY <4>1, <3>2
      <4> QED BY <4>1, <4>2, <2>1, <1>1 DEF SlotFree
    <3>3. CASE c # e /\ c \notin CallsOf(o)
      <4>1. body[c] \in Busy /\ verdict[c] = "none" /\ OperationOf[c] \in Operations \ {o}
        BY <3>3, <2>5, <1>3 DEF CallsOf
      <4> QED BY <4>1, <2>4 DEF QueueInv, HolderHasSlot
    <3> QED BY <3>1, <3>2, <3>3
  <2>9. EntriesOK'
    <3> SUFFICES ASSUME NEW p \in Operations
                 PROVE  /\ EntriesWait(p, queue'[p].entries, body', Settled \cup gone)
                        /\ queue'[p].slot = NoCall => queue'[p].entries = <<>>
      BY <1>4 DEF EntriesOK, EntriesWait
    <3>1. CASE p = o
      <4>1. queue'[p].slot # NoCall /\ queue'[p].entries = rest /\ DOMAIN rest = 1..Len(rest)
        BY <3>1, <2>2, <2>3, <2>4, <1>1
      <4>2. \A j \in 1..Len(rest) :
              /\ OperationOf[rest[j]] = o /\ rest[j] # e
              /\ bodies[rest[j]] # "none"
              /\ rest[j] \notin Settled \cup gone => bodies[rest[j]] = "queued"
        <5> SUFFICES ASSUME NEW j \in 1..Len(rest)
                     PROVE  /\ OperationOf[rest[j]] = o /\ rest[j] # e
                            /\ bodies[rest[j]] # "none"
                            /\ rest[j] \notin Settled \cup gone =>
                                 bodies[rest[j]] = "queued"
          OBVIOUS
        <5>1. rest[j] = entries[i + j] /\ i + j \in DOMAIN entries /\ i + j # i
          BY <2>3, <1>1
        <5>2. entries[i + j] # entries[i]
          BY <5>1, <2>2, <1>1 DEF EntriesWait
        <5> HIDE DEF rest
        <5> QED BY <5>1, <5>2 DEF EntriesWait
      <4>3. \A j, k \in 1..Len(rest) : rest[j] = rest[k] => j = k
        BY <2>2, <2>3, <1>1 DEF EntriesWait
      <4>4. \A j \in 1..Len(rest) : rest[j] \in Calls
        BY <2>3, <1>1
      <4> QED BY <4>1, <4>2, <4>3, <4>4, <2>5, <3>1 DEF EntriesWait
    <3>2. CASE p # o
      <4>1. /\ queue'[p] = queue[p]
            /\ EntriesWait(p, queue[p].entries, body, Settled)
            /\ queue[p].slot = NoCall => queue[p].entries = <<>>
            /\ queue[p].entries \in Seq(Calls)
        BY <3>2, <2>4, <1>1 DEF QueueInv, EntriesOK, Queue
      <4>2. \A j \in DOMAIN queue[p].entries :
              /\ queue[p].entries[j] \in Calls
              /\ queue[p].entries[j] \notin CallsOf(o)
              /\ queue[p].entries[j] # e
        BY <4>1, <3>2, <2>2 DEF EntriesWait, CallsOf
      <4>3. \A j \in DOMAIN queue[p].entries :
              body'[queue[p].entries[j]] = body[queue[p].entries[j]]
        BY <4>2, <2>5
      <4> QED BY <4>1, <4>3 DEF EntriesWait
    <3> QED BY <3>1, <3>2
  <2>10. SettleFrame(gone, bodies)
    <3>1. \A c \in Calls :
            \/ body'[c] = bodies[c]
            \/ bodies[c] = "queued" /\ body'[c] = "scheduled" /\ verdict'[c] = "none"
      BY <1>3, <2>2, <2>5
    <3>2. \A p \in Operations : queue'[p].cancelled = queue[p].cancelled
      BY <2>4
    <3> QED BY <3>1, <3>2, <1>3 DEF SettleFrame
  <2> QED BY <2>6, <2>7, <2>8, <2>9, <2>10 DEF QueueInv
<1>6. CASE \/ /\ SlotFree(o, gone)
             /\ waiting = {}
             /\ queue' = [queue EXCEPT ![o].slot = NoCall, ![o].entries = <<>>]
             /\ body' = bodies
          \/ /\ ~SlotFree(o, gone)
             /\ queue' = [queue EXCEPT ![o].entries = entries]
             /\ body' = bodies
  <2> DEFINE slot == IF SlotFree(o, gone) THEN NoCall ELSE queue[o].slot
             left == IF SlotFree(o, gone) THEN <<>> ELSE entries
  <2>1. /\ body' = bodies
        /\ queue'[o].slot = slot /\ queue'[o].entries = left
        /\ queue'[o].cancelled = queue[o].cancelled
        /\ \A p \in Operations \ {o} : queue'[p] = queue[p]
        /\ queue' \in [Operations -> Queue]
    <3>1. PICK s \in Calls \cup {NoCall}, es \in Seq(Calls), k \in BOOLEAN :
            queue[o] = [slot |-> s, entries |-> es, cancelled |-> k]
      BY <1>1 DEF Queue
    <3>2. queue' = [queue EXCEPT ![o] =
                      [slot |-> slot, entries |-> left, cancelled |-> k]]
      BY <3>1, <1>6, <1>1
    <3>3. [slot |-> slot, entries |-> left, cancelled |-> k] \in Queue
      BY <3>1, <1>1 DEF Queue
    <3> HIDE DEF slot, left
    <3> QED BY <3>1, <3>2, <3>3, <1>1, <1>6
  <2>2. QueueTypes'
    BY <1>3, <2>1 DEF QueueTypes
  <2>3. SlotHeld'
    <3> SUFFICES ASSUME NEW p \in Operations, queue'[p].slot # NoCall
                 PROVE  /\ OperationOf[queue'[p].slot] = p
                        /\ body'[queue'[p].slot] \in Busy
                        /\ verdict'[queue'[p].slot] = "none"
      BY DEF SlotHeld
    <3>1. CASE p = o
      <4>1. /\ queue'[p].slot = queue[o].slot /\ queue[o].slot \in Calls \ gone
        BY <3>1, <2>1, <1>1 DEF SlotFree, Queue
      <4> QED BY <4>1, <3>1, <2>1, <1>1, <1>3 DEF QueueInv, SlotHeld
    <3>2. CASE p # o
      <4>1. /\ queue[p].slot \in Calls /\ OperationOf[queue[p].slot] = p
            /\ body[queue[p].slot] \in Busy /\ verdict[queue[p].slot] = "none"
        BY <3>2, <2>1, <1>1 DEF QueueInv, SlotHeld, Queue
      <4>2. queue[p].slot \in Calls \ CallsOf(o)
        BY <4>1, <3>2 DEF CallsOf
      <4> QED BY <4>1, <4>2, <3>2, <2>1, <1>3
    <3> QED BY <3>1, <3>2
  <2>4. HolderHasSlot'
    <3> SUFFICES ASSUME NEW c \in Calls, body'[c] \in Busy, verdict'[c] = "none"
                 PROVE  queue'[OperationOf[c]].slot = c
      BY DEF HolderHasSlot
    <3>1. c \notin gone /\ verdict[c] = "none" /\ bodies[c] \in Busy
      BY <2>1, <1>3
    <3>2. CASE c \in CallsOf(o)
      <4>1. queue[o].slot = c /\ OperationOf[c] = o
        BY <3>1, <3>2 DEF CallsOf
      <4> QED BY <4>1, <3>1, <2>1, <1>1 DEF SlotFree
    <3>3. CASE c \notin CallsOf(o)
      <4>1. body[c] \in Busy /\ OperationOf[c] \in Operations \ {o}
        BY <3>1, <3>3 DEF CallsOf
      <4> QED BY <4>1, <3>1, <2>1 DEF QueueInv, HolderHasSlot
    <3> QED BY <3>2, <3>3
  <2>5. EntriesOK'
    <3> SUFFICES ASSUME NEW p \in Operations
                 PROVE  /\ EntriesWait(p, queue'[p].entries, body', Settled \cup gone)
                        /\ queue'[p].slot = NoCall => queue'[p].entries = <<>>
      BY <1>4 DEF EntriesOK, EntriesWait
    <3>1. CASE p = o
      BY <3>1, <2>1, <1>1 DEF EntriesWait, SlotFree
    <3>2. CASE p # o
      <4>1. /\ queue'[p] = queue[p]
            /\ EntriesWait(p, queue[p].entries, body, Settled)
            /\ queue[p].slot = NoCall => queue[p].entries = <<>>
            /\ queue[p].entries \in Seq(Calls)
        BY <3>2, <2>1, <1>1 DEF QueueInv, EntriesOK, Queue
      <4>2. \A j \in DOMAIN queue[p].entries :
              body'[queue[p].entries[j]] = body[queue[p].entries[j]]
        BY <4>1, <3>2, <2>1 DEF EntriesWait, CallsOf
      <4> QED BY <4>1, <4>2 DEF EntriesWait
    <3> QED BY <3>1, <3>2
  <2>6. SettleFrame(gone, bodies)
    BY <1>3, <2>1 DEF SettleFrame
  <2> QED BY <2>2, <2>3, <2>4, <2>5, <2>6 DEF QueueInv
<1> QED BY <1>5, <1>6 DEF Settle

\* The queued function of c returns or throws.
LEMMA EndsKeeps ==
  ASSUME QueueTypes, QueueInv, NEW c \in Calls, body[c] \in Busy,
         NEW v \in Verdicts \ {"none"}, Ends(c, v)
  PROVE  /\ QueueTypes' /\ QueueInv'
         /\ SettleFrame({c}, [body EXCEPT ![c] = "done"])
PROOF
<1> USE ApprovalAssumption
<1> DEFINE o == OperationOf[c]
           entries == queue[o].entries
           bodies == [body EXCEPT ![c] = "done"]
<1>1. /\ o \in Operations /\ c \in CallsOf(o) /\ NoCall \notin Calls
      /\ queue[o] \in Queue /\ entries \in Seq(Calls)
      /\ queue[o].slot \in Calls \cup {NoCall}
      /\ body \in [Calls -> Bodies]
  BY DEF QueueTypes, Queue, CallsOf
<1>2. /\ bodies \in [Calls -> Bodies]
      /\ bodies[c] = "done"
      /\ \A d \in Calls \ {c} : bodies[d] = body[d]
  BY <1>1 DEF Bodies
<1>3. EntriesWait(o, entries, bodies, Settled \cup {c})
  <2>1. \A i \in DOMAIN entries : entries[i] \in Calls
    BY <1>1
  <2>2. EntriesWait(o, entries, body, Settled)
    BY <1>1 DEF QueueInv, EntriesOK
  <2> HIDE DEF entries, bodies, o
  <2> QED BY <2>1, <2>2, <1>2 DEF EntriesWait
<1>4. \A d \in CallsOf(o) \ {c} :
         verdict[d] = "none" /\ bodies[d] \in Busy => queue[o].slot = d
  BY <1>1, <1>2 DEF QueueInv, HolderHasSlot, CallsOf
<1>5. queue[o].slot \in Calls \ {c} => bodies[queue[o].slot] \in Busy
  BY <1>1, <1>2 DEF QueueInv, SlotHeld
<1>6. \A d \in Calls \ CallsOf(o) : bodies[d] = body[d]
  BY <1>1, <1>2
<1>7. Settle(o, {c}, v, entries, bodies)
  BY DEF Ends
<1>8. queue[o].slot \in {c} => queue[o].slot \in Calls
  OBVIOUS
<1> HIDE DEF o, entries, bodies
<1>9. QueueTypes' /\ QueueInv' /\ SettleFrame({c}, bodies)
  <2>1. {c} \in SUBSET CallsOf(o) /\ v \in Verdicts /\ v # "none"
    BY <1>1
  <2> QED BY <1>1, <1>2, <1>3, <1>4, <1>5, <1>6, <1>7, <1>8, <2>1, SettleKeeps
<1> QED BY <1>9 DEF bodies

\* The queued function of c goes on.
LEMMA MovesKeeps ==
  ASSUME QueueTypes, QueueInv, NEW c \in Calls, body[c] \in Busy,
         NEW where \in Busy, Moves(c, where)
  PROVE  QueueTypes' /\ QueueInv'
PROOF
<1>1. /\ queue' = queue /\ verdict' = verdict
      /\ body' \in [Calls -> Bodies]
      /\ body'[c] = where
      /\ \A d \in Calls \ {c} : body'[d] = body[d]
  BY DEF Moves, QueueTypes, Busy, Bodies
<1>2. QueueTypes'
  BY <1>1 DEF QueueTypes
<1>3. SlotHeld'
  <2>1. \A o \in Operations : queue[o].slot \in Calls \cup {NoCall}
    BY DEF QueueTypes, Queue
  <2> QED BY <1>1, <2>1 DEF QueueInv, SlotHeld
<1>4. HolderHasSlot'
  BY <1>1 DEF QueueInv, HolderHasSlot
<1>5. EntriesOK'
  <2> SUFFICES ASSUME NEW o \in Operations
               PROVE  EntriesWait(o, queue[o].entries, body', Settled)
    BY <1>1 DEF QueueInv, EntriesOK, EntriesWait, Settled
  <2>1. EntriesWait(o, queue[o].entries, body, Settled)
    BY DEF QueueInv, EntriesOK
  <2>2. \A i \in DOMAIN queue[o].entries : queue[o].entries[i] \in Calls
    BY DEF QueueTypes, Queue
  <2>3. where # "none" /\ body[c] # "queued"
    BY DEF Busy
  <2> QED BY <1>1, <2>1, <2>2, <2>3 DEF EntriesWait
<1> QED BY <1>2, <1>3, <1>4, <1>5 DEF QueueInv

(***************************************************************************)
(* The queued function and the Host.                                       *)
(***************************************************************************)

\* What a step of the queued function of c leaves alone.
FunctionFrame(c) ==
  /\ UNCHANGED <<hostVars, aborted, controllers, outcome>>
  /\ \A d \in Calls \ {c} : answer'[d] = answer[d]

LEMMA EndsHost ==
  ASSUME ApprovalInv, NEW c \in Calls, body[c] \in Busy \ {"asked"},
         NEW v \in Verdicts \ {"none"}, Ends(c, v),
         FunctionFrame(c), pending' = pending
  PROVE  QueueTypes' /\ QueueInv' /\ HostInv'
PROOF
<1> USE ApprovalAssumption
<1>1. /\ QueueTypes /\ QueueInv /\ HostInv /\ OperationOf \in [Calls -> Operations]
      /\ body \in [Calls -> Bodies] /\ pending \subseteq Calls
      /\ phase \in [Operations -> Phases]
  BY DEF ApprovalInv, TypeOK, QueueTypes
<1>2. /\ QueueTypes' /\ QueueInv'
      /\ SettleFrame({c}, [body EXCEPT ![c] = "done"])
  BY <1>1, EndsKeeps
<1>3. /\ verdict'[c] # "none"
      /\ body'[c] = "done"
      /\ \A d \in Calls : d # c => verdict'[d] = verdict[d]
      /\ \A d \in Calls : d # c => \/ body'[d] = body[d]
                                   \/ /\ body[d] = "queued"
                                      /\ body'[d] = "scheduled" /\ verdict'[d] = "none"
      /\ \A p \in Operations : queue'[p].cancelled = queue[p].cancelled
  BY <1>1, <1>2 DEF SettleFrame
<1>4. /\ UNCHANGED <<active, phase, pending, aborted, controllers, outcome>>
      /\ \A d \in Calls \ {c} : answer'[d] = answer[d]
  BY DEF FunctionFrame, hostVars
<1>5. SettledGoesOn' /\ OneLeftBehind' /\ DecidedIsAnswered'
  BY <1>1, <1>3, <1>4 DEF HostInv, SettledGoesOn, OneLeftBehind, GoesOn, SignalsAborted,
     DecidedIsAnswered, Busy
<1>6. OutcomeAfterVerdict' /\ EndedIsCancelled' /\ ActiveIsOpen'
  BY <1>1, <1>3, <1>4 DEF HostInv, OutcomeAfterVerdict, EndedIsCancelled, ActiveIsOpen
<1>7. CancelSettles'
  BY <1>1, <1>3, <1>4 DEF HostInv, CancelSettles, Unsettled, CallsOf
<1>8. ShownIsAsked'
  BY <1>1, <1>3, <1>4 DEF HostInv, ShownIsAsked, AskedInTime, AskedInVain
<1> QED BY <1>2, <1>5, <1>6, <1>7, <1>8 DEF HostInv

LEMMA MovesHost ==
  ASSUME ApprovalInv, NEW c \in Calls, body[c] \in Busy,
         NEW where \in Busy, Moves(c, where), FunctionFrame(c),
         where = "decided" => answer'[c] \in Decisions,
         pending' \subseteq pending \cup {c},
         c \in pending' => where = "asked" /\ (AskedInTime(c) \/ AskedInVain(c))
  PROVE  QueueTypes' /\ QueueInv' /\ HostInv'
PROOF
<1> USE ApprovalAssumption
<1>1. /\ QueueTypes /\ QueueInv /\ HostInv /\ OperationOf \in [Calls -> Operations]
      /\ body \in [Calls -> Bodies] /\ pending \subseteq Calls
  BY DEF ApprovalInv, TypeOK, QueueTypes
<1>2. QueueTypes' /\ QueueInv'
  BY <1>1, MovesKeeps
<1>3. /\ queue' = queue /\ verdict' = verdict
      /\ body'[c] = where
      /\ \A d \in Calls \ {c} : body'[d] = body[d]
  BY <1>1 DEF Moves
<1>4. /\ UNCHANGED <<active, phase, aborted, controllers, outcome>>
      /\ \A d \in Calls \ {c} : answer'[d] = answer[d]
  BY DEF FunctionFrame, hostVars
<1>5. SettledGoesOn' /\ OneLeftBehind' /\ DecidedIsAnswered'
  BY <1>1, <1>3, <1>4 DEF HostInv, SettledGoesOn, OneLeftBehind, GoesOn, SignalsAborted,
     DecidedIsAnswered
<1>6. OutcomeAfterVerdict' /\ EndedIsCancelled' /\ ActiveIsOpen'
  BY <1>1, <1>3, <1>4 DEF HostInv, OutcomeAfterVerdict, EndedIsCancelled, ActiveIsOpen
<1>7. CancelSettles'
  BY <1>1, <1>3, <1>4 DEF HostInv, CancelSettles, Unsettled, CallsOf, Busy
<1>8. ShownIsAsked'
  BY <1>1, <1>3, <1>4 DEF HostInv, ShownIsAsked, AskedInTime, AskedInVain
<1> QED BY <1>2, <1>5, <1>6, <1>7, <1>8 DEF HostInv

\* A request that the Host shows is one of a call that is still waited for.
LEMMA RequestHost ==
  ASSUME ApprovalInv, NEW c \in Calls, body[c] \in {"scheduled", "review"},
         Request(c), FunctionFrame(c)
  PROVE  QueueTypes' /\ QueueInv' /\ HostInv'
PROOF
<1> USE ApprovalAssumption
<1>1. CASE /\ active = OperationOf[c]
           /\ ~RequestAborted(c)
           /\ pending' = pending \cup {c}
           /\ Moves(c, "asked")
  <2>1. HostInv /\ OperationOf[c] \in Operations /\ phase \in [Operations -> Phases]
    BY DEF ApprovalInv, TypeOK
  <2>2. ASSUME verdict[c] = "none" PROVE AskedInTime(c)
    <3>1. phase[active] \in {"running", "ending", "stuck"}
      BY <1>1, <2>1 DEF HostInv, ActiveIsOpen
    <3>2. c \in Unsettled(active)
      BY <1>1, <2>2 DEF Unsettled, CallsOf
    <3>3. phase[active] = "running"
      BY <1>1, <2>1, <3>1, <3>2 DEF HostInv, CancelSettles
    <3> QED BY <1>1, <2>2, <3>3 DEF AskedInTime
  <2>3. ASSUME verdict[c] # "none" PROVE AskedInVain(c)
    <3>1. c \in controllers
      BY <2>1, <2>3 DEF HostInv, SettledGoesOn, GoesOn, SignalsAborted, Busy
    <3> QED BY <1>1, <2>3, <3>1 DEF AskedInVain, RequestAborted, BuiltIn
  <2> QED BY <1>1, <2>2, <2>3, MovesHost DEF Busy
<1>2. CASE Ends(c, "rejected") /\ UNCHANGED pending
  BY <1>2, EndsHost DEF Busy, Verdicts
<1> QED BY <1>1, <1>2 DEF Request

LEMMA BodyStepHost ==
  ASSUME ApprovalInv, NEW c \in Calls, BodyStep(c)
  PROVE  QueueTypes' /\ QueueInv' /\ HostInv'
PROOF
<1>1. /\ HostInv /\ answer \in [Calls -> Decisions \cup {"none", "reviewed"}]
      /\ c \in pending => body[c] = "asked"
  BY DEF ApprovalInv, TypeOK, HostInv, ShownIsAsked
<1>2. FunctionFrame(c)
  BY <1>1 DEF BodyStep, Run, Review, Decide, Recheck, Fail, FunctionFrame
<1>3. body[c] \in Busy \ {"asked"}
  BY DEF BodyStep, Run, Review, Decide, Recheck, Fail, Busy
<1>4. ASSUME NEW v \in Verdicts \ {"none"}, Ends(c, v), UNCHANGED pending
      PROVE  QueueTypes' /\ QueueInv' /\ HostInv'
  BY <1>2, <1>3, <1>4, EndsHost
<1>5. ASSUME NEW where \in {"review", "recheck"}, Moves(c, where), UNCHANGED pending
      PROVE  QueueTypes' /\ QueueInv' /\ HostInv'
  <2>1. c \notin pending' /\ where \in Busy /\ where # "decided"
    BY <1>1, <1>3, <1>5 DEF Busy
  <2> QED BY <1>2, <1>3, <1>5, <2>1, MovesHost
<1>6. CASE Run(c)
  BY <1>2, <1>4, <1>5, <1>6, RequestHost DEF Run, Verdicts, Decisions
<1>7. CASE Review(c)
  BY <1>2, <1>4, <1>5, <1>7, RequestHost DEF Review, Verdicts, Decisions
<1>8. CASE Decide(c)
  <2>1. answer[c] \in Decisions
    BY <1>1, <1>8 DEF HostInv, DecidedIsAnswered, Decide
  <2> QED BY <1>4, <1>5, <1>8, <2>1 DEF Decide, Verdicts, Decisions
<1>9. CASE Recheck(c)
  BY <1>4, <1>9 DEF Recheck, Verdicts, Decisions
<1>10. CASE Fail(c)
  BY <1>4, <1>10 DEF Fail, Verdicts
<1> QED BY <1>6, <1>7, <1>8, <1>9, <1>10 DEF BodyStep

(***************************************************************************)
(* The other steps.                                                        *)
(***************************************************************************)

LEMMA CallHost ==
  ASSUME ApprovalInv, NEW c \in Calls, Call(c)
  PROVE  QueueTypes' /\ QueueInv' /\ HostInv'
PROOF
<1> USE ApprovalAssumption
<1> DEFINE o == OperationOf[c]
           entries == Append(queue[o].entries, c)
           bodies == [body EXCEPT ![c] = "queued"]
<1>1. /\ QueueTypes /\ QueueInv /\ HostInv /\ OperationOf \in [Calls -> Operations]
      /\ o \in Operations /\ c \in CallsOf(o) /\ NoCall \notin Calls
      /\ queue[o] \in Queue /\ queue[o].entries \in Seq(Calls)
      /\ queue[o].slot \in Calls \cup {NoCall}
      /\ body \in [Calls -> Bodies] /\ verdict \in [Calls -> Verdicts]
      /\ pending \subseteq Calls
      /\ phase \in [Operations -> Phases]
  BY DEF ApprovalInv, TypeOK, QueueTypes, Queue, CallsOf
<1>2. /\ body[c] = "none" /\ c \notin pending
      /\ UNCHANGED <<active, phase, pending, aborted, controllers, answer, outcome>>
  BY <1>1 DEF Call, hostVars, HostInv, ShownIsAsked
<1>3. CASE /\ ~IsCancelled(o)
           /\ Settle(o, {}, "none", entries, bodies)
  <2>1. /\ bodies \in [Calls -> Bodies]
        /\ bodies[c] = "queued"
        /\ \A d \in Calls \ {c} : bodies[d] = body[d]
    BY <1>1 DEF Bodies
  <2>2. EntriesWait(o, entries, bodies, Settled \cup {})
    <3>1. /\ EntriesWait(o, queue[o].entries, body, Settled)
          /\ \A i \in DOMAIN queue[o].entries : queue[o].entries[i] \in Calls
      BY <1>1 DEF QueueInv, EntriesOK
    <3>2. \A i \in DOMAIN entries :
            \/ /\ i \in DOMAIN queue[o].entries
               /\ entries[i] = queue[o].entries[i]
            \/ i = Len(queue[o].entries) + 1 /\ entries[i] = c
      BY <1>1
    <3>3. \A i \in DOMAIN queue[o].entries : queue[o].entries[i] # c
      BY <1>2, <3>1 DEF EntriesWait
    <3>4. OperationOf[c] = o
      OBVIOUS
    <3> HIDE DEF entries, bodies, o
    <3> QED BY <2>1, <3>1, <3>2, <3>3, <3>4 DEF EntriesWait
  <2>3. \A d \in CallsOf(o) \ {} :
           verdict[d] = "none" /\ bodies[d] \in Busy => queue[o].slot = d
    BY <1>1, <2>1 DEF QueueInv, HolderHasSlot, CallsOf, Busy
  <2>4. queue[o].slot \in Calls \ {} => bodies[queue[o].slot] \in Busy
    BY <1>1, <1>2, <2>1 DEF QueueInv, SlotHeld, Busy
  <2>5. \A d \in Calls \ CallsOf(o) : bodies[d] = body[d]
    BY <1>1, <2>1
  <2>6. entries \in Seq(Calls) /\ "none" \in Verdicts
    BY <1>1 DEF Verdicts
  <2> HIDE DEF entries, bodies
  <2>7. QueueTypes' /\ QueueInv' /\ SettleFrame({}, bodies)
    BY <1>1, <1>3, <2>1, <2>2, <2>3, <2>4, <2>5, <2>6, SettleKeeps
  <2>8. /\ \A d \in Calls : verdict'[d] = verdict[d]
        /\ \A d \in Calls : \/ d # c /\ body'[d] = body[d]
                            \/ d = c /\ body'[d] = "queued"
                            \/ body'[d] = "scheduled" /\ verdict'[d] = "none"
        /\ \A d \in Calls : d # c /\ body[d] # "queued" => body'[d] = body[d]
        /\ \A p \in Operations : queue'[p].cancelled = queue[p].cancelled
    <3>1. \A d \in Calls :
            /\ verdict'[d] = verdict[d]
            /\ \/ body'[d] = bodies[d]
               \/ bodies[d] = "queued" /\ body'[d] = "scheduled" /\ verdict'[d] = "none"
      BY <2>7 DEF SettleFrame
    <3>2. \A p \in Operations : queue'[p].cancelled = queue[p].cancelled
      BY <2>7 DEF SettleFrame
    <3>3. body[c] = "none" /\ \A d \in Calls \ {c} : bodies[d] = body[d]
      BY <1>2, <2>1
    <3>4. \A d \in Calls : \/ d # c /\ body'[d] = body[d]
                           \/ d = c /\ body'[d] = "queued"
                           \/ body'[d] = "scheduled" /\ verdict'[d] = "none"
      BY <2>1, <3>1
    <3>5. \A d \in Calls : d # c /\ body[d] # "queued" => body'[d] = body[d]
      BY <3>1, <3>3
    <3> QED BY <3>1, <3>2, <3>4, <3>5
  <2>9. /\ phase[o] \notin Ended
        /\ \A d \in Calls : body[d] = "none" /\ body'[d] # "none" => d = c
    <3>1. phase[o] \notin Ended
      BY <1>1, <1>3 DEF HostInv, EndedIsCancelled, IsCancelled
    <3>2. \A d \in Calls \ {c} : body[d] = "none" => body'[d] = "none"
      BY <2>8
    <3> QED BY <3>1, <3>2
  <2>10. SettledGoesOn' /\ OneLeftBehind' /\ DecidedIsAnswered'
    BY <1>1, <1>2, <2>8 DEF HostInv, SettledGoesOn, OneLeftBehind, GoesOn,
       SignalsAborted, DecidedIsAnswered, Busy
  <2>11. OutcomeAfterVerdict' /\ EndedIsCancelled' /\ ActiveIsOpen'
    BY <1>1, <1>2, <2>8 DEF HostInv, OutcomeAfterVerdict, EndedIsCancelled, ActiveIsOpen
  <2>12. CancelSettles'
    BY <1>1, <1>2, <2>8, <2>9 DEF HostInv, CancelSettles, Unsettled, CallsOf, Ended
  <2>13. ShownIsAsked'
    BY <1>1, <1>2, <2>8 DEF HostInv, ShownIsAsked, AskedInTime, AskedInVain
  <2> QED BY <2>7, <2>10, <2>11, <2>12, <2>13 DEF HostInv
<1>4. CASE /\ verdict' = [verdict EXCEPT ![c] = "rejected"]
           /\ body' = [body EXCEPT ![c] = "done"]
           /\ UNCHANGED queue
  <2>1. /\ verdict'[c] = "rejected" /\ body'[c] = "done" /\ queue' = queue
        /\ \A d \in Calls \ {c} : verdict'[d] = verdict[d] /\ body'[d] = body[d]
        /\ verdict' \in [Calls -> Verdicts] /\ body' \in [Calls -> Bodies]
    BY <1>1, <1>4 DEF Verdicts, Bodies
  <2>2. QueueTypes'
    BY <1>1, <2>1 DEF QueueTypes
  <2>3. SlotHeld'
    <3>1. \A p \in Operations : queue[p].slot # NoCall => queue[p].slot \in Calls \ {c}
      <4>1. \A p \in Operations : queue[p].slot \in Calls \cup {NoCall}
        BY <1>1 DEF QueueTypes, Queue
      <4>2. body[c] \notin Busy
        BY <1>2 DEF Busy
      <4> QED BY <1>1, <4>1, <4>2 DEF QueueInv, SlotHeld
    <3> QED BY <1>1, <2>1, <3>1 DEF QueueInv, SlotHeld
  <2>4. HolderHasSlot'
    BY <1>1, <2>1 DEF QueueInv, HolderHasSlot, Busy
  <2>5. EntriesOK'
    <3> SUFFICES ASSUME NEW p \in Operations
                 PROVE  EntriesWait(p, queue[p].entries, body', Settled')
      BY <1>1, <2>1 DEF QueueInv, EntriesOK, EntriesWait
    <3>1. /\ EntriesWait(p, queue[p].entries, body, Settled)
          /\ \A i \in DOMAIN queue[p].entries : queue[p].entries[i] \in Calls
      BY <1>1 DEF QueueInv, EntriesOK, QueueTypes, Queue
    <3>2. Settled' = Settled \cup {c}
      BY <2>1 DEF Settled
    <3> QED BY <2>1, <3>1, <3>2 DEF EntriesWait
  <2>6. SettledGoesOn' /\ OneLeftBehind' /\ DecidedIsAnswered'
    BY <1>1, <1>2, <2>1 DEF HostInv, SettledGoesOn, OneLeftBehind, GoesOn,
       SignalsAborted, DecidedIsAnswered, Busy
  <2>7. OutcomeAfterVerdict' /\ EndedIsCancelled' /\ ActiveIsOpen'
    BY <1>1, <1>2, <2>1 DEF HostInv, OutcomeAfterVerdict, EndedIsCancelled, ActiveIsOpen
  <2>8. CancelSettles'
    BY <1>1, <1>2, <2>1 DEF HostInv, CancelSettles, Unsettled, CallsOf
  <2>9. ShownIsAsked'
    BY <1>1, <1>2, <2>1 DEF HostInv, ShownIsAsked, AskedInTime, AskedInVain
  <2> QED BY <2>2, <2>3, <2>4, <2>5, <2>6, <2>7, <2>8, <2>9 DEF HostInv, QueueInv
<1> QED BY <1>3, <1>4 DEF Call

LEMMA RespondHost ==
  ASSUME ApprovalInv, NEW c \in Calls, NEW d \in Decisions, Respond(c, d)
  PROVE  QueueTypes' /\ QueueInv' /\ HostInv'
PROOF
<1>1. /\ answer \in [Calls -> Decisions \cup {"none", "reviewed"}]
      /\ body[c] \in Busy
  BY DEF ApprovalInv, TypeOK, HostInv, ShownIsAsked, Respond, Busy
<1>2. FunctionFrame(c) /\ pending' = pending \ {c}
  BY <1>1 DEF Respond, FunctionFrame, Without
<1>3. CASE Moves(c, "failing")
  BY <1>1, <1>2, <1>3, MovesHost DEF Busy
<1>4. CASE Moves(c, "decided") /\ answer' = [answer EXCEPT ![c] = d]
  BY <1>1, <1>2, <1>4, MovesHost DEF Busy
<1> QED BY <1>3, <1>4 DEF Respond

LEMMA SignalAbortedHost ==
  ASSUME ApprovalInv, NEW o \in Operations, NEW gone \in SUBSET CallsOf(o),
         SignalAborted(o, gone)
  PROVE  QueueTypes' /\ QueueInv' /\ HostInv'
PROOF
<1> USE ApprovalAssumption
<1> DEFINE open == gone \cap Unsettled(o)
           entries == queue[o].entries
           bodies == [c \in Calls |-> IF \/ c \in open /\ body[c] = "queued"
                                         \/ c \in gone \cap pending
                                      THEN "done" ELSE body[c]]
<1>1. /\ QueueTypes /\ QueueInv /\ HostInv /\ OperationOf \in [Calls -> Operations]
      /\ NoCall \notin Calls /\ gone \subseteq Calls /\ gone \subseteq CallsOf(o)
      /\ queue[o] \in Queue /\ entries \in Seq(Calls)
      /\ queue[o].slot \in Calls \cup {NoCall}
      /\ body \in [Calls -> Bodies] /\ verdict \in [Calls -> Verdicts]
      /\ pending \subseteq Calls
  BY DEF ApprovalInv, TypeOK, QueueTypes, Queue, CallsOf
<1>2. /\ bodies \in [Calls -> Bodies]
      /\ \A c \in Calls : bodies[c] \in {body[c], "done"}
      /\ \A c \in Calls \ gone : bodies[c] = body[c]
      /\ \A c \in Calls \ open : body[c] = "queued" => bodies[c] = "queued"
      /\ \A c \in Calls : body[c] = "none" => bodies[c] = "none"
  <2>1. \A c \in pending : body[c] = "asked"
    BY <1>1 DEF HostInv, ShownIsAsked
  <2>2. \A c \in open : body[c] # "none"
    BY DEF Unsettled
  <2> QED BY <1>1, <2>1, <2>2 DEF Bodies
<1>3. \A c \in gone : body[c] # "none" /\ verdict[c] = "none" => c \in open
  BY <1>1 DEF Unsettled
<1>4. EntriesWait(o, entries, bodies, Settled \cup open)
  <2>1. /\ EntriesWait(o, entries, body, Settled)
        /\ \A i \in DOMAIN entries : entries[i] \in Calls
    BY <1>1 DEF QueueInv, EntriesOK
  <2> HIDE DEF open, entries, bodies
  <2>2. \A c \in Calls : body[c] # "none" => bodies[c] # "none"
    BY <1>2
  <2> QED BY <1>2, <2>1, <2>2 DEF EntriesWait
<1>5. \A c \in CallsOf(o) \ open :
         verdict[c] = "none" /\ bodies[c] \in Busy => queue[o].slot = c
  <2> SUFFICES ASSUME NEW c \in CallsOf(o), verdict[c] = "none", bodies[c] \in Busy
               PROVE  queue[o].slot = c
    OBVIOUS
  <2>1. c \in Calls /\ OperationOf[c] = o
    BY DEF CallsOf
  <2>2. bodies[c] # "done"
    BY DEF Busy
  <2>3. body[c] \in Busy
    BY <1>2, <2>1, <2>2
  <2> QED BY <1>1, <2>1, <2>3 DEF QueueInv, HolderHasSlot
<1>6. queue[o].slot \in Calls \ open => bodies[queue[o].slot] \in Busy
  <2> SUFFICES ASSUME queue[o].slot \in Calls, queue[o].slot \notin open
               PROVE  bodies[queue[o].slot] \in Busy
    OBVIOUS
  <2>1. body[queue[o].slot] \in Busy /\ verdict[queue[o].slot] = "none"
    BY <1>1 DEF QueueInv, SlotHeld
  <2>2. queue[o].slot \notin gone
    BY <1>3, <2>1 DEF Busy
  <2> QED BY <1>2, <2>1, <2>2
<1>7. /\ \A c \in Calls \ CallsOf(o) : bodies[c] = body[c]
      /\ open \in SUBSET CallsOf(o) /\ "rejected" \in Verdicts \ {"none"}
      /\ queue[o].slot \in open => queue[o].slot \in Calls
  BY <1>1, <1>2 DEF Verdicts, Decisions
<1>8. /\ Settle(o, open, "rejected", entries, bodies)
      /\ UNCHANGED <<active, phase, answer, outcome>>
      /\ aborted' = aborted \cup gone
      /\ controllers' = controllers \cup open
      /\ pending' = pending \ gone
  BY DEF SignalAborted, Without, hostVars
<1>9. open \subseteq gone
  OBVIOUS
<1> HIDE DEF open, entries, bodies
<1>10. QueueTypes' /\ QueueInv' /\ SettleFrame(open, bodies)
  BY <1>1, <1>2, <1>4, <1>5, <1>6, <1>7, <1>8, SettleKeeps
<1>11. /\ \A c \in Calls : c \notin open => verdict'[c] = verdict[c]
       /\ \A c \in Calls : verdict[c] # "none" => verdict'[c] # "none"
       /\ \A c \in Calls : \/ body'[c] \in {body[c], "done"}
                           \/ /\ body[c] = "queued" /\ body'[c] = "scheduled"
                              /\ verdict'[c] = "none"
       /\ \A c \in Calls \ gone : body[c] = "asked" => body'[c] = "asked"
       /\ \A p \in Operations : queue'[p].cancelled = queue[p].cancelled
       /\ \A c \in Calls : body[c] = "none" => body'[c] = "none"
  <2>1. \A c \in Calls :
          /\ c \notin open => verdict'[c] = verdict[c]
          /\ verdict[c] # "none" => verdict'[c] = verdict[c]
          /\ \/ body'[c] = bodies[c]
             \/ bodies[c] = "queued" /\ body'[c] = "scheduled" /\ verdict'[c] = "none"
    BY <1>10 DEF SettleFrame
  <2>2. \A p \in Operations : queue'[p].cancelled = queue[p].cancelled
    BY <1>10 DEF SettleFrame
  <2>3. \A c \in Calls : \/ body'[c] \in {body[c], "done"}
                        \/ /\ body[c] = "queued" /\ body'[c] = "scheduled"
                           /\ verdict'[c] = "none"
    BY <1>2, <2>1
  <2>4. \A c \in Calls \ gone : body[c] = "asked" => body'[c] = "asked"
    BY <1>2, <2>1
  <2>5. \A c \in Calls : body[c] = "none" => body'[c] = "none"
    BY <1>2, <2>1
  <2> QED BY <2>1, <2>2, <2>3, <2>4, <2>5
<1>12. SettledGoesOn' /\ OneLeftBehind' /\ DecidedIsAnswered'
  BY <1>1, <1>8, <1>9, <1>11 DEF HostInv, SettledGoesOn, OneLeftBehind, GoesOn,
     SignalsAborted, DecidedIsAnswered, Busy
<1>13. OutcomeAfterVerdict' /\ EndedIsCancelled' /\ ActiveIsOpen'
  BY <1>1, <1>8, <1>11 DEF HostInv, OutcomeAfterVerdict, EndedIsCancelled, ActiveIsOpen
<1>14. CancelSettles'
  BY <1>1, <1>8, <1>11 DEF HostInv, CancelSettles, Unsettled, CallsOf
<1>15. ShownIsAsked'
  BY <1>1, <1>8, <1>9, <1>11 DEF HostInv, ShownIsAsked, AskedInTime, AskedInVain
<1> QED BY <1>10, <1>12, <1>13, <1>14, <1>15 DEF HostInv

\* completeOperation cancels the approvals: here the signal of an Extension tool
\* of a detached subagent is not aborted.
LEMMA CancelApprovalsHost ==
  ASSUME ApprovalInv, NEW o \in Operations, CancelApprovals(o)
  PROVE  QueueTypes' /\ QueueInv' /\ HostInv'
PROOF
<1> USE ApprovalAssumption
<1> DEFINE gone == Unsettled(o)
<1>1. /\ QueueTypes /\ QueueInv /\ HostInv /\ OperationOf \in [Calls -> Operations]
      /\ NoCall \notin Calls
      /\ queue \in [Operations -> Queue]
      /\ body \in [Calls -> Bodies] /\ verdict \in [Calls -> Verdicts]
      /\ pending \subseteq Calls /\ phase \in [Operations -> Phases]
  BY DEF ApprovalInv, TypeOK, QueueTypes
<1>2. /\ gone \subseteq CallsOf(o) /\ CallsOf(o) \subseteq Calls
      /\ \A c \in gone : body[c] # "none" /\ verdict[c] = "none"
      /\ \A c \in CallsOf(o) \ gone : body[c] = "none" \/ verdict[c] # "none"
  BY DEF Unsettled, CallsOf
<1>3. /\ phase[o] = "running" /\ phase' = [phase EXCEPT ![o] = "ending"]
      /\ pending' = pending \ CallsOf(o)
      /\ controllers' = controllers \cup {c \in gone : c = queue[o].slot}
      /\ queue' = [queue EXCEPT ![o] =
                     [slot |-> NoCall, entries |-> <<>>, cancelled |-> TRUE]]
      /\ verdict' = [c \in Calls |-> IF c \in gone THEN "rejected" ELSE verdict[c]]
      /\ body' = [c \in Calls |-> IF \/ c \in gone /\ body[c] = "queued"
                                     \/ c \in pending \cap CallsOf(o)
                                  THEN "done" ELSE body[c]]
      /\ UNCHANGED <<active, aborted, answer, outcome>>
  BY DEF CancelApprovals, Without
<1>4. /\ [slot |-> NoCall, entries |-> <<>>, cancelled |-> TRUE] \in Queue
      /\ verdict' \in [Calls -> Verdicts]
      /\ body' \in [Calls -> Bodies]
  BY <1>1, <1>3 DEF Queue, Verdicts, Bodies
<1>5. /\ queue' \in [Operations -> Queue]
      /\ queue'[o] = [slot |-> NoCall, entries |-> <<>>, cancelled |-> TRUE]
      /\ \A p \in Operations \ {o} : queue'[p] = queue[p]
  BY <1>1, <1>3, <1>4
<1>6. /\ \A c \in Calls \ gone : verdict'[c] = verdict[c]
      /\ \A c \in gone : verdict'[c] = "rejected"
      /\ \A c \in Calls : body'[c] \in {body[c], "done"}
      /\ \A c \in Calls \ CallsOf(o) : body'[c] = body[c]
  BY <1>1, <1>2, <1>3
<1>7. \A c \in Calls : body[c] = "none" => body'[c] = "none"
  BY <1>1, <1>2, <1>3 DEF HostInv, ShownIsAsked
<1>8. \A c \in gone : body'[c] \in Busy => c = queue[o].slot
  BY <1>1, <1>2, <1>6 DEF QueueInv, HolderHasSlot, Busy, CallsOf
<1>9. \A c \in gone : c \in Extension \ Detached => c \in aborted
  <2> SUFFICES ASSUME NEW c \in gone, c \in Extension \ Detached PROVE c \in aborted
    OBVIOUS
  <2>1. c \in Calls /\ outcome[c] = "none"
    BY <1>1, <1>2 DEF HostInv, OutcomeAfterVerdict
  <2>2. c \in RunCalls(o) /\ body[c] # "none"
    BY <1>2 DEF RunCalls
  <2> QED BY <2>1, <2>2 DEF CancelApprovals, Decided
<1> HIDE DEF gone
<1>10. QueueTypes'
  BY <1>4, <1>5 DEF QueueTypes
<1>11. QueueInv'
  <2>1. SlotHeld'
    <3> SUFFICES ASSUME NEW p \in Operations, queue'[p].slot # NoCall
                 PROVE  /\ OperationOf[queue'[p].slot] = p
                        /\ body'[queue'[p].slot] \in Busy
                        /\ verdict'[queue'[p].slot] = "none"
      BY DEF SlotHeld
    <3>1. p # o /\ queue'[p] = queue[p]
      BY <1>5
    <3>2. /\ queue[p].slot \in Calls /\ OperationOf[queue[p].slot] = p
          /\ body[queue[p].slot] \in Busy /\ verdict[queue[p].slot] = "none"
      BY <1>1, <3>1 DEF QueueInv, SlotHeld, Queue
    <3>3. queue[p].slot \notin CallsOf(o)
      BY <3>1, <3>2 DEF CallsOf
    <3> QED BY <1>2, <1>6, <3>1, <3>2, <3>3
  <2>2. HolderHasSlot'
    <3> SUFFICES ASSUME NEW c \in Calls, body'[c] \in Busy, verdict'[c] = "none"
                 PROVE  queue'[OperationOf[c]].slot = c
      BY DEF HolderHasSlot
    <3>1. c \notin gone /\ verdict[c] = "none" /\ body[c] # "none"
      BY <1>6, <1>7 DEF Busy
    <3>2. c \notin CallsOf(o)
      BY <1>2, <3>1
    <3> QED BY <1>1, <1>5, <1>6, <3>1, <3>2 DEF QueueInv, HolderHasSlot, CallsOf
  <2>3. EntriesOK'
    <3> SUFFICES ASSUME NEW p \in Operations
                 PROVE  /\ EntriesWait(p, queue'[p].entries, body', Settled')
                        /\ queue'[p].slot = NoCall => queue'[p].entries = <<>>
      BY DEF EntriesOK, EntriesWait
    <3>1. CASE p = o
      BY <1>5, <3>1 DEF EntriesWait
    <3>2. CASE p # o
      <4>1. /\ queue'[p] = queue[p]
            /\ EntriesWait(p, queue[p].entries, body, Settled)
            /\ queue[p].slot = NoCall => queue[p].entries = <<>>
            /\ \A i \in DOMAIN queue[p].entries : queue[p].entries[i] \in Calls
        BY <1>1, <1>5, <3>2 DEF QueueInv, EntriesOK, Queue
      <4>2. \A i \in DOMAIN queue[p].entries :
              queue[p].entries[i] \in Calls \ CallsOf(o)
        BY <4>1, <3>2 DEF EntriesWait, CallsOf
      <4>3. \A c \in Calls \ CallsOf(o) : c \in Settled' <=> c \in Settled
        BY <1>2, <1>6 DEF Settled
      <4> QED BY <1>6, <4>1, <4>2, <4>3 DEF EntriesWait
    <3> QED BY <3>1, <3>2
  <2> QED BY <2>1, <2>2, <2>3 DEF QueueInv
<1>12. SettledGoesOn' /\ OneLeftBehind' /\ DecidedIsAnswered'
  <2>1. \A c \in Calls : GoesOn(c)' => GoesOn(c) \/ (c \in gone /\ c = queue[o].slot)
    BY <1>6, <1>8 DEF GoesOn, Busy
  <2>2. \A p \in Operations : phase[p] \in Ended => phase'[p] \in Ended
    BY <1>1, <1>3 DEF Ended
  <2>3. SettledGoesOn'
    <3> SUFFICES ASSUME NEW c \in Calls, GoesOn(c)' PROVE SignalsAborted(c)'
      BY DEF SettledGoesOn
    <3>1. CASE GoesOn(c)
      BY <1>1, <1>3, <2>2, <3>1 DEF HostInv, SettledGoesOn, SignalsAborted
    <3>2. CASE c \in gone /\ c = queue[o].slot
      <4>1. c \in controllers' /\ OperationOf[c] = o /\ phase'[o] \in Ended
        BY <1>1, <1>2, <1>3, <3>2 DEF CallsOf, Ended
      <4> QED BY <1>3, <1>9, <3>2, <4>1 DEF SignalsAborted
    <3> QED BY <2>1, <3>1, <3>2
  <2>4. OneLeftBehind'
    <3>1. ASSUME NEW c \in Calls, GoesOn(c), c \notin aborted, c \in Extension
          PROVE  OperationOf[c] # o
      BY <1>1, <1>3, <3>1 DEF HostInv, SettledGoesOn, SignalsAborted, Ended
    <3>2. \A c \in gone : OperationOf[c] = o
      BY <1>2 DEF CallsOf
    <3> QED BY <1>1, <1>3, <2>1, <3>1, <3>2 DEF HostInv, OneLeftBehind
  <2>5. DecidedIsAnswered'
    BY <1>1, <1>3, <1>6 DEF HostInv, DecidedIsAnswered
  <2> QED BY <2>3, <2>4, <2>5
<1>13. OutcomeAfterVerdict' /\ EndedIsCancelled' /\ ActiveIsOpen'
  BY <1>1, <1>2, <1>3, <1>5, <1>6
  DEF HostInv, OutcomeAfterVerdict, EndedIsCancelled, ActiveIsOpen, Ended
<1>14. CancelSettles'
  <2>1. \A p \in Operations : Unsettled(p)' = Unsettled(p) \ gone
    BY <1>1, <1>2, <1>6, <1>7 DEF Unsettled, CallsOf
  <2> QED BY <1>1, <1>2, <1>3, <2>1 DEF HostInv, CancelSettles, gone
<1>15. ShownIsAsked'
  BY <1>1, <1>2, <1>3, <1>6 DEF HostInv, ShownIsAsked, AskedInTime, AskedInVain, CallsOf
<1> QED BY <1>10, <1>11, <1>12, <1>13, <1>14, <1>15 DEF HostInv

LEMMA CloseHost ==
  ASSUME ApprovalInv, Close
  PROVE  QueueTypes' /\ QueueInv' /\ HostInv'
PROOF
<1>1. /\ QueueTypes /\ QueueInv /\ HostInv
      /\ body \in [Calls -> Bodies] /\ pending \subseteq Calls
  BY DEF ApprovalInv, TypeOK, QueueTypes
<1>2. /\ UNCHANGED <<active, phase, queue, verdict, aborted, controllers, answer, outcome>>
      /\ pending' = {}
      /\ body' \in [Calls -> Bodies]
      /\ \A c \in pending : body[c] = "asked" /\ body'[c] = "failing"
      /\ \A c \in Calls \ pending : body'[c] = body[c]
  BY <1>1 DEF Close, Bodies, HostInv, ShownIsAsked
<1>3. \A c \in Calls : \/ body'[c] = body[c]
                       \/ body[c] = "asked" /\ body'[c] = "failing"
  BY <1>2
<1>4. QueueTypes'
  BY <1>1, <1>2 DEF QueueTypes
<1>5. SlotHeld'
  <2>1. \A o \in Operations : queue[o].slot \in Calls \cup {NoCall}
    BY <1>1 DEF QueueTypes, Queue
  <2> QED BY <1>1, <1>2, <1>3, <2>1 DEF QueueInv, SlotHeld, Busy
<1>6. HolderHasSlot'
  BY <1>1, <1>2, <1>3 DEF QueueInv, HolderHasSlot, Busy
<1>7. EntriesOK'
  <2> SUFFICES ASSUME NEW o \in Operations
               PROVE  EntriesWait(o, queue[o].entries, body', Settled)
    BY <1>1, <1>2 DEF QueueInv, EntriesOK, EntriesWait, Settled
  <2>1. /\ EntriesWait(o, queue[o].entries, body, Settled)
        /\ \A i \in DOMAIN queue[o].entries : queue[o].entries[i] \in Calls
    BY <1>1 DEF QueueInv, EntriesOK, QueueTypes, Queue
  <2> QED BY <1>3, <2>1 DEF EntriesWait
<1>8. SettledGoesOn' /\ OneLeftBehind' /\ DecidedIsAnswered'
  BY <1>1, <1>2, <1>3 DEF HostInv, SettledGoesOn, OneLeftBehind, GoesOn, SignalsAborted,
     DecidedIsAnswered, Busy
<1>9. OutcomeAfterVerdict' /\ EndedIsCancelled' /\ ActiveIsOpen' /\ ShownIsAsked'
  BY <1>1, <1>2, <1>3
  DEF HostInv, OutcomeAfterVerdict, EndedIsCancelled, ActiveIsOpen, ShownIsAsked,
      AskedInTime, AskedInVain
<1>10. CancelSettles'
  BY <1>1, <1>2, <1>3 DEF HostInv, CancelSettles, Unsettled, CallsOf
<1> QED BY <1>4, <1>5, <1>6, <1>7, <1>8, <1>9, <1>10 DEF QueueInv, HostInv

\* A step that leaves the queues alone.
LEMMA QueuesAlone ==
  ASSUME QueueTypes, QueueInv, UNCHANGED callVars
  PROVE  QueueTypes' /\ QueueInv'
PROOF
<1>1. queue' = queue /\ verdict' = verdict /\ body' = body
  BY DEF callVars
<1> QED BY <1>1 DEF QueueTypes, QueueInv, SlotHeld, HolderHasSlot, EntriesOK,
                    EntriesWait, Settled

LEMMA CallStepHost ==
  ASSUME ApprovalInv, NEW c \in Calls, CallStep(c)
  PROVE  QueueTypes' /\ QueueInv' /\ HostInv'
PROOF
<1>1. PICK what : Becomes(c, what)
  BY DEF CallStep, Return, Reread, Intend, Execute
<1>2. /\ QueueTypes /\ QueueInv /\ HostInv /\ UNCHANGED callVars
      /\ outcome \in [Calls -> Outcomes]
  BY <1>1 DEF ApprovalInv, TypeOK, QueueTypes, Becomes
<1>3. QueueTypes' /\ QueueInv'
  BY <1>2, QueuesAlone
<1>4. verdict[c] # "none"
  BY <1>2 DEF HostInv, OutcomeAfterVerdict, CallStep, Return, Reread, Intend, Execute
<1>5. /\ \A d \in Calls \ {c} : outcome'[d] = outcome[d]
      /\ UNCHANGED <<active, phase, pending, queue, body, verdict, aborted,
                     controllers, answer>>
  BY <1>1, <1>2 DEF Becomes, callVars, hostVars
<1>6. HostInv'
  BY <1>2, <1>4, <1>5 DEF HostInv, SettledGoesOn, OneLeftBehind, GoesOn, SignalsAborted,
     DecidedIsAnswered, OutcomeAfterVerdict, EndedIsCancelled, CancelSettles, Unsettled,
     ActiveIsOpen, ShownIsAsked, AskedInTime, AskedInVain
<1> QED BY <1>3, <1>6

\* The steps of the Operation besides the cancellation, and those that only the
\* client or the user takes.
LEMMA PhaseHost ==
  ASSUME ApprovalInv,
         \/ Reopen \/ ChangePolicy
         \/ \E o \in Operations : StartOperation(o) \/ FinishOperation(o)
                                 \/ KeepOperation(o)
  PROVE  QueueTypes' /\ QueueInv' /\ HostInv'
PROOF
<1>1. /\ QueueTypes /\ QueueInv /\ HostInv
      /\ phase \in [Operations -> Phases] /\ pending \subseteq Calls
      /\ active \in {0} \cup Operations /\ OperationOf \in [Calls -> Operations]
  BY ApprovalAssumption DEF ApprovalInv, TypeOK, QueueTypes
<1>2. UNCHANGED <<pending, queue, body, verdict, aborted, controllers, answer, outcome>>
  BY DEF Reopen, ChangePolicy, StartOperation, FinishOperation, KeepOperation, callVars
<1>3. QueueTypes' /\ QueueInv'
  BY <1>1, <1>2, QueuesAlone DEF callVars
<1>4. OneLeftBehind' /\ DecidedIsAnswered' /\ OutcomeAfterVerdict'
  BY <1>1, <1>2 DEF HostInv, OneLeftBehind, GoesOn, DecidedIsAnswered, OutcomeAfterVerdict
<1>5. SettledGoesOn'
  <2>1. \A o \in Operations : phase[o] \in Ended => phase'[o] \in Ended
    BY <1>1 DEF Reopen, ChangePolicy, StartOperation, FinishOperation, KeepOperation,
                hostVars, Ended
  <2> QED BY <1>1, <1>2, <2>1 DEF HostInv, SettledGoesOn, GoesOn, SignalsAborted
<1>6. EndedIsCancelled' /\ CancelSettles' /\ ActiveIsOpen' /\ ShownIsAsked'
  <2>1. CASE UNCHANGED <<active, phase>>
    BY <1>1, <1>2, <2>1 DEF HostInv, EndedIsCancelled, CancelSettles, Unsettled,
       ActiveIsOpen, ShownIsAsked, AskedInTime, AskedInVain
  <2>2. ASSUME NEW o \in Operations, StartOperation(o)
        PROVE  EndedIsCancelled' /\ CancelSettles' /\ ActiveIsOpen' /\ ShownIsAsked'
    <3>1. /\ active = 0 /\ active' = o /\ phase'[o] = "running"
          /\ \A p \in Operations \ {o} : phase'[p] = phase[p]
          /\ 0 \notin Operations
      BY <1>1, <2>2 DEF StartOperation, Operations
    <3>2. \A c \in pending : AskedInVain(c)
      BY <1>1, <3>1 DEF HostInv, ShownIsAsked, AskedInTime, AskedInVain
    <3>3. EndedIsCancelled' /\ CancelSettles'
      BY <1>1, <1>2, <3>1 DEF HostInv, EndedIsCancelled, CancelSettles, Unsettled, Ended
    <3>4. ActiveIsOpen' /\ ShownIsAsked'
      BY <1>1, <1>2, <3>1, <3>2 DEF HostInv, ActiveIsOpen, ShownIsAsked, AskedInVain
    <3> QED BY <3>3, <3>4
  <2>3. ASSUME NEW o \in Operations, FinishOperation(o) \/ KeepOperation(o)
        PROVE  EndedIsCancelled' /\ CancelSettles' /\ ActiveIsOpen' /\ ShownIsAsked'
    <3>1. /\ phase[o] = "ending"
          /\ \/ phase'[o] = "over" /\ active' = 0
             \/ phase'[o] = "stuck" /\ active' = active
          /\ \A p \in Operations \ {o} : phase'[p] = phase[p]
          /\ 0 \notin Operations
      <4>1. CASE FinishOperation(o)
        BY <1>1, <4>1 DEF FinishOperation, Operations
      <4>2. CASE KeepOperation(o)
        BY <1>1, <4>2 DEF KeepOperation, Operations
      <4> QED BY <2>3, <4>1, <4>2
    <3>2. active = o /\ \A c \in pending : AskedInVain(c)
      BY <1>1, <3>1 DEF HostInv, ActiveIsOpen, ShownIsAsked, AskedInTime, AskedInVain
    <3>3. EndedIsCancelled' /\ CancelSettles'
      BY <1>1, <1>2, <3>1 DEF HostInv, EndedIsCancelled, CancelSettles, Unsettled, Ended
    <3>4. ActiveIsOpen' /\ ShownIsAsked'
      BY <1>1, <1>2, <3>1, <3>2 DEF HostInv, ActiveIsOpen, ShownIsAsked, AskedInVain
    <3> QED BY <3>3, <3>4
  <2> QED BY <2>1, <2>2, <2>3 DEF Reopen, ChangePolicy, hostVars
<1> QED BY <1>3, <1>4, <1>5, <1>6 DEF HostInv

(***************************************************************************)
(* The invariant holds.                                                    *)
(***************************************************************************)

LEMMA InitInvariant == Init => ApprovalInv
PROOF
<1> USE ApprovalAssumption
<1> SUFFICES ASSUME Init PROVE ApprovalInv
  OBVIOUS
<1>1. [slot |-> NoCall, entries |-> <<>>, cancelled |-> FALSE] \in Queue
  BY DEF Queue
<1>2. TypeOK
  <2>1. QueueTypes
    BY <1>1 DEF Init, QueueTypes, Bodies, Verdicts
  <2>2. HostTypes
    <3>1. closed \in BOOLEAN
      BY DEF Init
    <3>2. 0 \in 0..MaxCloses /\ 0 \in 0..MaxChanges
      OBVIOUS
    <3> QED BY <3>1, <3>2 DEF Init, HostTypes, Phases, Outcomes
  <2> QED BY <2>1, <2>2 DEF TypeOK, QueueTypes, HostTypes
<1>3. /\ \A o \in Operations :
           queue[o] = [slot |-> NoCall, entries |-> <<>>, cancelled |-> FALSE]
      /\ \A c \in Calls : body[c] = "none" /\ outcome[c] = "none"
      /\ \A o \in Operations : phase[o] = "none"
      /\ active = 0 /\ pending = {} /\ 0 \notin Operations
  BY DEF Init, Operations
<1>4. QueueInv
  BY <1>3 DEF QueueInv, SlotHeld, HolderHasSlot, EntriesOK, EntriesWait, Busy
<1>5. HostInv
  BY <1>3 DEF HostInv, SettledGoesOn, OneLeftBehind, GoesOn, DecidedIsAnswered,
     OutcomeAfterVerdict,
     EndedIsCancelled, Ended, CancelSettles, ActiveIsOpen, ShownIsAsked, Busy
<1> QED BY <1>2, <1>4, <1>5 DEF ApprovalInv

LEMMA StepHost ==
  ASSUME ApprovalInv, Next
  PROVE  QueueTypes' /\ QueueInv' /\ HostInv'
PROOF
<1> USE ApprovalAssumption
<1>1. CASE \E c \in Calls : Call(c) \/ BodyStep(c) \/ CallStep(c)
  BY <1>1, CallHost, BodyStepHost, CallStepHost
<1>2. ASSUME NEW c \in Calls, StopSubagent(c)
      PROVE  QueueTypes' /\ QueueInv' /\ HostInv'
  <2>1. OperationOf[c] \in Operations /\ {c} \in SUBSET CallsOf(OperationOf[c])
    BY DEF CallsOf
  <2> QED BY <1>2, <2>1, SignalAbortedHost DEF StopSubagent
<1>3. CASE \E c \in Calls, d \in Decisions : Respond(c, d)
  BY <1>3, RespondHost
<1>4. ASSUME NEW o \in Operations, AbortRun(o)
      PROVE  QueueTypes' /\ QueueInv' /\ HostInv'
  BY <1>4, SignalAbortedHost DEF AbortRun
<1>5. CASE \E o \in Operations : CancelApprovals(o)
  BY <1>5, CancelApprovalsHost
<1>6. CASE Close
  BY <1>6, CloseHost
<1>7. CASE \/ Reopen \/ ChangePolicy
           \/ \E o \in Operations : StartOperation(o) \/ FinishOperation(o)
                                   \/ KeepOperation(o)
  BY <1>7, PhaseHost
<1> QED BY <1>1, <1>2, <1>3, <1>4, <1>5, <1>6, <1>7 DEF Next

LEMMA StepTypes ==
  ASSUME TypeOK, QueueTypes', Next
  PROVE  TypeOK'
PROOF
<1> USE ApprovalAssumption
<1>1. HostTypes
  BY DEF TypeOK, HostTypes
<1>2. ASSUME NEW c \in Calls, Call(c)
      PROVE  HostTypes'
  BY <1>1, <1>2 DEF HostTypes, Call, hostVars
<1>3. ASSUME NEW c \in Calls, BodyStep(c)
      PROVE  HostTypes'
  <2>1. UNCHANGED <<active, phase, closed, closes, aborted, controllers, outcome, changes>>
    BY <1>3 DEF BodyStep, Run, Review, Decide, Recheck, Fail, hostVars
  <2>2. pending' \subseteq Calls
    BY <1>1, <1>3 DEF HostTypes, BodyStep, Run, Review, Decide, Recheck, Fail, Request
  <2>3. answer' = answer \/ answer' = [answer EXCEPT ![c] = "reviewed"]
    BY <1>3 DEF BodyStep, Run, Review, Decide, Recheck, Fail
  <2>4. grants' = grants \/ grants' = Remembered(c)
    BY <1>3 DEF BodyStep, Run, Review, Decide, Recheck, Fail
  <2>5. grants' \subseteq Scopes
    BY <1>1, <2>4 DEF HostTypes, Scopes, Remembered
  <2>6. answer' \in [Calls -> Decisions \cup {"none", "reviewed"}]
    BY <1>1, <2>3 DEF HostTypes
  <2> QED BY <1>1, <2>1, <2>2, <2>5, <2>6 DEF HostTypes
<1>4. ASSUME NEW c \in Calls, CallStep(c)
      PROVE  HostTypes'
  <2>1. PICK what \in Outcomes : Becomes(c, what)
    BY <1>4 DEF CallStep, Return, Reread, Intend, Execute, Outcomes
  <2> QED BY <1>1, <2>1 DEF HostTypes, Becomes, hostVars
<1>5. ASSUME NEW c \in Calls, NEW d \in Decisions, Respond(c, d)
      PROVE  HostTypes'
  BY <1>1, <1>5 DEF HostTypes, Respond, Without, hostVars
<1>6. ASSUME NEW o \in Operations, NEW gone \in SUBSET CallsOf(o), SignalAborted(o, gone)
      PROVE  HostTypes'
  BY <1>1, <1>6 DEF HostTypes, SignalAborted, Without, CallsOf, hostVars
<1>7. ASSUME NEW o \in Operations, AbortRun(o)
      PROVE  HostTypes'
  BY <1>6, <1>7 DEF AbortRun
<1>8. ASSUME NEW c \in Calls, StopSubagent(c)
      PROVE  HostTypes'
  <2>1. OperationOf[c] \in Operations /\ {c} \in SUBSET CallsOf(OperationOf[c])
    BY DEF CallsOf
  <2> QED BY <1>6, <1>8, <2>1 DEF StopSubagent
<1>9. ASSUME NEW o \in Operations,
             StartOperation(o) \/ FinishOperation(o) \/ KeepOperation(o)
      PROVE  HostTypes'
  BY <1>1, <1>9 DEF HostTypes, StartOperation, FinishOperation, KeepOperation, Phases
<1>10. ASSUME NEW o \in Operations, CancelApprovals(o)
       PROVE  HostTypes'
  <2>1. /\ phase' \in [Operations -> Phases]
        /\ UNCHANGED <<active, closed, closes, aborted, answer, outcome, grants, changes>>
    BY <1>1, <1>10 DEF HostTypes, CancelApprovals, Phases
  <2>2. pending' \subseteq Calls /\ controllers' \subseteq Calls
    BY <1>1, <1>10 DEF HostTypes, CancelApprovals, Without, Unsettled, CallsOf
  <2> QED BY <1>1, <2>1, <2>2 DEF HostTypes
<1>11. ASSUME Close PROVE HostTypes'
  <2>1. closes' \in 0..MaxCloses
    BY <1>1, <1>11 DEF HostTypes, Close
  <2>2. closed' \in BOOLEAN
    BY <1>11 DEF Close
  <2>3. /\ pending' = {}
        /\ UNCHANGED <<active, phase, aborted, controllers, answer, outcome, grants, changes>>
    BY <1>11 DEF Close
  <2> QED BY <1>1, <2>1, <2>2, <2>3 DEF HostTypes
<1>12. ASSUME Reopen PROVE HostTypes'
  <2>1. closed' \in BOOLEAN
    BY <1>12 DEF Reopen
  <2>2. UNCHANGED <<active, phase, closes, pending, aborted, controllers, answer,
                    outcome, grants, changes>>
    BY <1>12 DEF Reopen
  <2> QED BY <1>1, <2>1, <2>2 DEF HostTypes
<1>13. ASSUME ChangePolicy PROVE HostTypes'
  <2>1. changes' \in 0..MaxChanges
    BY <1>1, <1>13 DEF HostTypes, ChangePolicy
  <2>2. UNCHANGED <<active, phase, closed, closes, pending, aborted, controllers,
                    answer, outcome, grants>>
    BY <1>13 DEF ChangePolicy, hostVars
  <2> QED BY <1>1, <2>1, <2>2 DEF HostTypes
<1>14. HostTypes'
  <2>1. CASE \E c \in Calls : Call(c) \/ BodyStep(c) \/ CallStep(c) \/ StopSubagent(c)
    BY <1>2, <1>3, <1>4, <1>8, <2>1
  <2>2. CASE \E c \in Calls, d \in Decisions : Respond(c, d)
    BY <1>5, <2>2
  <2>3. CASE \E o \in Operations : \/ StartOperation(o) \/ AbortRun(o)
                                  \/ CancelApprovals(o) \/ FinishOperation(o)
                                  \/ KeepOperation(o)
    BY <1>7, <1>9, <1>10, <2>3
  <2> QED BY <1>11, <1>12, <1>13, <2>1, <2>2, <2>3 DEF Next
<1> QED BY <1>14 DEF TypeOK, HostTypes, QueueTypes

LEMMA ApprovalInvariant == Spec => []ApprovalInv
PROOF
<1>1. Init => ApprovalInv
  BY InitInvariant
<1>2. ApprovalInv /\ [Next]_vars => ApprovalInv'
  <2> SUFFICES ASSUME ApprovalInv, [Next]_vars PROVE ApprovalInv'
    OBVIOUS
  <2>1. CASE Next
    BY <2>1, StepHost, StepTypes DEF ApprovalInv
  <2>2. CASE UNCHANGED vars
    <3>1. UNCHANGED <<active, phase, closed, closes, pending, queue, body, verdict,
                      aborted, controllers, answer, outcome, grants, changes>>
      BY <2>2 DEF vars, hostVars, callVars
    <3>2. QueueTypes' /\ QueueInv'
      BY <3>1, QueuesAlone DEF ApprovalInv, TypeOK, QueueTypes, callVars
    <3>3. HostInv'
      BY <3>1 DEF ApprovalInv, HostInv, SettledGoesOn, OneLeftBehind, GoesOn,
         SignalsAborted, DecidedIsAnswered,
         OutcomeAfterVerdict, EndedIsCancelled, CancelSettles, Unsettled,
         ActiveIsOpen, ShownIsAsked, AskedInTime, AskedInVain
    <3>4. TypeOK'
      BY <3>1 DEF ApprovalInv, TypeOK
    <3> QED BY <3>2, <3>3, <3>4 DEF ApprovalInv
  <2> QED BY <2>1, <2>2
<1> QED BY <1>1, <1>2, PTL DEF Spec

(***************************************************************************)
(* What the invariant says.                                                *)
(***************************************************************************)

\* Every variable keeps its type.
THEOREM ApprovalTypes == Spec => []TypeOK
PROOF
<1>1. ApprovalInv => TypeOK
  BY DEF ApprovalInv
<1> QED BY <1>1, ApprovalInvariant, PTL

\* settle starts the next entry whenever the slot becomes free: however the calls
\* of the Session end, no queue is left with a free slot and an entry that waits,
\* or with a slot that belongs to a call that has settled.
THEOREM QueuesAdvance == Spec => []QueueNeverIdle
PROOF
<1>1. ApprovalInv => QueueNeverIdle
  BY DEF ApprovalInv, QueueInv, SlotHeld, EntriesOK, QueueNeverIdle
<1> QED BY <1>1, ApprovalInvariant, PTL

\* Once completeOperation has cancelled the queue of an Operation, no call of it
\* waits there, and no later call of a subagent it has detached ever does.
THEOREM CancelledQueuesAreEmpty == Spec => []CancelSettles
PROOF
<1>1. ApprovalInv => CancelSettles
  BY DEF ApprovalInv, HostInv
<1> QED BY <1>1, ApprovalInvariant, PTL

\* The queue of an Operation shows at most one request, for any calls, Operations
\* and interleaving: also while the function of a call that has settled goes on.
THEOREM OneRequest == Spec => []OneRequestShown
PROOF
<1>1. ApprovalInv => OneRequestShown
  <2> SUFFICES ASSUME ApprovalInv, NEW c \in pending, NEW d \in pending,
                      OperationOf[c] = OperationOf[d]
               PROVE  c = d
    BY DEF OneRequestShown
  <2>1. /\ c \in Calls /\ body[c] \in Busy /\ (AskedInTime(c) \/ AskedInVain(c))
        /\ d \in Calls /\ body[d] \in Busy /\ (AskedInTime(d) \/ AskedInVain(d))
    BY DEF ApprovalInv, TypeOK, HostInv, ShownIsAsked, Busy
  <2>2. CASE AskedInTime(c) /\ AskedInTime(d)
    BY <2>1, <2>2 DEF ApprovalInv, QueueInv, HolderHasSlot, AskedInTime
  <2>3. CASE AskedInVain(c) /\ AskedInVain(d)
    BY <2>1, <2>3 DEF ApprovalInv, HostInv, OneLeftBehind, GoesOn, AskedInVain
  <2>4. ASSUME NEW e \in Calls, body[e] \in Busy, AskedInVain(e)
        PROVE  phase[OperationOf[e]] \in Ended
    BY <2>4 DEF ApprovalInv, HostInv, SettledGoesOn, GoesOn, SignalsAborted, AskedInVain
  <2>5. ~(AskedInTime(c) /\ AskedInVain(d)) /\ ~(AskedInVain(c) /\ AskedInTime(d))
    BY <2>1, <2>4 DEF AskedInTime, Ended
  <2> QED BY <2>1, <2>2, <2>3, <2>5
<1> QED BY <1>1, ApprovalInvariant, PTL

\* A request is shown while its Operation runs and its call waits for the answer,
\* or it is that of an Extension tool of a detached subagent whose queue was
\* cancelled under it: no other request survives an abort or the end of its run.
THEOREM AnswersAreAwaited == Spec => []AnswerIsAwaited
PROOF
<1>1. ApprovalInv => AnswerIsAwaited
  <2> SUFFICES ASSUME ApprovalInv, NEW c \in pending, ~AskedInTime(c)
               PROVE  LeftBehind(c)
    BY DEF AnswerIsAwaited, AskedInTime
  <2>1. c \in Calls /\ GoesOn(c) /\ AskedInVain(c)
    BY DEF ApprovalInv, TypeOK, HostInv, ShownIsAsked, GoesOn, AskedInVain, Busy
  <2>2. SignalsAborted(c)
    BY <2>1 DEF ApprovalInv, HostInv, SettledGoesOn
  <2> QED BY <2>1, <2>2 DEF SignalsAborted, AskedInVain, LeftBehind, Ended
<1> QED BY <1>1, ApprovalInvariant, PTL

(***************************************************************************)
(* Consent.  A promise of the queue settles with a permission only when    *)
(* its function ends, and what the function goes by is never taken back:   *)
(* the answer is asked for once and a remembered rule stays.               *)
(***************************************************************************)
Permits == {"allowOnce", "alwaysAllow"}

\* What the client or the reviewer said lets the call go on.
Agreed(c) == answer[c] \in {"allowOnce", "alwaysAllow", "reviewed"}

\* What call c settled with, or is about to settle with, has a reason.
ConsentKept(c) ==
  /\ body[c] = "recheck" => Agreed(c)
  /\ verdict[c] \in Permits => body[c] = "done" /\ Agreed(c)
  /\ verdict[c] = "unneeded" => BuiltIn(c) /\ Granted(c)

ConsentInv == \A c \in Calls : ConsentKept(c)

\* settle and pump give no call but those that end a permission, and start no
\* function that has settled.
SettleGiven(gone, v, bodies) ==
  \A c \in Calls :
    /\ verdict'[c] = IF c \in gone /\ verdict[c] = "none" THEN v ELSE verdict[c]
    /\ \/ body'[c] = bodies[c]
       \/ body'[c] = "scheduled" /\ c \notin gone /\ verdict[c] = "none"

LEMMA SettleGives ==
  ASSUME QueueTypes, NEW o \in Operations, NEW gone \in SUBSET Calls,
         NEW v \in Verdicts,
         NEW entries \in Seq(Calls), NEW bodies \in [Calls -> Bodies],
         Settle(o, gone, v, entries, bodies)
  PROVE  SettleGiven(gone, v, bodies)
PROOF
<1> DEFINE waiting == {i \in DOMAIN entries :
                         entries[i] \notin gone /\ verdict[entries[i]] = "none"}
<1>1. verdict' = [c \in Calls |->
          IF c \in gone /\ verdict[c] = "none" THEN v ELSE verdict[c]]
  BY DEF Settle
<1>2. \/ body' = bodies
      \/ \E i \in waiting : body' = [bodies EXCEPT ![entries[i]] = "scheduled"]
  BY DEF Settle
<1>3. \A i \in waiting : entries[i] \notin gone /\ verdict[entries[i]] = "none"
  OBVIOUS
<1> QED BY <1>1, <1>2, <1>3 DEF SettleGiven

\* The function of c ends with v.
LEMMA EndsGives ==
  ASSUME QueueTypes, NEW c \in Calls, NEW v \in Verdicts, Ends(c, v)
  PROVE  /\ body'[c] = "done"
         /\ verdict'[c] = IF verdict[c] = "none" THEN v ELSE verdict[c]
         /\ \A d \in Calls \ {c} :
              /\ verdict'[d] = verdict[d]
              /\ \/ body'[d] = body[d]
                 \/ body'[d] = "scheduled" /\ verdict[d] = "none"
PROOF
<1> USE ApprovalAssumption
<1> DEFINE bodies == [body EXCEPT ![c] = "done"]
<1>1. /\ OperationOf[c] \in Operations /\ {c} \in SUBSET Calls
      /\ queue[OperationOf[c]].entries \in Seq(Calls)
      /\ bodies \in [Calls -> Bodies]
      /\ bodies[c] = "done" /\ \A d \in Calls \ {c} : bodies[d] = body[d]
  BY DEF QueueTypes, Queue, Bodies
<1>2. Settle(OperationOf[c], {c}, v, queue[OperationOf[c]].entries, bodies)
  BY DEF Ends
<1> HIDE DEF bodies
<1>3. SettleGiven({c}, v, bodies)
  BY <1>1, <1>2, SettleGives
<1> QED BY <1>1, <1>3 DEF SettleGiven

\* A function that ends with a permission has its reason.
LEMMA EndsConsents ==
  ASSUME ApprovalInv, ConsentInv, NEW c \in Calls, NEW v \in Verdicts, Ends(c, v),
         body[c] # "done",
         v \in Permits => Agreed(c)',
         v = "unneeded" => BuiltIn(c) /\ Granted(c),
         \A d \in Calls \ {c} : answer'[d] = answer[d],
         grants \subseteq grants'
  PROVE  ConsentInv'
PROOF
<1>1. QueueTypes
  BY DEF ApprovalInv, TypeOK, QueueTypes
<1>2. /\ body'[c] = "done"
      /\ verdict'[c] = IF verdict[c] = "none" THEN v ELSE verdict[c]
      /\ \A d \in Calls \ {c} :
           /\ verdict'[d] = verdict[d]
           /\ \/ body'[d] = body[d]
              \/ body'[d] = "scheduled" /\ verdict[d] = "none"
  BY <1>1, EndsGives
<1>3. ConsentKept(c)'
  <2>1. verdict[c] \notin Permits
    BY DEF ConsentInv, ConsentKept
  <2> QED BY <1>2, <2>1 DEF ConsentInv, ConsentKept, Permits, BuiltIn, Granted
<1>4. ASSUME NEW d \in Calls \ {c} PROVE ConsentKept(d)'
  BY <1>2, <1>4 DEF ConsentInv, ConsentKept, Permits, Agreed, BuiltIn, Granted
<1> QED BY <1>3, <1>4 DEF ConsentInv

\* A function that waits goes on to its next step.
LEMMA MovesConsents ==
  ASSUME ApprovalInv, ConsentInv, NEW c \in Calls, NEW where, Moves(c, where),
         body[c] # "done",
         where = "recheck" => Agreed(c)',
         \A d \in Calls \ {c} : answer'[d] = answer[d],
         UNCHANGED grants
  PROVE  ConsentInv'
PROOF
<1>1. body \in [Calls -> Bodies]
  BY DEF ApprovalInv, TypeOK
<1>2. verdict' = verdict /\ body'[c] = where /\ \A d \in Calls \ {c} : body'[d] = body[d]
  BY <1>1 DEF Moves
<1> QED BY <1>2 DEF ConsentInv, ConsentKept, Permits, Agreed, BuiltIn, Granted

LEMMA RequestConsents ==
  ASSUME ApprovalInv, ConsentInv, NEW c \in Calls, Request(c), body[c] # "done",
         UNCHANGED <<answer, grants>>
  PROVE  ConsentInv'
PROOF
<1>1. CASE Moves(c, "asked")
  BY <1>1, MovesConsents
<1>2. CASE Ends(c, "rejected")
  BY <1>2, EndsConsents DEF Permits, Verdicts, Decisions
<1> QED BY <1>1, <1>2 DEF Request

LEMMA BodyStepConsents ==
  ASSUME ApprovalInv, ConsentInv, NEW c \in Calls, BodyStep(c)
  PROVE  ConsentInv'
PROOF
<1>1. body[c] # "done" /\ answer \in [Calls -> Decisions \cup {"none", "reviewed"}]
  BY DEF BodyStep, Run, Review, Decide, Recheck, Fail, ApprovalInv, TypeOK
<1>2. ASSUME NEW v \in {"rejected", "deny"}, Ends(c, v), grants' = grants,
             \A d \in Calls \ {c} : answer'[d] = answer[d]
      PROVE  ConsentInv'
  BY <1>1, <1>2, EndsConsents DEF Permits, Verdicts, Decisions
<1>3. CASE Run(c)
  <2>1. UNCHANGED <<answer, grants>>
    BY <1>3 DEF Run
  <2>2. CASE Ends(c, "unneeded") /\ BuiltIn(c) /\ Granted(c)
    BY <1>1, <2>1, <2>2, EndsConsents DEF Permits, Verdicts, Decisions
  <2>3. CASE Moves(c, "review")
    BY <1>1, <2>1, <2>3, MovesConsents
  <2> QED BY <1>1, <1>2, <1>3, <2>1, <2>2, <2>3, RequestConsents DEF Run
<1>4. CASE Review(c)
  <2>1. /\ \A d \in Calls \ {c} : answer'[d] = answer[d]
        /\ UNCHANGED grants
    BY <1>1, <1>4 DEF Review
  <2>2. CASE answer' = [answer EXCEPT ![c] = "reviewed"]
    <3>1. Agreed(c)'
      BY <1>1, <2>2 DEF Agreed
    <3>2. CASE Moves(c, "recheck")
      BY <1>1, <2>1, <3>1, <3>2, MovesConsents
    <3>3. CASE Ends(c, "allowOnce")
      BY <1>1, <2>1, <3>1, <3>3, EndsConsents DEF Verdicts, Decisions
    <3>4. \A d \in {"rejected", "deny"} : Ends(c, d) => ConsentInv'
      BY <1>2, <2>1
    <3>5. UNCHANGED answer /\ Request(c) => ConsentInv'
      BY <1>1, <2>1, RequestConsents
    <3> QED BY <1>4, <3>2, <3>3, <3>4, <3>5 DEF Review
  <2>3. CASE UNCHANGED answer
    <3>1. CASE Request(c)
      BY <1>1, <2>1, <2>3, <3>1, RequestConsents
    <3>2. \A d \in {"rejected", "deny"} : Ends(c, d) => ConsentInv'
      BY <1>2, <2>1
    <3>3. CASE answer' = [answer EXCEPT ![c] = "reviewed"]
      BY <2>2, <3>3
    <3> QED BY <1>4, <3>1, <3>2, <3>3 DEF Review
  <2> QED BY <1>4, <2>2, <2>3 DEF Review
<1>5. CASE Decide(c)
  <2>1. answer[c] \in Decisions /\ UNCHANGED <<answer, grants>>
    BY <1>5 DEF Decide, ApprovalInv, HostInv, DecidedIsAnswered
  <2>2. CASE Ends(c, answer[c])
    <3>1. answer[c] \in Permits => Agreed(c)'
      BY <2>1 DEF Permits, Agreed
    <3>2. answer[c] # "unneeded" /\ answer[c] \in Verdicts
      BY <2>1 DEF Decisions, Verdicts
    <3> QED BY <1>1, <2>1, <2>2, <3>1, <3>2, EndsConsents
  <2>3. CASE Moves(c, "recheck") /\ answer[c] # "deny"
    <3>1. Agreed(c)'
      BY <2>1, <2>3 DEF Agreed, Decisions
    <3> QED BY <1>1, <2>1, <2>3, <3>1, MovesConsents
  <2> QED BY <1>2, <1>5, <2>1, <2>2, <2>3 DEF Decide
<1>6. CASE Recheck(c)
  <2>1. Agreed(c)' /\ UNCHANGED answer
    BY <1>6 DEF Recheck, ConsentInv, ConsentKept, Agreed
  <2>2. grants \subseteq grants'
    BY <1>6 DEF Recheck, Remembered
  <2>3. PICK v \in {"rejected", "alwaysAllow", "allowOnce"} : Ends(c, v)
    BY <1>6 DEF Recheck
  <2> QED BY <1>1, <2>1, <2>2, <2>3, EndsConsents DEF Verdicts, Decisions
<1>7. CASE Fail(c)
  BY <1>2, <1>7 DEF Fail
<1> QED BY <1>3, <1>4, <1>5, <1>6, <1>7 DEF BodyStep

\* What the client and the Operation do to the calls gives no permission.
LEMMA OthersConsent ==
  ASSUME ApprovalInv, ConsentInv,
         \A c \in Calls :
           /\ verdict'[c] \in {verdict[c], "rejected"}
           /\ body'[c] = "recheck" => body[c] = "recheck" /\ answer'[c] = answer[c]
           /\ verdict[c] \in Permits => body'[c] = body[c] /\ answer'[c] = answer[c],
         UNCHANGED grants
  PROVE  ConsentInv'
PROOF
<1> SUFFICES ASSUME NEW c \in Calls PROVE ConsentKept(c)'
  BY DEF ConsentInv
<1>1. ConsentKept(c) /\ "rejected" \notin Permits
  BY DEF ConsentInv, Permits
<1> QED BY <1>1 DEF ConsentKept, Agreed, BuiltIn, Granted

LEMMA SignalAbortedConsents ==
  ASSUME ApprovalInv, ConsentInv, NEW o \in Operations, NEW gone \in SUBSET CallsOf(o),
         SignalAborted(o, gone)
  PROVE  ConsentInv'
PROOF
<1> DEFINE open == gone \cap Unsettled(o)
           bodies == [c \in Calls |-> IF \/ c \in open /\ body[c] = "queued"
                                         \/ c \in gone \cap pending
                                      THEN "done" ELSE body[c]]
<1>1. /\ QueueTypes /\ ShownIsAsked /\ open \in SUBSET Calls
      /\ queue[o].entries \in Seq(Calls)
      /\ bodies \in [Calls -> Bodies]
  BY DEF ApprovalInv, TypeOK, HostInv, QueueTypes, Queue, Bodies, CallsOf
<1>2. Settle(o, open, "rejected", queue[o].entries, bodies) /\ UNCHANGED <<answer, grants>>
  BY DEF SignalAborted
<1>3. \A c \in Calls : bodies[c] = body[c] \/ (bodies[c] = "done" /\ verdict[c] \notin Permits)
  <2>1. \A c \in pending : verdict[c] \notin Permits
    BY <1>1 DEF ShownIsAsked, ConsentInv, ConsentKept, ApprovalInv, TypeOK
  <2>2. \A c \in open : verdict[c] = "none"
    BY DEF Unsettled
  <2> QED BY <2>1, <2>2 DEF Permits
<1> HIDE DEF open, bodies
<1>4. SettleGiven(open, "rejected", bodies)
  <2>1. "rejected" \in Verdicts
    BY DEF Verdicts
  <2> QED BY <1>1, <1>2, <2>1, SettleGives
<1>5. \A c \in Calls :
        /\ verdict'[c] \in {verdict[c], "rejected"}
        /\ body'[c] = "recheck" => body[c] = "recheck" /\ answer'[c] = answer[c]
        /\ verdict[c] \in Permits => body'[c] = body[c] /\ answer'[c] = answer[c]
  BY <1>2, <1>3, <1>4 DEF Permits, SettleGiven
<1> QED BY <1>2, <1>5, OthersConsent

LEMMA StepConsents ==
  ASSUME ApprovalInv, ConsentInv, [Next]_vars
  PROVE  ConsentInv'
PROOF
<1> USE ApprovalAssumption
<1>1. /\ QueueTypes /\ ShownIsAsked /\ pending \subseteq Calls
      /\ answer \in [Calls -> Decisions \cup {"none", "reviewed"}]
  BY DEF ApprovalInv, TypeOK, HostInv, QueueTypes
<1>2. \A c \in pending : body[c] = "asked" /\ verdict[c] \notin Permits
  BY <1>1 DEF ShownIsAsked, ConsentInv, ConsentKept
<1>3. ASSUME UNCHANGED <<body, verdict, answer, grants>> PROVE ConsentInv'
  BY <1>3 DEF ConsentInv, ConsentKept, Agreed, BuiltIn, Granted
<1>4. ASSUME NEW c \in Calls, Call(c) PROVE ConsentInv'
  <2> DEFINE o == OperationOf[c]
             bodies == [body EXCEPT ![c] = "queued"]
             entries == Append(queue[o].entries, c)
  <2>1. /\ body[c] = "none" /\ UNCHANGED <<answer, grants>>
        /\ o \in Operations /\ entries \in Seq(Calls) /\ bodies \in [Calls -> Bodies]
        /\ bodies[c] = "queued" /\ \A d \in Calls \ {c} : bodies[d] = body[d]
    BY <1>1, <1>4 DEF Call, QueueTypes, Queue, Bodies
  <2>2. verdict[c] \notin Permits
    BY <2>1 DEF ConsentInv, ConsentKept
  <2>3. CASE Settle(o, {}, "none", entries, bodies)
    <3> HIDE DEF bodies, entries, o
    <3>1. SettleGiven({}, "none", bodies)
      <4>1. {} \in SUBSET Calls /\ "none" \in Verdicts
        BY DEF Verdicts
      <4> QED BY <1>1, <2>1, <2>3, <4>1, SettleGives
    <3>2. \A d \in Calls :
            /\ verdict'[d] \in {verdict[d], "rejected"}
            /\ body'[d] = "recheck" => body[d] = "recheck" /\ answer'[d] = answer[d]
            /\ verdict[d] \in Permits => body'[d] = body[d] /\ answer'[d] = answer[d]
      BY <2>1, <2>2, <3>1 DEF Permits, SettleGiven
    <3> QED BY <2>1, <3>2, OthersConsent
  <2>4. CASE /\ verdict' = [verdict EXCEPT ![c] = "rejected"]
             /\ body' = [body EXCEPT ![c] = "done"]
    <3>1. \A d \in Calls :
            /\ verdict'[d] \in {verdict[d], "rejected"}
            /\ body'[d] = "recheck" => body[d] = "recheck" /\ answer'[d] = answer[d]
            /\ verdict[d] \in Permits => body'[d] = body[d] /\ answer'[d] = answer[d]
      BY <1>1, <2>1, <2>2, <2>4 DEF QueueTypes
    <3> QED BY <2>1, <3>1, OthersConsent
  <2> QED BY <1>4, <2>3, <2>4 DEF Call
<1>5. ASSUME NEW c \in Calls, NEW d \in Decisions, Respond(c, d) PROVE ConsentInv'
  <2>1. /\ c \in pending /\ verdict' = verdict /\ grants' = grants
        /\ body'[c] \in {"failing", "decided"}
        /\ \A e \in Calls \ {c} : body'[e] = body[e] /\ answer'[e] = answer[e]
    BY <1>1, <1>5 DEF Respond, Moves, QueueTypes
  <2> QED BY <1>2, <2>1, OthersConsent
<1>6. ASSUME NEW c \in Calls, StopSubagent(c) PROVE ConsentInv'
  <2>1. OperationOf[c] \in Operations /\ {c} \in SUBSET CallsOf(OperationOf[c])
    BY DEF CallsOf
  <2> QED BY <1>6, <2>1, SignalAbortedConsents DEF StopSubagent
<1>7. ASSUME NEW o \in Operations, AbortRun(o) PROVE ConsentInv'
  BY <1>7, SignalAbortedConsents DEF AbortRun
<1>8. ASSUME NEW o \in Operations, CancelApprovals(o) PROVE ConsentInv'
  <2>1. /\ \A c \in Calls : verdict'[c] = IF c \in Unsettled(o) THEN "rejected" ELSE verdict[c]
        /\ \A c \in Calls : body'[c] = IF \/ c \in Unsettled(o) /\ body[c] = "queued"
                                          \/ c \in pending \cap CallsOf(o)
                                       THEN "done" ELSE body[c]
        /\ UNCHANGED <<answer, grants>>
    BY <1>8 DEF CancelApprovals
  <2>2. \A c \in Unsettled(o) : verdict[c] \notin Permits
    BY DEF Unsettled, Permits
  <2> QED BY <1>2, <2>1, <2>2, OthersConsent
<1>9. ASSUME Close PROVE ConsentInv'
  <2>1. /\ \A c \in Calls : body'[c] = IF c \in pending THEN "failing" ELSE body[c]
        /\ UNCHANGED <<verdict, answer, grants>>
    BY <1>9 DEF Close
  <2> QED BY <1>2, <2>1, OthersConsent
<1>10. ASSUME NEW o \in Operations,
              StartOperation(o) \/ FinishOperation(o) \/ KeepOperation(o)
       PROVE  ConsentInv'
  BY <1>3, <1>10 DEF StartOperation, FinishOperation, KeepOperation, callVars
<1>11. CASE Reopen \/ ChangePolicy \/ (\E c \in Calls : CallStep(c)) \/ UNCHANGED vars
  BY <1>3, <1>11 DEF Reopen, ChangePolicy, CallStep, Return, Reread, Intend, Execute,
     Becomes, vars, callVars
<1>12. CASE \E c \in Calls : BodyStep(c)
  BY <1>12, BodyStepConsents
<1> QED BY <1>4, <1>5, <1>6, <1>7, <1>8, <1>9, <1>10, <1>11, <1>12 DEF Next

\* Only the steps of the call itself change what becomes of it.
LEMMA OutcomeSteps ==
  ASSUME [Next]_vars, ApprovalInv
  PROVE  \/ UNCHANGED outcome
         \/ \E c \in Calls : CallStep(c)
PROOF
<1> QED BY DEF Next, vars, hostVars, callVars, Call, BodyStep, Run, Review, Decide, Recheck,
     Fail, StopSubagent, SignalAborted, Respond, StartOperation, AbortRun, CancelApprovals,
     FinishOperation, KeepOperation, Close, Reopen, ChangePolicy

\* A promise of the queue settles once, and not before the call.
Settles(c) ==
  /\ verdict[c] # "none" /\ body[c] # "none" => verdict'[c] = verdict[c]
  /\ body'[c] = "none" => body[c] = "none" /\ verdict'[c] = verdict[c]

LEMMA SettleSettles ==
  ASSUME ApprovalInv, NEW o \in Operations, NEW gone \in SUBSET Calls,
         NEW v \in Verdicts, NEW bodies \in [Calls -> Bodies],
         NEW entries \in Seq(Calls), Settle(o, gone, v, entries, bodies),
         \A c \in gone : body[c] # "none",
         \A c \in Calls : bodies[c] = "none" => body[c] = "none"
  PROVE  \A c \in Calls : Settles(c)
PROOF
<1>1. QueueTypes
  BY DEF ApprovalInv, TypeOK, QueueTypes
<1>2. SettleGiven(gone, v, bodies)
  BY <1>1, SettleGives
<1> QED BY <1>2 DEF SettleGiven, Settles

LEMMA BodyStepSettles ==
  ASSUME ApprovalInv, NEW c \in Calls, BodyStep(c)
  PROVE  \A d \in Calls : Settles(d)
PROOF
<1>1. /\ body[c] # "none" /\ body \in [Calls -> Bodies] /\ QueueTypes
      /\ answer[c] \in Decisions \cup {"none", "reviewed"}
  BY DEF BodyStep, Run, Review, Decide, Recheck, Fail, ApprovalInv, TypeOK, QueueTypes
<1>2. ASSUME NEW v \in Verdicts, Ends(c, v)
      PROVE  \A d \in Calls : Settles(d)
  BY <1>1, <1>2, EndsGives DEF Settles
<1>3. ASSUME NEW where \in Bodies \ {"none"}, Moves(c, where)
      PROVE  \A d \in Calls : Settles(d)
  BY <1>1, <1>3 DEF Moves, Settles
<1>4. Request(c) => \A d \in Calls : Settles(d)
  BY <1>2, <1>3 DEF Request, Verdicts, Bodies
<1>5. CASE Decide(c)
  <2>1. answer[c] \in Verdicts
    BY <1>5 DEF Decide, ApprovalInv, HostInv, DecidedIsAnswered, Verdicts
  <2> QED BY <1>2, <1>3, <1>5, <2>1 DEF Decide, Verdicts, Bodies
<1>6. CASE Run(c) \/ Fail(c)
  BY <1>2, <1>3, <1>4, <1>6 DEF Run, Fail, Verdicts, Bodies
<1>7. CASE Review(c)
  BY <1>2, <1>3, <1>4, <1>7 DEF Review, Verdicts, Decisions, Bodies
<1>8. CASE Recheck(c)
  BY <1>2, <1>8 DEF Recheck, Verdicts, Decisions
<1> QED BY <1>5, <1>6, <1>7, <1>8 DEF BodyStep

LEMMA SignalAbortedSettles ==
  ASSUME ApprovalInv, NEW o \in Operations, NEW gone \in SUBSET CallsOf(o),
         SignalAborted(o, gone)
  PROVE  \A c \in Calls : Settles(c)
PROOF
<1> DEFINE open == gone \cap Unsettled(o)
           bodies == [c \in Calls |-> IF \/ c \in open /\ body[c] = "queued"
                                         \/ c \in gone \cap pending
                                      THEN "done" ELSE body[c]]
<1>1. /\ open \in SUBSET Calls /\ queue[o].entries \in Seq(Calls)
      /\ bodies \in [Calls -> Bodies] /\ "rejected" \in Verdicts
  BY DEF ApprovalInv, TypeOK, Queue, Bodies, CallsOf, Verdicts
<1>2. Settle(o, open, "rejected", queue[o].entries, bodies)
  BY DEF SignalAborted
<1>3. /\ \A c \in open : body[c] # "none"
      /\ \A c \in Calls : bodies[c] = "none" => body[c] = "none"
  BY DEF Unsettled
<1> HIDE DEF open, bodies
<1> QED BY <1>1, <1>2, <1>3, SettleSettles

LEMMA StepSettles ==
  ASSUME ApprovalInv, [Next]_vars
  PROVE  \A c \in Calls : Settles(c)
PROOF
<1> USE ApprovalAssumption
<1>1. /\ body \in [Calls -> Bodies] /\ verdict \in [Calls -> Verdicts]
      /\ queue \in [Operations -> Queue] /\ pending \subseteq Calls
      /\ \A c \in pending : body[c] = "asked"
  BY DEF ApprovalInv, TypeOK, HostInv, ShownIsAsked
<1>2. ASSUME UNCHANGED <<body, verdict>> PROVE \A c \in Calls : Settles(c)
  BY <1>2 DEF Settles
<1>3. ASSUME NEW c \in Calls, Call(c) PROVE \A d \in Calls : Settles(d)
  <2> DEFINE bodies == [body EXCEPT ![c] = "queued"]
             entries == Append(queue[OperationOf[c]].entries, c)
  <2>1. /\ OperationOf[c] \in Operations /\ {} \in SUBSET Calls /\ "none" \in Verdicts
        /\ bodies \in [Calls -> Bodies] /\ entries \in Seq(Calls)
        /\ \A d \in Calls : bodies[d] = "none" => body[d] = "none"
    BY <1>1 DEF Queue, Bodies, Verdicts
  <2>2. CASE Settle(OperationOf[c], {}, "none", entries, bodies)
    <3> HIDE DEF bodies, entries
    <3> QED BY <2>1, <2>2, SettleSettles
  <2>3. CASE /\ verdict' = [verdict EXCEPT ![c] = "rejected"]
             /\ body' = [body EXCEPT ![c] = "done"]
    BY <1>1, <1>3, <2>3 DEF Call, Settles
  <2> QED BY <1>3, <2>2, <2>3 DEF Call
<1>4. CASE \E c \in Calls : BodyStep(c)
  BY <1>4, BodyStepSettles
<1>5. ASSUME NEW c \in Calls, NEW d \in Decisions, Respond(c, d)
      PROVE  \A e \in Calls : Settles(e)
  BY <1>1, <1>5 DEF Respond, Moves, Settles
<1>6. ASSUME NEW c \in Calls, StopSubagent(c) PROVE \A d \in Calls : Settles(d)
  <2>1. OperationOf[c] \in Operations /\ {c} \in SUBSET CallsOf(OperationOf[c])
    BY DEF CallsOf
  <2> QED BY <1>6, <2>1, SignalAbortedSettles DEF StopSubagent
<1>7. CASE \E o \in Operations : AbortRun(o)
  BY <1>7, SignalAbortedSettles DEF AbortRun
<1>8. CASE \E o \in Operations : CancelApprovals(o)
  BY <1>1, <1>8 DEF CancelApprovals, Unsettled, Settles
<1>9. CASE Close
  BY <1>1, <1>9 DEF Close, Settles
<1>10. CASE \/ Reopen \/ ChangePolicy \/ UNCHANGED vars
            \/ \E c \in Calls : CallStep(c)
            \/ \E o \in Operations : StartOperation(o) \/ FinishOperation(o)
                                    \/ KeepOperation(o)
  BY <1>2, <1>10 DEF Reopen, ChangePolicy, StartOperation, FinishOperation, KeepOperation,
     CallStep, Return, Reread, Intend, Execute, Becomes, vars, callVars
<1> QED BY <1>3, <1>4, <1>5, <1>6, <1>7, <1>8, <1>9, <1>10 DEF Next

\* A call goes on after the middleware's last look only with a permission.
OutcomePermitted ==
  \A c \in Calls :
    /\ body[c] = "none" => verdict[c] = "none"
    /\ outcome[c] \in {"reread", "approved", "intended", "executed"} =>
         verdict[c] \in Permits \cup {"unneeded"}

\* What one step may do to a call that is not yet decided.
MayExecute(c) ==
  /\ outcome[c] # "executed" /\ outcome'[c] = "executed" => Consent(c)
  /\ outcome[c] = "none" /\ c \in aborted => outcome'[c] \in {"none", "refused"}
  /\ outcome[c] = "refused" => outcome'[c] = "refused"

LEMMA CallStepPermitted ==
  ASSUME ApprovalInv, ConsentInv, OutcomePermitted, NEW c \in Calls, CallStep(c)
  PROVE  OutcomePermitted' /\ \A d \in Calls : MayExecute(d)
PROOF
<1>1. outcome \in [Calls -> Outcomes] /\ UNCHANGED <<body, verdict>>
  BY DEF ApprovalInv, TypeOK, CallStep, Return, Reread, Intend, Execute, Becomes, callVars
<1>2. \A d \in Calls \ {c} : outcome'[d] = outcome[d]
  BY <1>1 DEF CallStep, Return, Reread, Intend, Execute, Becomes
<1>3. /\ outcome[c] \notin {"executed", "refused"}
      /\ outcome'[c] # "refused" => verdict[c] \in Permits \cup {"unneeded"}
      /\ outcome[c] = "none" /\ c \in aborted => outcome'[c] = "refused"
  BY <1>1 DEF CallStep, Return, Reread, Intend, Execute, Becomes, Allowed, Permits,
     OutcomePermitted
<1>4. verdict[c] \in Permits \cup {"unneeded"} => Consent(c)
  BY DEF ConsentInv, ConsentKept, Agreed, Consent, Granted
<1> QED BY <1>1, <1>2, <1>3, <1>4 DEF OutcomePermitted, MayExecute

LEMMA StepPermitted ==
  ASSUME ApprovalInv, ConsentInv, OutcomePermitted, [Next]_vars
  PROVE  OutcomePermitted' /\ \A c \in Calls : MayExecute(c)
PROOF
<1>1. CASE UNCHANGED outcome
  <2>1. \A c \in Calls : Settles(c)
    BY StepSettles
  <2> QED BY <1>1, <2>1 DEF OutcomePermitted, Settles, MayExecute, Permits
<1>2. CASE \E c \in Calls : CallStep(c)
  BY <1>2, CallStepPermitted
<1> QED BY <1>1, <1>2, OutcomeSteps

\* A tool runs only if the client, the reviewer or a remembered rule has allowed
\* it, and not when the call was aborted before the middleware's last look: an
\* abort, a detach, a change of the configuration or the end of the run never turns
\* into a permission, at any of the awaits on the way to tool.execute.
THEOREM ToolsNeedConsent == Spec => ExecutesWithConsent
PROOF
<1>1. Init => ConsentInv /\ OutcomePermitted
  BY DEF Init, ConsentInv, ConsentKept, Permits, OutcomePermitted
<1>2. ApprovalInv /\ ConsentInv /\ OutcomePermitted /\ [Next]_vars =>
        ConsentInv' /\ OutcomePermitted'
  BY StepConsents, StepPermitted
<1>3. ApprovalInv /\ ConsentInv /\ OutcomePermitted /\ [Next]_vars =>
        [\A c \in Calls :
           /\ outcome[c] # "executed" /\ outcome'[c] = "executed" => Consent(c)
           /\ outcome[c] = "none" /\ c \in aborted =>
                outcome'[c] \in {"none", "refused"}
           /\ outcome[c] = "refused" => outcome'[c] = "refused"]_vars
  BY StepPermitted DEF MayExecute
<1> QED BY <1>1, <1>2, <1>3, ApprovalInvariant, PTL DEF Spec, ExecutesWithConsent
=============================================================================
