---------------------------- MODULE ConfigStore ----------------------------
(***************************************************************************)
(* The user's settings file and the CodingConfigStore objects that share   *)
(* it (coding-agent config/store.ts): the store of an agent, which watches *)
(* the file and writes the permission grants of the user                   *)
(* (runtime/create-coding-agent.ts), and the stores of the settings pages, *)
(* which only write (mcp-settings.ts, user-policy.ts).  Each is taken to   *)
(* be in a process of its own; stores of one Host behave like processes    *)
(* that die together.                                                      *)
(*                                                                         *)
(* A writer checks the revision of the file and replaces it under a lock   *)
(* file, which names the process; the lock of a process that has died is   *)
(* taken away.  The file is abstracted to the set of the entries it holds, *)
(* and its revision is that set, so that a revision can come back: a write *)
(* adds one entry, and the user adds entries or takes some out.            *)
(***************************************************************************)
EXTENDS Integers, Sequences, FiniteSets

CONSTANTS
  Agents,     \* processes with an agent, which watch the file
  Pages,      \* processes with a settings page
  MaxWrites,  \* writes of one process
  MaxCrashes, \* processes that die
  MaxEdits,   \* changes the user makes with an editor
  MaxReloads  \* reloads of an agent that have not read the file yet

ASSUME ConfigAssumption ==
  /\ {"edit", "none"} \cap (Agents \cup Pages) = {}
  /\ Agents \cap Pages = {}
  /\ IsFiniteSet(Agents \cup Pages)
  /\ MaxWrites \in Nat /\ MaxCrashes \in Nat /\ MaxEdits \in Nat
  /\ MaxReloads \in Nat

Processes == Agents \cup Pages

(* A write that has opened the lock file, and not yet removed it. *)
Critical == {"created", "held", "checked", "conflict", "written"}

VARIABLES
  file,      \* the entries in the file
  lock,      \* the lock file
  alive,     \* the processes that have not died
  pc,        \* how far the write of each process is
  writes,    \* writes each process has begun
  plan,      \* the write: its attempt, expectedRevision, the settings it extends
  done,      \* entries whose write has returned
  edits,     \* changes the user has made
  removed,   \* entries the user has taken out
  lastValid, \* lastValid of an agent's store
  snapshot,  \* runtime.snapshot, by which the agent decides
  heard,     \* what the store has last told its listeners
  notices,   \* "event": a change not told yet, "timer": reloadTimer
  watching,  \* the watchers are installed
  loads,     \* the load() calls that have not set lastValid yet
  queue,     \* those that have, in the order of their turn at the watchers
  broken,    \* a lock was removed that was not that of a dead process
  late,      \* lastValid is what a load() read before another that has set it
  missed,    \* the file changed unseen since it was last read
  unsaid,    \* a reload() told nobody of settings it took for the old ones
  silent     \* the listeners were not told of what a write has loaded

writer == <<lock, alive, pc, writes, plan, done, broken>>
telling == <<snapshot, heard, unsaid, silent>>
reader == <<lastValid, notices, watching, loads, queue, late, missed, telling>>
user == <<edits, removed>>
vars == <<file, user, writer, reader>>

NoLock == [by |-> "none", pid |-> FALSE]

(* The entry that p writes, and one the user adds. *)
Entry(p) == <<p, writes[p]>>
Edit(k) == <<"edit", k>>

NoPlan == [attempt |-> 0, expected |-> {}, base |-> {}]

(* Mutant: any lock with a pid is taken for that of a dead process. *)
HasPid(l) == l # NoLock /\ l.pid

(* Has the lock the pid of a process that has died? *)
IsDead(l) == l # NoLock /\ l.pid /\ l.by \notin alive

-----------------------------------------------------------------------------
(***************************************************************************)
(* Writing: readScope, writeScopeRaw and withWriteLock.                    *)
(***************************************************************************)
(* The watchers of the agents notice a change; one that is not watching *)
(* just now does not.                                                   *)
Noticed ==
  /\ notices' = [a \in Agents |-> notices[a] \cup IF watching[a] THEN {"event"} ELSE {}]
  /\ missed' = [a \in Agents |-> missed[a] \/ ~watching[a]]
  /\ UNCHANGED <<lastValid, watching, loads, queue, late, telling>>

(* An agent extends what it has just read; persistBashAllowRules. *)
BeginsGrant(a) ==
  /\ a \in Agents \cap alive
  /\ \/ pc[a] = "idle" /\ writes[a] < MaxWrites /\ writes' = [writes EXCEPT ![a] = @ + 1]
     \/ pc[a] = "again" /\ UNCHANGED writes
  /\ pc' = [pc EXCEPT ![a] = "locking"]
  /\ plan' = [plan EXCEPT ![a] = [attempt |-> @.attempt + 1, expected |-> file, base |-> file]]
  /\ UNCHANGED <<file, user, lock, alive, done, broken, reader>>

(* A settings page reads the revision it will send with its change. *)
Shows(p) ==
  /\ p \in Pages \cap alive
  /\ pc[p] = "idle" /\ writes[p] < MaxWrites
  /\ pc' = [pc EXCEPT ![p] = "shown"]
  /\ writes' = [writes EXCEPT ![p] = @ + 1]
  /\ plan' = [plan EXCEPT ![p] = [attempt |-> 1, expected |-> file, base |-> {}]]
  /\ UNCHANGED <<file, user, lock, alive, done, broken, reader>>

(* save(): the other settings are read now, the revision is the page's. *)
Saves(p) ==
  /\ p \in Pages \cap alive
  /\ pc[p] = "shown"
  /\ pc' = [pc EXCEPT ![p] = "locking"]
  /\ plan' = [plan EXCEPT ![p].base = file]
  /\ UNCHANGED <<file, user, lock, alive, writes, done, broken, reader>>

(* open(lockPath, "wx") *)
Locks(p) ==
  /\ pc[p] = "locking" /\ p \in alive
  /\ lock = NoLock
  /\ lock' = [by |-> p, pid |-> FALSE]
  /\ pc' = [pc EXCEPT ![p] = "created"]
  /\ UNCHANGED <<file, user, alive, writes, plan, done, broken, reader>>

(* releaseDeadWriteLock finds the pid of a process that has died. *)
FindsDead(p) ==
  /\ pc[p] = "locking" /\ p \in alive
  /\ IsDead(lock)
  /\ pc' = [pc EXCEPT ![p] = "breaking"]
  /\ UNCHANGED <<file, user, lock, alive, writes, plan, done, broken, reader>>

(* rm(lockPath), whatever lock is there by now. *)
RemovesLock(p) ==
  /\ lock' = NoLock
  /\ broken' = (broken \/ (lock # NoLock /\ lock.by # p /\ ~IsDead(lock)))

Breaks(p) ==
  /\ pc[p] = "breaking" /\ p \in alive
  /\ RemovesLock(p)
  /\ pc' = [pc EXCEPT ![p] = "locking"]
  /\ UNCHANGED <<file, user, alive, writes, plan, done, reader>>

(* The lock is not that of a dead process, and the deadline has passed. *)
TimesOut(p) ==
  /\ pc[p] = "locking" /\ p \in alive
  /\ lock # NoLock /\ ~IsDead(lock)
  /\ pc' = [pc EXCEPT ![p] = "idle"]
  /\ plan' = [plan EXCEPT ![p] = NoPlan]
  /\ UNCHANGED <<file, user, lock, alive, writes, done, broken, reader>>

(* The pid is written to the file that was opened. *)
WritesPid(p) ==
  /\ pc[p] = "created" /\ p \in alive
  /\ lock' = IF lock.by = p THEN [lock EXCEPT !.pid = TRUE] ELSE lock
  /\ pc' = [pc EXCEPT ![p] = "held"]
  /\ UNCHANGED <<file, user, alive, writes, plan, done, broken, reader>>

(* Mutant: the revision is not compared. *)
ChecksNothing(p) ==
  /\ pc[p] = "held" /\ p \in alive
  /\ pc' = [pc EXCEPT ![p] = "checked"]
  /\ UNCHANGED <<file, user, lock, alive, writes, plan, done, broken, reader>>

(* fileRevision(path) against expectedRevision *)
Checks(p) ==
  /\ pc[p] = "held" /\ p \in alive
  /\ pc' = [pc EXCEPT ![p] = IF file = plan[p].expected THEN "checked" ELSE "conflict"]
  /\ UNCHANGED <<file, user, lock, alive, writes, plan, done, broken, reader>>

(* atomicWrite: rename(temporary, path) *)
Replaces(p) ==
  /\ pc[p] = "checked" /\ p \in alive
  /\ file' = plan[p].base \cup {Entry(p)}
  /\ pc' = [pc EXCEPT ![p] = "written"]
  /\ Noticed
  /\ UNCHANGED <<user, lock, alive, writes, plan, done, broken>>

(* A load() begins: an agent's own after a write, or the reload of the given *)
(* number; prev is previousRevision.                                        *)
Own == 0
NewLoad(no, a) == [no |-> no, prev |-> lastValid[a], read |-> {}, stage |-> "reading"]

(* The end of withWriteLock; an agent's conflict is tried once more. *)
Releases(p) ==
  /\ p \in alive
  /\ RemovesLock(p)
  /\ \/ /\ pc[p] = "conflict"
        /\ IF p \in Agents /\ plan[p].attempt < 2
           THEN pc' = [pc EXCEPT ![p] = "again"] /\ UNCHANGED plan
           ELSE pc' = [pc EXCEPT ![p] = "idle"] /\ plan' = [plan EXCEPT ![p] = NoPlan]
        /\ UNCHANGED <<done, loads>>
     \/ /\ pc[p] = "written"
        /\ plan' = [plan EXCEPT ![p] = NoPlan]
        /\ IF p \in Agents
           THEN /\ pc' = [pc EXCEPT ![p] = "loading"]
                /\ loads' = [loads EXCEPT ![p] = @ \cup {NewLoad(Own, p)}]
                /\ UNCHANGED done
           ELSE /\ pc' = [pc EXCEPT ![p] = "idle"]
                /\ done' = done \cup {Entry(p)}
                /\ UNCHANGED loads
  /\ UNCHANGED <<file, user, alive, writes, lastValid, notices, watching, queue, late,
                 missed, telling>>

(* The process dies; the lock file stays.  One that dies before or after *)
(* it has a lock leaves no more behind than one that stops.              *)
Dies(p) ==
  /\ p \in alive /\ pc[p] \in Critical
  /\ Cardinality(Processes \ alive) < MaxCrashes
  /\ alive' = alive \ {p}
  /\ UNCHANGED <<file, user, lock, pc, writes, plan, done, broken, reader>>

(* The user adds something with an editor, which knows no lock, or takes *)
(* something out.                                                        *)
Edits ==
  /\ edits < MaxEdits
  /\ edits' = edits + 1
  /\ \/ file' = file \cup {Edit(edits + 1)} /\ UNCHANGED removed
     \/ \E e \in file : file' = file \ {e} /\ removed' = removed \cup {e}
  /\ Noticed
  /\ UNCHANGED writer

-----------------------------------------------------------------------------
(***************************************************************************)
(* Reading: watch, scheduleReload, reload and load.                        *)
(***************************************************************************)
(* The watchers tell of a change, and the reload is scheduled. *)
Schedules(a) ==
  /\ a \in alive /\ "event" \in notices[a]
  /\ notices' = [notices EXCEPT ![a] = {"timer"}]
  /\ UNCHANGED <<file, user, writer, lastValid, watching, loads, queue, late, missed, telling>>

(* reload(), while others may be under way. *)
Reloads(a) ==
  /\ a \in alive /\ "timer" \in notices[a]
  /\ notices' = [notices EXCEPT ![a] = @ \ {"timer"}]
  /\ \E no \in 1..MaxReloads :
       /\ \A l \in loads[a] : l.no # no
       /\ loads' = [loads EXCEPT ![a] = @ \cup {NewLoad(no, a)}]
  /\ UNCHANGED <<file, user, writer, lastValid, watching, queue, late, missed, telling>>

(* The load that has read the file last is the newest. *)
Outdated(l) == IF l.stage = "newest" THEN [l EXCEPT !.stage = "read"] ELSE l

(* readScopeFile *)
Reads(a, l) ==
  /\ a \in alive /\ l \in loads[a] /\ l.stage = "reading"
  /\ loads' = [loads EXCEPT ![a] =
       {Outdated(m) : m \in @ \ {l}} \cup {[l EXCEPT !.read = file, !.stage = "newest"]}]
  /\ missed' = [missed EXCEPT ![a] = FALSE]
  /\ UNCHANGED <<file, user, writer, lastValid, notices, watching, queue, late, telling>>

HasNewest(a) == \E l \in loads[a] : l.stage = "newest"

(* What a load() has read last. *)
LastRead(a) ==
  IF HasNewest(a) THEN (CHOOSE l \in loads[a] : l.stage = "newest").read ELSE lastValid[a]

(* lastValid is set, before the turn at the watchers.  A load comes back if *)
(* it finds the settings it began with, which others have replaced since.   *)
Takes(a, l) ==
  /\ a \in alive /\ l \in loads[a] /\ l.stage # "reading"
  /\ lastValid' = [lastValid EXCEPT ![a] = l.read]
  /\ loads' = [loads EXCEPT ![a] = @ \ {l}]
  /\ queue' = [queue EXCEPT ![a] = Append(@,
       [no |-> l.no, prev |-> l.prev, read |-> l.read,
        back |-> l.read = l.prev /\ l.prev # lastValid[a]])]
  /\ late' = [late EXCEPT ![a] =
       l.stage # "newest" /\ (@ \/ (~HasNewest(a) /\ l.read # lastValid[a]))]
  /\ UNCHANGED <<file, user, writer, notices, watching, missed, telling>>

(* replaceWatchers closes the watchers, with what they have not told yet. *)
(* The replacements run one at a time.                                    *)
Unwatches(a) ==
  /\ a \in alive /\ queue[a] # <<>> /\ watching[a]
  /\ watching' = [watching EXCEPT ![a] = FALSE]
  /\ missed' = [missed EXCEPT ![a] = @ \/ ("event" \in notices[a] /\ file # LastRead(a))]
  /\ notices' = [notices EXCEPT ![a] = @ \ {"event"}]
  /\ UNCHANGED <<file, user, writer, lastValid, loads, queue, late, telling>>

(* Mutant: the revision is compared with the one load() has just set. *)
EmitsIfNew(a, l) ==
  /\ heard' = [heard EXCEPT ![a] = IF l.no # Own /\ l.read # lastValid[a] THEN l.read ELSE @]
  /\ snapshot' = [snapshot EXCEPT ![a] =
       IF l.no = Own \/ l.read # lastValid[a] THEN l.read ELSE @]
  /\ unsaid' = [unsaid EXCEPT ![a] = l.no # Own /\ l.read = l.prev /\ (@ \/ l.back)]
  /\ silent' = [silent EXCEPT ![a] =
       IF l.no = Own THEN l.read # heard[a] ELSE @ /\ l.read = l.prev]

(* A reload tells the listeners what is new to it, and one of them is the *)
(* agent; a write is returned to the agent alone.                         *)
Emits(a, l) ==
  /\ heard' = [heard EXCEPT ![a] = IF l.no # Own /\ l.read # l.prev THEN l.read ELSE @]
  /\ snapshot' = [snapshot EXCEPT ![a] = IF l.no = Own \/ l.read # l.prev THEN l.read ELSE @]
  /\ unsaid' = [unsaid EXCEPT ![a] = l.no # Own /\ l.read = l.prev /\ (@ \/ l.back)]
  /\ silent' = [silent EXCEPT ![a] =
       IF l.no = Own THEN l.read # heard[a] ELSE @ /\ l.read = l.prev]

(* The watchers are installed again, and the load() whose turn it was *)
(* returns.                                                           *)
Loaded(a) ==
  /\ a \in alive /\ queue[a] # <<>> /\ ~watching[a]
  /\ watching' = [watching EXCEPT ![a] = TRUE]
  /\ queue' = [queue EXCEPT ![a] = Tail(@)]
  /\ Emits(a, Head(queue[a]))
  /\ IF Head(queue[a]).no = Own
     THEN pc' = [pc EXCEPT ![a] = "idle"] /\ done' = done \cup {Entry(a)}
     ELSE UNCHANGED <<pc, done>>
  /\ UNCHANGED <<file, user, lock, alive, writes, plan, broken,
                 lastValid, notices, loads, late, missed>>

-----------------------------------------------------------------------------
Init ==
  /\ file = {}
  /\ lock = NoLock
  /\ alive = Processes
  /\ pc = [p \in Processes |-> "idle"]
  /\ writes = [p \in Processes |-> 0]
  /\ plan = [p \in Processes |-> NoPlan]
  /\ done = {}
  /\ edits = 0
  /\ removed = {}
  /\ lastValid = [a \in Agents |-> {}]
  /\ snapshot = [a \in Agents |-> {}]
  /\ heard = [a \in Agents |-> {}]
  /\ notices = [a \in Agents |-> {}]
  /\ watching = [a \in Agents |-> TRUE]
  /\ loads = [a \in Agents |-> {}]
  /\ queue = [a \in Agents |-> <<>>]
  /\ broken = FALSE
  /\ late = [a \in Agents |-> FALSE]
  /\ missed = [a \in Agents |-> FALSE]
  /\ unsaid = [a \in Agents |-> FALSE]
  /\ silent = [a \in Agents |-> FALSE]

Write(p) ==
  \/ BeginsGrant(p) \/ Shows(p) \/ Saves(p)
  \/ Locks(p) \/ FindsDead(p) \/ Breaks(p) \/ TimesOut(p) \/ WritesPid(p)
  \/ Checks(p) \/ Replaces(p) \/ Releases(p)

Read(a) ==
  \/ Schedules(a) \/ Reloads(a)
  \/ \E l \in loads[a] : Reads(a, l) \/ Takes(a, l)
  \/ Unwatches(a) \/ Loaded(a)

Next ==
  \/ \E p \in Processes : Write(p) \/ Dies(p)
  \/ \E a \in Agents : Read(a)
  \/ Edits

Spec == Init /\ [][Next]_vars

-----------------------------------------------------------------------------
(***************************************************************************)
(* Properties.                                                             *)
(***************************************************************************)
(* The types of the variables; only a write under way has a plan, and the *)
(* watchers are missing only while a load() installs them again.           *)
TypeOK ==
  /\ lock = NoLock \/ (lock.by \in Processes /\ lock.pid \in BOOLEAN)
  /\ alive \subseteq Processes
  /\ \A p \in Processes :
       /\ pc[p] \in {"idle", "shown", "locking", "breaking", "again", "loading"} \cup Critical
       /\ writes[p] \in 0..MaxWrites
       /\ plan[p].attempt \in 0..2
       /\ pc[p] \in {"idle", "loading"} <=> plan[p] = NoPlan
  /\ \A a \in Agents :
       /\ notices[a] \subseteq {"event", "timer"}
       /\ watching[a] \in BOOLEAN
       /\ watching[a] \/ queue[a] # <<>>

(* The lock file belongs to whoever is between opening and removing it, so    *)
(* there is one such writer, although locks of dead processes are taken away. *)
(* Excepted is what rm by name cannot exclude: a process that has found a     *)
(* dead owner removes the lock another one has opened meanwhile.              *)
OneWriter ==
  /\ ~broken => \A p \in alive : pc[p] \in Critical => lock.by = p
  /\ lock.by \in alive => pc[lock.by] \in Critical

(* An entry whose write has returned stays in the file until the user takes  *)
(* it out, whoever writes after it, from however old a revision, and         *)
(* whichever process dies.                                                   *)
NoWriteLost == ~broken => done \subseteq file \cup removed

(* Nothing is under way in the store of an agent. *)
Quiet(a) == a \in alive /\ notices[a] = {} /\ loads[a] = {} /\ queue[a] = <<>>

(* When nothing is under way an agent decides by the settings in the file,    *)
(* whoever has written them, and the listeners of its store, the extensions   *)
(* among them, have been told of them, however the loads overlap.  Excepted   *)
(* is what the code loses: a change while load() replaces the watchers        *)
(* (missed), settings set by a load() that had read them before another       *)
(* (late), and a reload() that finds the revision it began with although      *)
(* another load() has set one in between (unsaid); and listeners are not told *)
(* of what a write of their own agent has loaded (silent).                    *)
ReadersFollow ==
  \A a \in Agents : Quiet(a) /\ ~missed[a] /\ ~late[a] /\ ~unsaid[a] =>
    /\ snapshot[a] = file
    /\ ~silent[a] => heard[a] = file
=============================================================================
