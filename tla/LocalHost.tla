------------------------------ MODULE LocalHost ------------------------------
(***************************************************************************)
(* Which process is the Runtime Host of a data directory.  A Host process  *)
(* elects itself with a lock file that holds its pid, removes the endpoint *)
(* a dead Host left behind and listens on it; a client connects to the     *)
(* endpoint, launches a Host when nobody answers, and replaces a Host that *)
(* is older than the bundle on disk.  Processes share nothing but the two  *)
(* files, and any of them may die between two steps.                       *)
(*                                                                         *)
(* A Host stands for one process and its pid, and pids are not reused.     *)
(* The three sockets of a Host are one endpoint, and unlink succeeds.      *)
(***************************************************************************)
EXTENDS Naturals

CONSTANTS
  Hosts,         \* the Host processes that may ever be launched
  Clients,       \* the Desktop and CLI processes that connect
  NoHost,        \* stands for no file and no pid
  MaxRebuilds    \* bound: how often the bundle on disk is rebuilt

ASSUME HostsAssumption == NoHost \notin Hosts
ASSUME RebuildsAssumption == MaxRebuilds \in Nat

VARIABLES
  lock,      \* the lock file: whose it is and whether its content is written
  endpoint,  \* the Host whose socket is at the endpoint
  phase,     \* how far each Host process has got
  seen,      \* the pid a Host read in the lock of another
  cphase,    \* how far each client has got with its connect
  target,    \* the pid a client is about to kill
  old,       \* the Hosts whose lock is older than the bundle on disk
  rebuilds,  \* how often the bundle was rebuilt
  overtaken  \* history: a lock was created while somebody was about to
             \* unlink the lock file because of an older one

hostVars == <<lock, endpoint, phase, seen>>
clientVars == <<cphase, target>>
bundleVars == <<old, rebuilds>>
vars == <<hostVars, clientVars, bundleVars, overtaken>>

(* Between launch and the exclusive creation of the lock. *)
Electing == {"open", "read", "check", "takeover"}

(* From the creation of the lock until it is unlinked again. *)
Claiming == {"write", "discard"}
Owning == {"clean", "listen", "bound", "serve", "close", "release"}

Gone == {"gone", "refused"}

(* A client from the judgement that the Host is outdated to its removal. *)
Stopping == {"target", "kill", "unlock", "unlink"}

Phases == {"unborn"} \cup Electing \cup Claiming \cup Owning \cup Gone

Running(h) == phase[h] \in Electing \cup Claiming \cup Owning

Locks == [by : Hosts \cup {NoHost}, written : BOOLEAN]

TypeOK ==
  /\ lock \in Locks
  /\ endpoint \in Hosts \cup {NoHost}
  /\ phase \in [Hosts -> Phases]
  /\ seen \in [Hosts -> Hosts \cup {NoHost}]
  /\ cphase \in [Clients -> Stopping \cup {"idle", "stale", "launch", "retry", "joined"}]
  /\ target \in [Clients -> Hosts \cup {NoHost}]
  /\ old \in SUBSET Hosts
  /\ rebuilds \in Nat
  /\ overtaken \in BOOLEAN

NoLock == [by |-> NoHost, written |-> FALSE]

Init ==
  /\ lock = NoLock
  /\ endpoint = NoHost
  /\ phase = [h \in Hosts |-> "unborn"]
  /\ seen = [h \in Hosts |-> NoHost]
  /\ cphase = [c \in Clients |-> "idle"]
  /\ target = [c \in Clients |-> NoHost]
  /\ old = {}
  /\ rebuilds = 0
  /\ overtaken = FALSE

HostMoves(h, from, to) ==
  /\ phase[h] = from
  /\ phase' = [phase EXCEPT ![h] = to]

-----------------------------------------------------------------------------
(* Launching.  A process begins with the exclusive creation of the lock.   *)
(* The CLI and the supervisor of the Desktop launch without asking each    *)
(* other, so any number of elections may be under way.                     *)

Begins(h) == HostMoves(h, "unborn", "open") /\ UNCHANGED <<lock, endpoint, seen>>

(* The Desktop's supervisor relaunches after an exit, whoever caused it. *)
Supervise(h) ==
  /\ \E g \in Hosts : phase[g] \in Gone
  /\ Begins(h)
  /\ UNCHANGED <<clientVars, bundleVars, overtaken>>

-----------------------------------------------------------------------------
(* acquire: open with "wx", read the pid of the holder, take over a lock  *)
(* whose process is dead.  Other processes run at every await.             *)

(* Mutant: the lock is opened without the exclusive flag. *)
OpenLockShared(h) ==
  /\ HostMoves(h, "open", "write")
  /\ lock' = [by |-> h, written |-> FALSE]
  /\ UNCHANGED <<endpoint, seen>>

OpenLock(h) ==
  /\ lock.by = NoHost
  /\ HostMoves(h, "open", "write")
  /\ lock' = [by |-> h, written |-> FALSE]
  /\ UNCHANGED <<endpoint, seen>>

(* Mutant: the endpoint is cleaned before the lock is won. *)
LockExistsAfterCleanup(h) ==
  /\ lock.by # NoHost
  /\ HostMoves(h, "open", "read")
  /\ endpoint' = NoHost
  /\ UNCHANGED <<lock, seen>>

LockExists(h) ==
  /\ lock.by # NoHost
  /\ HostMoves(h, "open", "read")
  /\ UNCHANGED <<lock, endpoint, seen>>

OpenFails(h) == HostMoves(h, "open", "gone") /\ UNCHANGED <<lock, endpoint, seen>>

(* An empty file names no process, and neither does one that has vanished. *)
ReadOwner(h) ==
  /\ HostMoves(h, "read", IF lock.written THEN "check" ELSE "refused")
  /\ seen' = [seen EXCEPT ![h] = IF lock.written THEN lock.by ELSE NoHost]
  /\ UNCHANGED <<lock, endpoint>>

(* Mutant: an existing lock always refuses. *)
CheckExistence(h) ==
  /\ HostMoves(h, "check", "refused")
  /\ UNCHANGED <<lock, endpoint, seen>>

CheckOwner(h) ==
  /\ HostMoves(h, "check", IF Running(seen[h]) THEN "refused" ELSE "takeover")
  /\ UNCHANGED <<lock, endpoint, seen>>

(* unlink names the path, not the file whose pid was read. *)
TakeOver(h) ==
  /\ HostMoves(h, "takeover", "open")
  /\ lock' = NoLock
  /\ UNCHANGED <<endpoint, seen>>

(* The write goes to the open file, which may have been unlinked. *)
WriteLock(h) ==
  /\ HostMoves(h, "write", "clean")
  /\ lock' = IF lock.by = h THEN [by |-> h, written |-> TRUE] ELSE lock
  /\ UNCHANGED <<endpoint, seen>>

WriteFails(h) == HostMoves(h, "write", "discard") /\ UNCHANGED <<lock, endpoint, seen>>

Discard(h) ==
  /\ HostMoves(h, "discard", "gone")
  /\ lock' = NoLock
  /\ UNCHANGED <<endpoint, seen>>

Acquire(h) ==
  \/ OpenLock(h) \/ LockExists(h) \/ OpenFails(h)
  \/ ReadOwner(h) \/ CheckOwner(h) \/ TakeOver(h)
  \/ WriteLock(h) \/ WriteFails(h) \/ Discard(h)

-----------------------------------------------------------------------------
(* openLocalRuntimeHost and OwnedLocalRuntimeHost.close. *)

CleanEndpoint(h) ==
  /\ HostMoves(h, "clean", "listen")
  /\ endpoint' = NoHost
  /\ UNCHANGED <<lock, seen>>

Listen(h) ==
  /\ endpoint = NoHost
  /\ HostMoves(h, "listen", "bound")
  /\ endpoint' = h
  /\ UNCHANGED <<lock, seen>>

(* The directory, the socket or an address in use. *)
ListenFails(h) ==
  /\ phase[h] \in {"clean", "listen"}
  /\ phase' = [phase EXCEPT ![h] = "release"]
  /\ UNCHANGED <<lock, endpoint, seen>>

OpenControls(h) == HostMoves(h, "bound", "serve") /\ UNCHANGED <<lock, endpoint, seen>>

(* Closing a listening server removes its path. *)
ControlsFail(h) ==
  /\ HostMoves(h, "bound", "release")
  /\ endpoint' = NoHost
  /\ UNCHANGED <<lock, seen>>

Stop(h) ==
  /\ HostMoves(h, "serve", "close")
  /\ endpoint' = NoHost
  /\ UNCHANGED <<lock, seen>>

UnlinkOwnEndpoint(h) ==
  /\ HostMoves(h, "close", "release")
  /\ endpoint' = NoHost
  /\ UNCHANGED <<lock, seen>>

Release(h) ==
  /\ HostMoves(h, "release", "gone")
  /\ lock' = NoLock
  /\ UNCHANGED <<endpoint, seen>>

OpenHost(h) ==
  \/ CleanEndpoint(h) \/ Listen(h) \/ ListenFails(h)
  \/ OpenControls(h) \/ ControlsFail(h)
  \/ UnlinkOwnEndpoint(h) \/ Release(h)

Crash(h) ==
  /\ Running(h)
  /\ phase' = [phase EXCEPT ![h] = "gone"]
  /\ UNCHANGED <<lock, endpoint, seen>>

(* Somebody has read a pid in the lock file and may unlink the file yet:   *)
(* another contender, or a client that replaces an outdated Host.          *)
Unlinking(h) ==
  \/ \E g \in Hosts \ {h} : phase[g] \in {"check", "takeover"}
  \/ \E c \in Clients : cphase[c] \in Stopping

Overtakes(h) == overtaken' = (overtaken \/ (phase'[h] = "write" /\ Unlinking(h)))

HostStep(h) ==
  (Acquire(h) \/ OpenHost(h)) /\ Overtakes(h) /\ UNCHANGED <<clientVars, bundleVars>>

HostEnds(h) == (Stop(h) \/ Crash(h)) /\ UNCHANGED <<clientVars, bundleVars, overtaken>>

-----------------------------------------------------------------------------
(* connectJaiRuntimeHost and stopLocalRuntimeHost. *)

ClientMoves(c, from, to) ==
  /\ cphase[c] = from
  /\ cphase' = [cphase EXCEPT ![c] = to]

Reachable == endpoint # NoHost /\ phase[endpoint] \in {"bound", "serve"}

Connect(c) ==
  /\ ClientMoves(c, "idle", IF Reachable THEN "stale" ELSE "launch")
  /\ UNCHANGED <<hostVars, target>>

LockIsOld == lock.written /\ lock.by \in old

JoinHost(c) ==
  /\ ~LockIsOld
  /\ ClientMoves(c, "stale", "joined")
  /\ UNCHANGED <<hostVars, target>>

ReplaceHost(c) ==
  /\ LockIsOld
  /\ ClientMoves(c, "stale", "target")
  /\ UNCHANGED <<hostVars, target>>

ReadTarget(c) ==
  /\ ClientMoves(c, "target", "kill")
  /\ target' = [target EXCEPT ![c] = IF lock.written THEN lock.by ELSE NoHost]
  /\ UNCHANGED hostVars

Kill(c) ==
  /\ ClientMoves(c, "kill", "unlock")
  /\ phase' = [h \in Hosts |-> IF h = target[c] /\ Running(h) THEN "gone" ELSE phase[h]]
  /\ UNCHANGED <<lock, endpoint, seen, target>>

UnlinkLock(c) ==
  /\ ClientMoves(c, "unlock", "unlink")
  /\ lock' = NoLock
  /\ UNCHANGED <<endpoint, phase, seen, target>>

UnlinkEndpoint(c) ==
  /\ ClientMoves(c, "unlink", "launch")
  /\ endpoint' = NoHost
  /\ UNCHANGED <<lock, phase, seen, target>>

(* The Desktop's launcher starts nothing while its own Host still runs or *)
(* its restart is pending.                                                 *)
Launch(c) ==
  /\ ClientMoves(c, "launch", "retry")
  /\ \/ \E h \in Hosts : Begins(h)
     \/ UNCHANGED hostVars
  /\ UNCHANGED target

(* The retry connects to whoever answers, without another check. *)
Retry(c) ==
  /\ Reachable
  /\ ClientMoves(c, "retry", "joined")
  /\ UNCHANGED <<hostVars, target>>

(* Mutant: the retries are not bounded. *)
GiveUpOnSpawn(c) ==
  /\ ClientMoves(c, "launch", "idle")
  /\ UNCHANGED <<hostVars, target>>

(* The spawn failed, or the bounded retries are used up. *)
GiveUp(c) ==
  /\ cphase[c] \in {"launch", "retry"}
  /\ cphase' = [cphase EXCEPT ![c] = "idle"]
  /\ UNCHANGED <<hostVars, target>>

Leave(c) ==
  /\ ClientMoves(c, "joined", "idle")
  /\ UNCHANGED <<hostVars, target>>

ConnectStep(c) ==
  \/ JoinHost(c) \/ ReplaceHost(c)
  \/ ReadTarget(c) \/ Kill(c) \/ UnlinkLock(c) \/ UnlinkEndpoint(c)
  \/ Launch(c) \/ Retry(c) \/ GiveUp(c)

ClientStep(c) ==
  (Connect(c) \/ ConnectStep(c) \/ Leave(c)) /\ UNCHANGED <<bundleVars, overtaken>>

(* A new bundle is younger than every lock written so far. *)
Rebuild ==
  /\ rebuilds < MaxRebuilds
  /\ rebuilds' = rebuilds + 1
  /\ old' = old \cup {h \in Hosts : phase[h] \in Owning \cup {"gone"}}
  /\ UNCHANGED <<hostVars, clientVars, overtaken>>

-----------------------------------------------------------------------------
Next ==
  \/ \E h \in Hosts : Supervise(h) \/ HostStep(h) \/ HostEnds(h)
  \/ \E c \in Clients : ClientStep(c)
  \/ Rebuild

(* A started process runs on, and so does a connect, whose retries are    *)
(* bounded; nobody has to connect, leave, stop, crash or rebuild.          *)
Fairness ==
  /\ \A h \in Hosts : WF_vars(HostStep(h))
  /\ \A c \in Clients : WF_vars(ConnectStep(c) /\ UNCHANGED <<bundleVars, overtaken>>)

Spec == Init /\ [][Next]_vars

FairSpec == Spec /\ Fairness

-----------------------------------------------------------------------------
(* Properties. *)

Owner(h) == phase[h] \in Owning

(* Two processes never own the data directory at once (local-owner.ts:     *)
(* acquire), although CLI and Desktop launch Hosts independently and       *)
(* elections overlap.  The Operation Journal relies on it: a second Host   *)
(* would recover the Operations the first one is driving.  The exception   *)
(* is the overtaking of an unlink: unlink names the path, so the new lock  *)
(* is removed in place of the old one whose pid was read.                  *)
OneOwner == ~overtaken => \A g, h \in Hosts : Owner(g) /\ Owner(h) => g = h

(* Until then, as long as a Host owns the directory the lock file names    *)
(* it, so that the next process finds a live pid (local-owner.ts:          *)
(* FileRuntimeOwner).                                                      *)
OwnerIsNamed ==
  ~overtaken => \A h \in Hosts : Owner(h) => lock = [by |-> h, written |-> TRUE]

(* Until then a Host that serves can be reached: nobody has removed or     *)
(* replaced its endpoint, neither another Host nor the client that         *)
(* replaces an outdated one (local-host.ts: openLocalRuntimeHost, close;   *)
(* launcher.ts: stopLocalRuntimeHost).                                     *)
ServedAtEndpoint ==
  ~overtaken => \A h \in Hosts : phase[h] \in {"bound", "serve"} => endpoint = h

(* Another Host, or a client that replaces one, is at work. *)
Contended(h) ==
  \/ \E g \in Hosts \ {h} : Running(g)
  \/ \E c \in Clients : cphase[c] \in Stopping

(* A process that finds the complete lock of a dead Host is not refused    *)
(* with nobody else at work: it becomes the owner, unless it dies or an    *)
(* I/O error ends it (local-owner.ts: acquire after a crash).              *)
StaleLockIsTakenOver ==
  \A h \in Hosts :
    (phase[h] = "read" /\ lock.written /\ ~Running(lock.by))
      ~> (Owner(h) \/ phase[h] = "gone" \/ Contended(h))

(* Every connect of a client ends, joined or with an error, whatever the   *)
(* Hosts do (launcher.ts: connectJaiRuntimeHost).                          *)
ConnectEnds == \A c \in Clients : (cphase[c] # "idle") ~> (cphase[c] \in {"idle", "joined"})

(* Until a lock is overtaken, a Host that cleans the endpoint before it    *)
(* listens removes a stale file, never the socket of a Host that serves    *)
(* (local-host.ts: openLocalRuntimeHost).                                  *)
CleanupIsOfStaleEndpoint ==
  [][\A h \in Hosts : ~overtaken /\ CleanEndpoint(h) => ~Reachable]_vars
=============================================================================
