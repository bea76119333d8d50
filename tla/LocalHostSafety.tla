--------------------------- MODULE LocalHostSafety ---------------------------
(***************************************************************************)
(* Safety of LocalHost for any set of processes: until a lock is created   *)
(* while somebody is about to unlink the lock file because of an older     *)
(* one, one process owns the data directory, the lock names it, and its    *)
(* endpoint stays where it serves, whatever crashes, closes or is replaced *)
(* and however the elections overlap.                                      *)
(***************************************************************************)
EXTENDS LocalHost, TLAPS

Holding == Claiming \cup Owning

(* A process from the creation of the lock to its removal finds it its     *)
(* own, and complete as soon as it owns the directory.                     *)
HolderHasLock ==
  \A h \in Hosts : phase[h] \in Holding => lock.by = h /\ (lock.written <=> phase[h] \in Owning)

(* A lock is a running holder's or a dead one's, never a refused one's. *)
LockHasHolder ==
  /\ lock.by # NoHost => phase[lock.by] \in Holding \cup {"gone"}
  /\ lock.written => lock.by # NoHost

(* What a contender read is still the lock, unless the lock is gone. *)
SeenIsLock ==
  \A h \in Hosts : phase[h] \in {"check", "takeover"} =>
    /\ lock.by \in {NoHost, seen[h]}
    /\ seen[h] \in Hosts
    /\ phase[seen[h]] \in Holding \cup {"gone"}
    /\ phase[h] = "takeover" => phase[seen[h]] = "gone"

(* A client kills the holder there was when it judged the Host outdated,   *)
(* and it unlinks the two files when there is none.                        *)
NobodySpared ==
  \A c \in Clients :
    /\ cphase[c] = "target" => \A h \in Hosts : phase[h] \notin Claiming
    /\ cphase[c] = "kill" => \A h \in Hosts : phase[h] \in Holding => h = target[c]
    /\ cphase[c] \in {"unlock", "unlink"} => \A h \in Hosts : phase[h] \notin Holding

EndpointServes == \A h \in Hosts : phase[h] \in {"bound", "serve"} => endpoint = h

ElectionInv == HolderHasLock /\ LockHasHolder /\ SeenIsLock /\ NobodySpared /\ EndpointServes

Inv == TypeOK /\ (~overtaken => ElectionInv)

-----------------------------------------------------------------------------
(* Types. *)

LEMMA PhaseTypes ==
  \A x \in {"unborn", "open", "read", "check", "takeover", "write", "discard", "clean", "listen",
            "bound", "serve", "close", "release", "gone", "refused"} : x \in Phases
BY DEF Phases, Electing, Claiming, Owning, Gone

LEMMA LockTypes == NoLock \in Locks /\ \A h \in Hosts, b \in BOOLEAN : [by |-> h, written |-> b] \in Locks
BY DEF NoLock, Locks

LEMMA InitTypes == Init => TypeOK
<1> SUFFICES ASSUME Init PROVE TypeOK
  OBVIOUS
<1>1. overtaken \in BOOLEAN
  BY Zenon DEF Init
<1> QED BY <1>1, PhaseTypes, LockTypes DEF Init, TypeOK, Stopping

(* A process that moves is where it went, and the others are where they were. *)
LEMMA MovesHost ==
  ASSUME phase \in [Hosts -> Phases], NEW h \in Hosts, NEW to \in Phases,
         phase' = [phase EXCEPT ![h] = to]
  PROVE  /\ phase' \in [Hosts -> Phases]
         /\ phase'[h] = to
         /\ \A g \in Hosts \ {h} : phase'[g] = phase[g]
OBVIOUS

HostTypesNext ==
  /\ lock' \in Locks
  /\ endpoint' \in Hosts \cup {NoHost}
  /\ phase' \in [Hosts -> Phases]
  /\ seen' \in [Hosts -> Hosts \cup {NoHost}]

LEMMA HostTypes ==
  ASSUME TypeOK, NEW h \in Hosts, Acquire(h) \/ OpenHost(h) \/ Stop(h) \/ Crash(h) \/ Begins(h)
  PROVE  HostTypesNext
<1> USE PhaseTypes, LockTypes DEF TypeOK, HostMoves, HostTypesNext
<1>1. CASE Acquire(h)
  <2>1. CASE OpenLock(h)
    BY <2>1 DEF OpenLock
  <2>2. CASE LockExists(h) \/ OpenFails(h) \/ WriteFails(h)
    BY <2>2 DEF LockExists, OpenFails, WriteFails
  <2>3. CASE ReadOwner(h)
    <3>1. lock.by \in Hosts \cup {NoHost}
      BY DEF Locks
    <3> QED BY <2>3, <3>1 DEF ReadOwner
  <2>4. CASE CheckOwner(h)
    BY <2>4 DEF CheckOwner
  <2>5. CASE TakeOver(h) \/ Discard(h)
    BY <2>5 DEF TakeOver, Discard
  <2>6. CASE WriteLock(h)
    BY <2>6 DEF WriteLock
  <2> QED BY <1>1, <2>1, <2>2, <2>3, <2>4, <2>5, <2>6 DEF Acquire
<1>2. CASE OpenHost(h)
  <2>1. CASE CleanEndpoint(h) \/ Listen(h)
    BY <2>1 DEF CleanEndpoint, Listen
  <2>2. CASE ListenFails(h) \/ OpenControls(h)
    BY <2>2 DEF ListenFails, OpenControls
  <2>3. CASE ControlsFail(h) \/ UnlinkOwnEndpoint(h)
    BY <2>3 DEF ControlsFail, UnlinkOwnEndpoint
  <2>4. CASE Release(h)
    BY <2>4 DEF Release
  <2> QED BY <1>2, <2>1, <2>2, <2>3, <2>4 DEF OpenHost
<1>3. CASE Stop(h) \/ Crash(h) \/ Begins(h)
  BY <1>3 DEF Stop, Crash, Begins
<1> QED BY <1>1, <1>2, <1>3

LEMMA ClientTypes ==
  ASSUME TypeOK, NEW c \in Clients, ClientStep(c)
  PROVE  TypeOK'
<1> USE PhaseTypes, LockTypes DEF TypeOK, ClientMoves, hostVars, bundleVars, Stopping
<1>1. CASE Connect(c)
  BY <1>1 DEF ClientStep, Connect, Reachable
<1>2. CASE JoinHost(c) \/ ReplaceHost(c) \/ ReadTarget(c)
  <2>1. lock.by \in Hosts \cup {NoHost}
    BY DEF Locks
  <2> QED BY <1>2, <2>1 DEF ClientStep, JoinHost, ReplaceHost, ReadTarget
<1>3. CASE Kill(c)
  BY <1>3 DEF ClientStep, Kill
<1>4. CASE UnlinkLock(c) \/ UnlinkEndpoint(c)
  BY <1>4 DEF ClientStep, UnlinkLock, UnlinkEndpoint
<1>5. CASE Launch(c)
  <2>1. ASSUME NEW h \in Hosts, Begins(h) PROVE HostTypesNext
    BY <2>1, HostTypes
  <2> QED BY <1>5, <2>1 DEF ClientStep, Launch, HostTypesNext
<1>6. CASE Retry(c) \/ GiveUp(c) \/ Leave(c)
  BY <1>6 DEF ClientStep, Retry, GiveUp, Leave, Reachable
<1> QED BY <1>1, <1>2, <1>3, <1>4, <1>5, <1>6 DEF ClientStep, ConnectStep

(* Every reachable state is well formed. *)
THEOREM HostTypesCorrect == Spec => []TypeOK
<1>1. TypeOK /\ [Next]_vars => TypeOK'
  <2> SUFFICES ASSUME TypeOK, [Next]_vars PROVE TypeOK'
    OBVIOUS
  <2>1. ASSUME NEW h \in Hosts, Supervise(h) \/ HostStep(h) \/ HostEnds(h) PROVE TypeOK'
    <3>1. HostTypesNext
      BY <2>1, HostTypes DEF HostStep, HostEnds, Supervise
    <3>2. overtaken' \in BOOLEAN
      BY <2>1 DEF TypeOK, HostStep, HostEnds, Supervise, Overtakes
    <3> QED
      BY <2>1, <3>1, <3>2
      DEF HostTypesNext, TypeOK, HostStep, HostEnds, Supervise, clientVars, bundleVars
  <2>2. ASSUME NEW c \in Clients, ClientStep(c) PROVE TypeOK'
    BY <2>2, ClientTypes
  <2>3. CASE Rebuild
    BY <2>3 DEF Rebuild, TypeOK, hostVars, clientVars
  <2>4. CASE UNCHANGED vars
    BY <2>4 DEF vars, hostVars, clientVars, bundleVars, TypeOK
  <2> QED BY <2>1, <2>2, <2>3, <2>4 DEF Next
<1> QED BY <1>1, InitTypes, PTL DEF Spec

-----------------------------------------------------------------------------
(* The election. *)

LEMMA StillElection ==
  ASSUME ElectionInv, UNCHANGED hostVars, UNCHANGED cphase, UNCHANGED target
  PROVE  ElectionInv'
BY DEF ElectionInv, HolderHasLock, LockHasHolder, SeenIsLock, NobodySpared, EndpointServes, hostVars

LEMMA BeginsElection ==
  ASSUME TypeOK, ElectionInv, NEW h \in Hosts, Begins(h)
  PROVE  /\ HolderHasLock' /\ LockHasHolder' /\ SeenIsLock' /\ EndpointServes'
         /\ UNCHANGED clientVars => NobodySpared'
<1>1. /\ phase[h] = "unborn" /\ phase'[h] = "open"
      /\ \A g \in Hosts \ {h} : phase'[g] = phase[g]
      /\ UNCHANGED <<lock, endpoint, seen>>
  BY PhaseTypes DEF Begins, HostMoves, TypeOK
<1>2. HolderHasLock' /\ LockHasHolder' /\ SeenIsLock' /\ EndpointServes'
  BY <1>1
  DEF ElectionInv, HolderHasLock, LockHasHolder, SeenIsLock, EndpointServes,
      Holding, Claiming, Owning, TypeOK, Locks
<1>3. ASSUME UNCHANGED clientVars PROVE NobodySpared'
  BY <1>1, <1>3 DEF ElectionInv, NobodySpared, Holding, Claiming, Owning, clientVars
<1> QED BY <1>2, <1>3

(* Only the creation of a lock disturbs those who are about to unlink one, *)
(* and then nobody is.                                                     *)
LEMMA AcquireElection ==
  ASSUME TypeOK, ElectionInv, NEW h \in Hosts, Acquire(h), UNCHANGED clientVars,
         phase'[h] = "write" => ~Unlinking(h)
  PROVE  ElectionInv'
<1> USE PhaseTypes, HostsAssumption
    DEF HostMoves, ElectionInv, HolderHasLock, LockHasHolder, SeenIsLock, NobodySpared,
        EndpointServes, Holding, Claiming, Owning, clientVars
<1>0. phase \in [Hosts -> Phases] /\ lock \in Locks /\ lock.by \in Hosts \cup {NoHost}
      /\ seen \in [Hosts -> Hosts \cup {NoHost}]
  BY DEF TypeOK, Locks
<1>1. CASE OpenLock(h)
  <2>1. /\ \A g \in Hosts \ {h} : phase[g] \notin {"check", "takeover"}
        /\ \A c \in Clients : cphase[c] \notin {"target", "kill", "unlock", "unlink"}
    BY <1>0, <1>1 DEF OpenLock, Unlinking, Stopping
  <2> QED BY <1>0, <1>1, <2>1 DEF OpenLock
<1>2. CASE LockExists(h) \/ OpenFails(h) \/ WriteFails(h)
  BY <1>0, <1>2 DEF LockExists, OpenFails, WriteFails
<1>3. CASE ReadOwner(h)
  BY <1>0, <1>3 DEF ReadOwner
<1>4. CASE CheckOwner(h)
  BY <1>0, <1>4 DEF CheckOwner, Running
<1>5. CASE TakeOver(h)
  BY <1>0, <1>5 DEF TakeOver, NoLock
<1>6. CASE WriteLock(h)
  BY <1>0, <1>6 DEF WriteLock
<1>7. CASE Discard(h)
  BY <1>0, <1>7 DEF Discard, NoLock
<1> QED BY <1>1, <1>2, <1>3, <1>4, <1>5, <1>6, <1>7 DEF Acquire

LEMMA OwnerElection ==
  ASSUME TypeOK, ElectionInv, NEW h \in Hosts, OpenHost(h) \/ Stop(h) \/ Crash(h),
         UNCHANGED clientVars
  PROVE  ElectionInv'
<1> USE PhaseTypes, HostsAssumption
    DEF HostMoves, ElectionInv, HolderHasLock, LockHasHolder, SeenIsLock, NobodySpared,
        EndpointServes, Holding, Claiming, Owning, clientVars
<1>0. phase \in [Hosts -> Phases] /\ lock.by \in Hosts \cup {NoHost}
  BY DEF TypeOK, Locks
<1>1. CASE CleanEndpoint(h) \/ Listen(h)
  BY <1>0, <1>1 DEF CleanEndpoint, Listen
<1>2. CASE ListenFails(h) \/ OpenControls(h)
  BY <1>0, <1>2 DEF ListenFails, OpenControls
<1>3. CASE ControlsFail(h) \/ Stop(h) \/ UnlinkOwnEndpoint(h)
  BY <1>0, <1>3 DEF ControlsFail, Stop, UnlinkOwnEndpoint
<1>4. CASE Release(h)
  BY <1>0, <1>4 DEF Release, NoLock
<1>5. CASE Crash(h)
  BY <1>0, <1>5 DEF Crash, Running
<1> QED BY <1>1, <1>2, <1>3, <1>4, <1>5 DEF OpenHost

(* A client that moves is where it went, and the others are where they were. *)
LEMMA MovesClient ==
  ASSUME TypeOK, NEW c \in Clients, NEW from, NEW to, ClientMoves(c, from, to)
  PROVE  /\ cphase[c] = from /\ cphase'[c] = to
         /\ \A d \in Clients \ {c} : cphase'[d] = cphase[d]
BY DEF ClientMoves, TypeOK

(* A client that stops a Host judges, kills and unlinks in this order. *)
LEMMA ClientElection ==
  ASSUME TypeOK, ElectionInv, NEW c \in Clients, ClientStep(c)
  PROVE  ElectionInv'
<1> USE DEF ElectionInv
<1>0. /\ phase \in [Hosts -> Phases] /\ lock \in Locks /\ lock.by \in Hosts \cup {NoHost}
      /\ target \in [Clients -> Hosts \cup {NoHost}]
      /\ cphase \in [Clients -> Stopping \cup {"idle", "stale", "launch", "retry", "joined"}]
  BY DEF TypeOK, Locks
<1>1. CASE /\ UNCHANGED <<hostVars, target>>
           /\ \E to \in {"stale", "launch", "joined", "retry", "idle"} :
                cphase' = [cphase EXCEPT ![c] = to]
  <2>1. \A d \in Clients : cphase'[d] = cphase[d] \/ cphase'[d] \notin Stopping
    BY <1>0, <1>1 DEF Stopping
  <2>2. NobodySpared'
    BY <1>1, <2>1 DEF NobodySpared, hostVars, Stopping
  <2> QED BY <1>1, <2>2 DEF HolderHasLock, LockHasHolder, SeenIsLock, EndpointServes, hostVars
<1>2. CASE ReplaceHost(c)
  <2>1. /\ cphase'[c] = "target" /\ \A d \in Clients \ {c} : cphase'[d] = cphase[d]
        /\ lock.written /\ UNCHANGED <<hostVars, target>>
    BY <1>2, MovesClient DEF ReplaceHost, LockIsOld
  <2>2. NobodySpared'
    BY <2>1 DEF NobodySpared, hostVars, HolderHasLock, Holding, Claiming, Owning
  <2> QED BY <2>1, <2>2 DEF HolderHasLock, LockHasHolder, SeenIsLock, EndpointServes, hostVars
<1>3. CASE ReadTarget(c)
  <2>1. /\ cphase[c] = "target" /\ cphase'[c] = "kill" /\ UNCHANGED hostVars
        /\ \A d \in Clients \ {c} : cphase'[d] = cphase[d] /\ target'[d] = target[d]
        /\ target'[c] = IF lock.written THEN lock.by ELSE NoHost
    BY <1>0, <1>3, MovesClient DEF ReadTarget
  <2>2. NobodySpared'
    BY <2>1 DEF NobodySpared, hostVars, HolderHasLock, Holding
  <2> QED BY <2>1, <2>2 DEF HolderHasLock, LockHasHolder, SeenIsLock, EndpointServes, hostVars
<1>4. CASE Kill(c)
  <2>1. /\ cphase[c] = "kill" /\ cphase'[c] = "unlock" /\ UNCHANGED <<lock, endpoint, seen, target>>
        /\ \A d \in Clients \ {c} : cphase'[d] = cphase[d]
        /\ \A h \in Hosts : phase'[h] = IF h = target[c] /\ Running(h) THEN "gone" ELSE phase[h]
    BY <1>4, MovesClient DEF Kill
  <2>2. \A h \in Hosts : phase'[h] \notin Holding
    BY <1>0, <2>1 DEF NobodySpared, Running, Holding, Claiming, Owning
  <2>3. NobodySpared'
    BY <2>1, <2>2 DEF NobodySpared, Holding
  <2>4. \A h \in Hosts : phase'[h] = phase[h] \/ phase'[h] = "gone"
    BY <2>1
  <2> QED
    BY <1>0, <2>1, <2>2, <2>3, <2>4
    DEF HolderHasLock, LockHasHolder, SeenIsLock, EndpointServes, Holding, Claiming, Owning
<1>5. CASE UnlinkLock(c) \/ UnlinkEndpoint(c)
  <2>1. /\ cphase[c] \in {"unlock", "unlink"} /\ cphase'[c] \in {"unlink", "launch"}
        /\ UNCHANGED <<phase, seen, target>>
        /\ lock' \in {lock, NoLock} /\ endpoint' \in {endpoint, NoHost}
        /\ \A d \in Clients \ {c} : cphase'[d] = cphase[d]
    BY <1>5, MovesClient DEF UnlinkLock, UnlinkEndpoint
  <2>2. \A h \in Hosts : phase[h] \notin Holding
    BY <2>1 DEF NobodySpared
  <2>3. NobodySpared'
    BY <2>1, <2>2 DEF NobodySpared, Holding
  <2> QED
    BY <2>1, <2>2, <2>3, HostsAssumption
    DEF HolderHasLock, LockHasHolder, SeenIsLock, EndpointServes, Holding, Claiming, Owning, NoLock
<1>6. CASE Launch(c) /\ \E h \in Hosts : Begins(h)
  <2>1. PICK h \in Hosts : Begins(h)
    BY <1>6
  <2>2. /\ cphase'[c] = "retry" /\ \A d \in Clients \ {c} : cphase'[d] = cphase[d]
        /\ UNCHANGED target
    BY <1>6, MovesClient DEF Launch
  <2>3. phase'[h] = "open" /\ \A g \in Hosts \ {h} : phase'[g] = phase[g]
    BY <1>0, <2>1, PhaseTypes DEF Begins, HostMoves
  <2>4. NobodySpared'
    BY <2>2, <2>3 DEF NobodySpared, Holding, Claiming, Owning
  <2> QED BY <2>1, <2>4, BeginsElection
<1> QED
  BY <1>1, <1>2, <1>3, <1>4, <1>5, <1>6
  DEF ClientStep, ConnectStep, Connect, JoinHost, Launch, Retry, GiveUp, Leave, ClientMoves, Reachable

(* A lock that was overtaken stays so. *)
LEMMA OvertakenStays ==
  ASSUME TypeOK, [Next]_vars, ~overtaken'
  PROVE  /\ ~overtaken
         /\ \A h \in Hosts : HostStep(h) => (phase'[h] = "write" => ~Unlinking(h))
<1>1. ASSUME NEW h \in Hosts, HostStep(h)
      PROVE  ~overtaken /\ (phase'[h] = "write" => ~Unlinking(h))
  BY <1>1 DEF HostStep, Overtakes, TypeOK
<1>2. ASSUME NEW h \in Hosts, Supervise(h) \/ HostEnds(h) PROVE ~overtaken
  BY <1>2 DEF Supervise, HostEnds
<1>3. ASSUME NEW c \in Clients, ClientStep(c) PROVE ~overtaken
  BY <1>3 DEF ClientStep
<1>4. ASSUME Rebuild \/ UNCHANGED vars PROVE overtaken' = overtaken
  BY <1>4 DEF Rebuild, vars
<1>5. ~overtaken
  BY <1>1, <1>2, <1>3, <1>4 DEF Next
<1> QED BY <1>1, <1>5

LEMMA StepElection ==
  ASSUME TypeOK, ElectionInv, [Next]_vars, ~overtaken'
  PROVE  ElectionInv'
<1>1. ASSUME NEW h \in Hosts, Supervise(h) PROVE ElectionInv'
  BY <1>1, BeginsElection DEF Supervise, ElectionInv, clientVars
<1>2. ASSUME NEW h \in Hosts, HostStep(h) PROVE ElectionInv'
  BY <1>2, OvertakenStays, AcquireElection, OwnerElection DEF HostStep
<1>3. ASSUME NEW h \in Hosts, HostEnds(h) PROVE ElectionInv'
  BY <1>3, OwnerElection DEF HostEnds
<1>4. ASSUME NEW c \in Clients, ClientStep(c) PROVE ElectionInv'
  BY <1>4, ClientElection
<1>5. CASE Rebuild \/ UNCHANGED vars
  BY <1>5, StillElection DEF Rebuild, vars, clientVars
<1> QED BY <1>1, <1>2, <1>3, <1>4, <1>5 DEF Next

(* The strengthening is inductive. *)
LEMMA ElectionInvariant == Spec => []Inv
<1>1. Init => Inv
  <2> SUFFICES ASSUME Init PROVE Inv
    OBVIOUS
  <2>1. TypeOK
    BY InitTypes
  <2>2. ElectionInv
    BY DEF Init, NoLock, ElectionInv, HolderHasLock, LockHasHolder, SeenIsLock, NobodySpared,
           EndpointServes, Holding, Claiming, Owning
  <2> QED BY <2>1, <2>2 DEF Inv
<1>2. TypeOK' /\ Inv /\ [Next]_vars => Inv'
  <2> SUFFICES ASSUME TypeOK', Inv, [Next]_vars, ~overtaken' PROVE ElectionInv'
    BY DEF Inv
  <2>1. TypeOK /\ ElectionInv
    BY OvertakenStays DEF Inv
  <2> QED BY <2>1, StepElection
<1> QED BY <1>1, <1>2, HostTypesCorrect, PTL DEF Spec

-----------------------------------------------------------------------------
(* However the elections of CLI and Desktop overlap and whatever crashes,  *)
(* closes, fails or is replaced, two processes never own the data          *)
(* directory at once until a lock is created while somebody is about to    *)
(* unlink an older one (local-owner.ts: acquire).                          *)
THEOREM OneOwnerElected == Spec => []OneOwner
<1>1. Inv => OneOwner
  BY DEF Inv, ElectionInv, HolderHasLock, OneOwner, Owner, Holding
<1> QED BY <1>1, ElectionInvariant, PTL

(* Until then the lock names the owner as long as it owns the directory    *)
(* (local-owner.ts: FileRuntimeOwner).                                     *)
THEOREM OwnerNamed == Spec => []OwnerIsNamed
<1>1. Inv => OwnerIsNamed
  BY DEF Inv, TypeOK, Locks, ElectionInv, HolderHasLock, OwnerIsNamed, Owner, Holding
<1> QED BY <1>1, ElectionInvariant, PTL

(* Until then nobody removes or replaces the endpoint of a Host that       *)
(* serves (local-host.ts: openLocalRuntimeHost, close; launcher.ts:        *)
(* stopLocalRuntimeHost).                                                  *)
THEOREM ServedIsReachable == Spec => []ServedAtEndpoint
<1>1. Inv => ServedAtEndpoint
  BY DEF Inv, ElectionInv, EndpointServes, ServedAtEndpoint
<1> QED BY <1>1, ElectionInvariant, PTL

(* Until then the Host that cleans the endpoint never removes the socket   *)
(* of a Host that serves (local-host.ts: openLocalRuntimeHost): one that   *)
(* serves would hold the lock as well.                                     *)
THEOREM CleanupIsStale == Spec => CleanupIsOfStaleEndpoint
<1>1. Inv => \A h \in Hosts : ~overtaken /\ CleanEndpoint(h) => ~Reachable
  <2> SUFFICES ASSUME Inv, NEW h \in Hosts, ~overtaken, CleanEndpoint(h), Reachable PROVE FALSE
    OBVIOUS
  <2>1. phase[h] = "clean" /\ phase[endpoint] \in {"bound", "serve"}
    BY DEF CleanEndpoint, HostMoves, Reachable
  <2>2. endpoint \in Hosts
    BY HostsAssumption DEF Inv, TypeOK, Reachable
  <2>3. lock.by = h /\ lock.by = endpoint
    BY <2>1, <2>2 DEF Inv, ElectionInv, HolderHasLock, Holding, Claiming, Owning
  <2> QED BY <2>1, <2>3
<1> QED BY <1>1, ElectionInvariant, PTL DEF CleanupIsOfStaleEndpoint
=============================================================================
