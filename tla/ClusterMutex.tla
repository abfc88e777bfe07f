----------------------------- MODULE ClusterMutex -----------------------------
(***************************************************************************)
(* The mutex that the plugin API offers to the instances of a plugin in a  *)
(* cluster (public/pluginapi/cluster/mutex.go): a key of the key-value     *)
(* store that expires, that its holder refreshes from a goroutine and that *)
(* Unlock deletes.  All instances write the same value, so the store can   *)
(* not tell whose key it is.  A behaviour may be disturbed: instances      *)
(* crash, calls of the store by the mutex fail, what an instance has to    *)
(* write comes late, or (ClusterJob) calls of the store by the job fail.   *)
(*                                                                         *)
(* Time passes in ticks.  The waits between the attempts to lock are left  *)
(* out: an instance tries again at any time.                               *)
(***************************************************************************)
EXTENDS Integers

CONSTANTS
    Instance,          \* the instances of the plugin
    TTL,               \* ttl, in ticks
    RefreshInterval,   \* refreshInterval: half of it
    MaxCrashes,        \* bound: instances that crash
    Conditions,        \* the sets of disturbances to consider
    Nobody, Stopped

ASSUME TimesAssumption ==
    TTL \in Nat /\ RefreshInterval \in Nat \ {0} /\ RefreshInterval < TTL

ASSUME ConditionsAssumption ==
    Conditions \subseteq SUBSET {"crash", "failure", "delay", "metadata"}

ASSUME DistinctAssumption == Nobody \notin Instance /\ Stopped \notin Nat

VARIABLES
    ttl,         \* time until the key expires, 0 when there is no key
    owner,       \* who set the key; the store does not know
    phase,       \* where every instance is
    refresher,   \* time until the ticker of an instance's refresh goroutine fires
    crashes,
    may          \* the disturbances that may arise in this behaviour

mutexVars == <<ttl, owner, phase, refresher, crashes, may>>

MutexInit ==
    /\ may \in Conditions
    /\ ttl = 0
    /\ owner = Nobody
    /\ phase = [i \in Instance |-> "unlocked"]
    /\ refresher = [i \in Instance |-> Stopped]
    /\ crashes = 0

GoTo(i, place) == phase' = [phase EXCEPT ![i] = place]

Lock(i) ==
    /\ phase[i] = "unlocked"
    /\ GoTo(i, "locking")
    /\ UNCHANGED <<ttl, owner, refresher, crashes, may>>

\* The attempt that finds no key sets it and starts the refresh goroutine.
TryLock(i) ==
    /\ phase[i] = "locking"
    /\ ttl = 0
    /\ ttl' = TTL
    /\ owner' = i
    /\ GoTo(i, "locked")
    /\ refresher' = [refresher EXCEPT ![i] = RefreshInterval]
    /\ UNCHANGED <<crashes, may>>

\* The answer of an attempt that set the key is lost: the instance tries again.
TryLockFails(i) ==
    /\ "failure" \in may
    /\ phase[i] = "locking"
    /\ ttl = 0
    /\ ttl' = TTL
    /\ owner' = i
    /\ UNCHANGED <<phase, refresher, crashes, may>>

\* The context of LockWithContext is done.
Cancel(i) ==
    /\ phase[i] = "locking"
    /\ GoTo(i, "unlocked")
    /\ UNCHANGED <<ttl, owner, refresher, crashes, may>>

\* Seeded bug: the key that is refreshed gets no new expiry.
BugRefreshLock(i) ==
    /\ refresher[i] = 0
    /\ refresher' = [refresher EXCEPT ![i] = RefreshInterval]
    /\ UNCHANGED <<ttl, owner, phase, crashes, may>>

\* The refresh goroutine.  It stops for good when there is no key, and after an
\* error, whether or not the key was refreshed.
RefreshLock(i) ==
    /\ refresher[i] = 0
    /\ \/ /\ ttl > 0
          /\ ttl' = TTL
          /\ refresher' = [refresher EXCEPT ![i] = RefreshInterval]
       \/ /\ ttl = 0
          /\ refresher' = [refresher EXCEPT ![i] = Stopped]
          /\ UNCHANGED ttl
       \/ /\ "failure" \in may
          /\ ttl' \in {ttl} \cup (IF ttl > 0 THEN {TTL} ELSE {})
          /\ refresher' = [refresher EXCEPT ![i] = Stopped]
    /\ UNCHANGED <<owner, phase, crashes, may>>

\* Seeded bug: the goroutine is left running.
BugUnlock(i) ==
    /\ phase[i] = "locked"
    /\ GoTo(i, "unlocking")
    /\ UNCHANGED <<ttl, owner, refresher, crashes, may>>

\* Unlock stops the goroutine and waits for it before it deletes the key.
Unlock(i) ==
    /\ phase[i] = "locked"
    /\ GoTo(i, "unlocking")
    /\ refresher' = [refresher EXCEPT ![i] = Stopped]
    /\ UNCHANGED <<ttl, owner, crashes, may>>

\* The key is deleted, whoever set it; an error is ignored.
DeleteKey(i) ==
    /\ phase[i] = "unlocking"
    /\ GoTo(i, "unlocked")
    /\ \/ ttl' = 0 /\ owner' = Nobody
       \/ "failure" \in may /\ UNCHANGED <<ttl, owner>>
    /\ UNCHANGED <<refresher, crashes, may>>

Crash(i) ==
    /\ "crash" \in may
    /\ phase[i] # "crashed" /\ crashes < MaxCrashes
    /\ crashes' = crashes + 1
    /\ GoTo(i, "crashed")
    /\ refresher' = [refresher EXCEPT ![i] = Stopped]
    /\ UNCHANGED <<ttl, owner, may>>

Restart(i) ==
    /\ phase[i] = "crashed"
    /\ GoTo(i, "unlocked")
    /\ UNCHANGED <<ttl, owner, refresher, crashes, may>>

\* Undelayed, what an instance has to write is written before more time passes.
Timely ==
    \A i \in Instance : refresher[i] # 0 /\ phase[i] # "unlocking"

Tick ==
    /\ "delay" \in may \/ Timely
    /\ ttl' = IF ttl > 0 THEN ttl - 1 ELSE 0
    /\ owner' = IF ttl > 1 THEN owner ELSE Nobody
    /\ refresher' = [i \in Instance |->
                        IF refresher[i] \in {0, Stopped} THEN refresher[i]
                                                         ELSE refresher[i] - 1]
    /\ UNCHANGED <<phase, crashes, may>>

MutexNext ==
    \/ \E i \in Instance :
          \/ Lock(i) \/ TryLock(i) \/ TryLockFails(i) \/ Cancel(i)
          \/ RefreshLock(i) \/ Unlock(i) \/ DeleteKey(i)
          \/ Crash(i) \/ Restart(i)
    \/ Tick

MutexSpec == MutexInit /\ [][MutexNext]_mutexVars

-----------------------------------------------------------------------------
(* Properties.                                                             *)

Phases == {"unlocked", "locking", "locked", "unlocking", "crashed"}

\* Type invariant of the key and the instances.
TypeOK ==
    /\ ttl \in 0..TTL
    /\ owner \in Instance \cup {Nobody}
    /\ phase \in [Instance -> Phases]
    /\ refresher \in [Instance -> 0..RefreshInterval \cup {Stopped}]
    /\ crashes \in Nat
    /\ may \in Conditions

Holds(i) == phase[i] \in {"locked", "unlocking"}

\* The calls of the mutex succeed, and in time.
Reliable == may \cap {"failure", "delay"} = {}

\* While its calls succeed in time one instance holds the mutex at a time (mutex.go:106:
\* "blocks until the mutex can be locked").
MutualExclusion == Reliable => \A i, j \in Instance : Holds(i) /\ Holds(j) => i = j

\* Then the key of an instance does not expire while it holds the mutex, and it is
\* its own.
HolderHasKey == Reliable => \A i \in Instance : Holds(i) => ttl > 0 /\ owner = i

\* Whatever fails, a key that nobody holds expires, though others wait for it
\* (mutex.go:183: "If an error occurs deleting, the mutex kv will still expire, allowing
\* later retry").
KeyExpires ==
    ttl > 0 ~> (ttl = 0 \/ \E i \in Instance : phase[i] = "locked")
=============================================================================
