---------------------------- MODULE InstallLock ----------------------------
(***************************************************************************)
(* The lock file that serialises the instances of                          *)
(* docker/install-dynamic-plugins.py, one per Pod, that share the volume   *)
(* dynamic-plugins-root: create_lock, wait_for_lock_release, remove_lock,  *)
(* the order in which main() registers the exit callback and the SIGTERM   *)
(* handler, and the signals, kills and restarts of their containers.       *)
(*                                                                         *)
(* The phases of an instance:                                              *)
(*   off         never started                                             *)
(*   started     before atexit.register(remove_lock)                       *)
(*   registered  exit callback registered, SIGTERM still has its default   *)
(*   acquiring   about to open(lock, 'x')                                  *)
(*   waiting     polling in wait_for_lock_release                          *)
(*   working     the rest of main()                                        *)
(*   exiting     interpreter shutting down, remove_lock still to run       *)
(*   ended       the process is gone                                       *)
(***************************************************************************)
EXTENDS Naturals, FiniteSets

CONSTANTS
  Instances,      \* the processes that share the volume
  NoOne,          \* not an instance
  OperatorFile,   \* the file an operator deletes to clear a stale lock
  MaxStarts       \* bound: how often one instance is started

ASSUME InstancesAssumption == IsFiniteSet(Instances) /\ NoOne \notin Instances
ASSUME MaxStartsAssumption == MaxStarts \in Nat

LockFile == "install-dynamic-plugins.lock"

Phases == {"off", "started", "registered", "acquiring", "waiting",
           "working", "exiting", "ended"}

Running == Phases \ {"off", "ended"}

VARIABLES
  phase,      \* phase[i]: where instance i stands
  volume,     \* the lock files present in dynamic-plugins-root
  starts,     \* starts[i]: how often i was started
  owner,      \* history: the running process that created the lock file
  hits        \* history: how many SIGTERMs reached an instance without a lock

vars == <<phase, volume, starts, owner, hits>>

Init ==
  /\ phase = [i \in Instances |-> "off"]
  /\ volume = {}
  /\ starts = [i \in Instances |-> 0]
  /\ owner = NoOne
  /\ hits = 0

Goto(i, from, to) ==
  /\ phase[i] = from
  /\ phase' = [phase EXCEPT ![i] = to]

Locked == LockFile \in volume

\* The process i is gone or is past caring: nobody alive owns what it created.
Disown(i) == owner' = IF owner = i THEN NoOne ELSE owner

-----------------------------------------------------------------------------
(* The container runtime starts the init container, again after it ended.  *)
Start(i) ==
  /\ phase[i] \in {"off", "ended"}
  /\ starts[i] < MaxStarts
  /\ phase' = [phase EXCEPT ![i] = "started"]
  /\ starts' = [starts EXCEPT ![i] = @ + 1]
  /\ UNCHANGED <<volume, owner, hits>>

(* atexit.register(remove_lock, lock_file_path)                            *)
RegisterExitCallback(i) ==
  /\ Goto(i, "started", "registered")
  /\ UNCHANGED <<volume, starts, owner, hits>>

(* signal.signal(SIGTERM, lambda ...: sys.exit(0))                         *)
InstallTermHandler(i) ==
  /\ Goto(i, "registered", "acquiring")
  /\ UNCHANGED <<volume, starts, owner, hits>>

(* Mutant: open(lock_file_path, 'w') takes the lock over.                   *)
CreateLockNotExclusive(i) ==
  /\ Goto(i, "acquiring", "working")
  /\ volume' = volume \cup {LockFile}
  /\ owner' = i
  /\ UNCHANGED <<starts, hits>>

(* open(lock_file_path, 'x') creates the file, or raises FileExistsError   *)
CreateLock(i) ==
  /\ ~Locked
  /\ Goto(i, "acquiring", "working")
  /\ volume' = volume \cup {LockFile}
  /\ owner' = i
  /\ UNCHANGED <<starts, hits>>

LockExists(i) ==
  /\ Locked
  /\ Goto(i, "acquiring", "waiting")
  /\ UNCHANGED <<volume, starts, owner, hits>>

(* Mutant: after the wait the file is created without 'x'.                  *)
LockReleasedCheckThenAct(i) ==
  /\ ~Locked
  /\ Goto(i, "waiting", "working")
  /\ UNCHANGED <<volume, starts, owner, hits>>

(* Mutant: the poll's condition is inverted.                               *)
LockReleasedInverted(i) ==
  /\ Locked
  /\ Goto(i, "waiting", "acquiring")
  /\ UNCHANGED <<volume, starts, owner, hits>>

(* wait_for_lock_release: the poll that finds no file ends the wait; one   *)
(* that finds it sleeps and changes nothing.                               *)
LockReleased(i) ==
  /\ ~Locked
  /\ Goto(i, "waiting", "acquiring")
  /\ UNCHANGED <<volume, starts, owner, hits>>

(* main() returns, calls exit(0) or raises                                 *)
Finish(i) ==
  /\ Goto(i, "working", "exiting")
  /\ UNCHANGED <<volume, starts, owner, hits>>

(* The exit callback remove_lock: os.remove deletes the file whoever       *)
(* created it; a missing file only prints a traceback.                     *)
RemoveLock(i) ==
  /\ Goto(i, "exiting", "ended")
  /\ volume' = volume \ {LockFile}
  /\ owner' = NoOne
  /\ UNCHANGED <<starts, hits>>

(* SIGTERM before the handler is installed ends the process without        *)
(* callbacks; while the exit callback is pending, the handler's SystemExit *)
(* aborts the callback.                                                    *)
SigTermEnds(i) ==
  /\ phase[i] \in {"started", "registered", "exiting"}
  /\ phase' = [phase EXCEPT ![i] = "ended"]
  /\ Disown(i)
  /\ UNCHANGED <<volume, starts, hits>>

(* Otherwise sys.exit(0) unwinds main() and runs the exit callback, also   *)
(* in an instance that never got the lock.                                 *)
SigTermExits(i) ==
  /\ phase[i] \in {"acquiring", "waiting", "working"}
  /\ phase' = [phase EXCEPT ![i] = "exiting"]
  /\ hits' = IF phase[i] = "working" THEN hits ELSE hits + 1
  /\ UNCHANGED <<volume, starts, owner>>

(* SIGKILL: eviction, out of memory, node shutdown                         *)
SigKill(i) ==
  /\ phase[i] \in Running
  /\ phase' = [phase EXCEPT ![i] = "ended"]
  /\ Disown(i)
  /\ UNCHANGED <<volume, starts, hits>>

(* docs/dynamic-plugins/installing-plugins.md: when the Pods log that they *)
(* wait and the installer was killed, delete the lock file by hand.        *)
Orphaned == Locked /\ owner = NoOne

OperatorDelete ==
  /\ Orphaned
  /\ \E i \in Instances : phase[i] = "waiting"
  /\ volume' = volume \ {OperatorFile}
  /\ UNCHANGED <<phase, starts, owner, hits>>

-----------------------------------------------------------------------------
Progress(i) ==
  \/ RegisterExitCallback(i)
  \/ InstallTermHandler(i)
  \/ CreateLock(i)
  \/ LockExists(i)
  \/ LockReleased(i)
  \/ Finish(i)
  \/ RemoveLock(i)

Fault(i) == SigTermEnds(i) \/ SigTermExits(i) \/ SigKill(i)

Next ==
  \/ \E i \in Instances : Start(i) \/ Progress(i) \/ Fault(i)
  \/ OperatorDelete

Spec == Init /\ [][Next]_vars

(* The operating system schedules every process, and the operator follows  *)
(* the documentation. Nothing obliges a container to start, or a signal to *)
(* arrive.                                                                 *)
Fairness ==
  /\ \A i \in Instances : WF_vars(Progress(i))
  /\ WF_vars(OperatorDelete)

FairSpec == Spec /\ Fairness

-----------------------------------------------------------------------------
TypeOK ==
  /\ phase \in [Instances -> Phases]
  /\ volume \subseteq {LockFile}
  /\ starts \in [Instances -> 0 .. MaxStarts]
  /\ owner \in Instances \cup {NoOne}
  /\ hits \in Nat

Working == {i \in Instances : phase[i] = "working"}

(* What the comment of create_lock says of the program: while one instance *)
(* is past create_lock the others wait for it to finish.                   *)
Mutex == \A i, j \in Working : i = j

(* What the code achieves: every SIGTERM that reaches an instance without  *)
(* the lock lets at most one more instance in, however the removals of     *)
(* each other's lock file then cascade. Without such a signal this is      *)
(* Mutex.                                                                  *)
WorkersBounded == Cardinality(Working) <= 1 + hits

(* Until the first such signal the lock file implements mutual exclusion,  *)
(* and no instance stays inside for ever.                                  *)
Exclusion ==
  INSTANCE MutualExclusion
  WITH Procs <- Instances, inside <- IF hits = 0 THEN Working ELSE {}

ExclusionUntilHit == Exclusion!FairSpec

(* An instance in wait_for_lock_release does not poll for ever: a lock     *)
(* file whose creator was killed is deleted by the operator.               *)
WaiterProgress ==
  \A i \in Instances : phase[i] = "waiting" ~> phase[i] # "waiting"
=============================================================================
