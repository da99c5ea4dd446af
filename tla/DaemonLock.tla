------------------------------ MODULE DaemonLock ------------------------------
(***************************************************************************)
(* The lock that lets one process at a time poll Telegram: acquireDaemonLock*)
(* with its ready mark and release, and the removal of a stopped daemon's  *)
(* lock by stopDaemon (src/src/agent/notify/daemon-control.ts).            *)
(*                                                                         *)
(* A record is linked into place whole and names its owner; ownership is   *)
(* believed while that process lives (pid and start time).  Removing a dead*)
(* owner's record is serialised by the file lockPath.reclaim, which nobody *)
(* removes for its creator.  Whoever holds that file reads the record, then*)
(* asks whether the process it named lives, then removes what is there.  A *)
(* process may die between any two steps, and one that is done exits later.*)
(***************************************************************************)

CONSTANTS Daemon,   \* processes that try to become the owner (daemon or pairing)
          Stopper,  \* processes that run stopDaemon
          Nobody    \* no process

ASSUME DistinctProcesses == Nobody \notin Daemon \cup Stopper /\ Daemon \cap Stopper = {}

VARIABLES
  lock,      \* whom the lock file names
  guard,     \* who created the reclaim file
  daemonAt,  \* where each process stands
  sighted,   \* the owner each process has read in the record
  released   \* ghost: an owner let the lock go between another process's reading
             \* its record and asking whether it lives

daemonVars == <<lock, guard, daemonAt, sighted, released>>

Proc == Daemon \cup Stopper

DaemonInit ==
  /\ lock = Nobody /\ guard = Nobody
  /\ daemonAt = [p \in Proc |-> "idle"] /\ sighted = [p \in Proc |-> Nobody] /\ released = FALSE

Living(p) == p \in Proc /\ daemonAt[p] # "dead"
Owning == {"won", "owner", "mark", "ready", "remove"}
Owners == {p \in Daemon : daemonAt[p] \in Owning}

Advances(p, from, to) == daemonAt[p] = from /\ daemonAt' = [daemonAt EXCEPT ![p] = to]

---------------------------------------------------------------------------
(* Becoming the owner                                                      *)

\* link(tmp, lockPath) succeeds only where there is no file.
Links(d) ==
  /\ IF lock = Nobody THEN lock' = d /\ Advances(d, "idle", "owner")
                      ELSE UNCHANGED lock /\ Advances(d, "idle", "guard")
  /\ UNCHANGED <<guard, sighted, released>>

\* Defect: the reclaim file is not opened exclusively.
SharesGuard(p) ==
  /\ guard' = p /\ Advances(p, "guard", "inspect")
  /\ UNCHANGED <<lock, sighted, released>>

TakesGuard(p) ==
  /\ IF guard = Nobody THEN guard' = p /\ Advances(p, "guard", "inspect")
                       ELSE UNCHANGED guard /\ Advances(p, "guard", "done")
  /\ UNCHANGED <<lock, sighted, released>>

\* A record that is gone by now ends the attempt; a stop goes on only with the
\* record it has read before (removeStoppedLock).
ReadsOwner(p) ==
  /\ sighted' = [sighted EXCEPT ![p] = lock]
  /\ Advances(p, "inspect", IF lock = Nobody \/ (p \in Stopper /\ lock # sighted[p]) THEN "yield" ELSE "probe")
  /\ UNCHANGED <<lock, guard, released>>

\* isLockOwnerAlive of the record that was read, whatever the file holds by now.
ProbesOwner(p) ==
  /\ Advances(p, "probe", IF Living(sighted[p]) THEN "yield" ELSE "unlink")
  /\ UNCHANGED <<lock, guard, sighted, released>>

\* Removes whatever is at the path; where there is nothing the attempt fails.
UnlinksOwner(d) ==
  /\ Advances(d, "unlink", IF lock = Nobody THEN "yield" ELSE "relink")
  /\ lock' = Nobody /\ UNCHANGED <<guard, sighted, released>>

Relinks(d) ==
  /\ IF lock = Nobody THEN lock' = d /\ Advances(d, "relink", "won")
                      ELSE UNCHANGED lock /\ Advances(d, "relink", "yield")
  /\ UNCHANGED <<guard, sighted, released>>

\* The finally block removes the reclaim file.
LeavesGuard(p) ==
  /\ Advances(p, "won", "owner") \/ Advances(p, "yield", "done")
  /\ guard' = Nobody /\ UNCHANGED <<lock, sighted, released>>

---------------------------------------------------------------------------
(* The owner                                                               *)

\* markReady: the record must be this owner's; then a ready one replaces
\* whatever is there.
ChecksMark(d) ==
  /\ Advances(d, "owner", IF lock = d THEN "mark" ELSE "done")
  /\ UNCHANGED <<lock, guard, sighted, released>>

MarksReady(d) ==
  /\ Advances(d, "mark", "ready") /\ lock' = d /\ UNCHANGED <<guard, sighted, released>>

\* release: only a record of this owner is removed.
ChecksRelease(d) ==
  /\ daemonAt[d] \in {"owner", "ready"}
  /\ daemonAt' = [daemonAt EXCEPT ![d] = IF lock = d THEN "remove" ELSE "done"]
  /\ UNCHANGED <<lock, guard, sighted, released>>

Removes(d) ==
  /\ Advances(d, "remove", "done") /\ lock' = Nobody
  /\ released' = (released \/ \E p \in Proc : daemonAt[p] = "probe" /\ sighted[p] = d)
  /\ UNCHANGED <<guard, sighted>>

---------------------------------------------------------------------------
(* Stopping, dying                                                         *)

\* stopDaemon reads the record and signals a living owner, who ends on its own
\* (Removes) or dies.
StopReads(s) ==
  /\ Advances(s, "idle", IF lock = Nobody THEN "done" ELSE "stopping")
  /\ sighted' = [sighted EXCEPT ![s] = lock] /\ UNCHANGED <<lock, guard, released>>

\* It goes on when that process is gone, and gives up after a while.
StopWaits(s) ==
  /\ Advances(s, "stopping", "done") \/ (~Living(sighted[s]) /\ Advances(s, "stopping", "guard"))
  /\ UNCHANGED <<lock, guard, sighted, released>>

StopUnlinks(s) ==
  /\ Advances(s, "unlink", "yield") /\ lock' = Nobody
  /\ UNCHANGED <<guard, sighted, released>>

DaemonDies(p) ==
  /\ daemonAt[p] # "dead" /\ daemonAt' = [daemonAt EXCEPT ![p] = "dead"]
  /\ UNCHANGED <<lock, guard, sighted, released>>

DaemonStep(d) ==
  \/ Links(d) \/ UnlinksOwner(d) \/ Relinks(d)
  \/ ChecksMark(d) \/ MarksReady(d) \/ ChecksRelease(d) \/ Removes(d)

StopperStep(s) == StopReads(s) \/ StopWaits(s) \/ StopUnlinks(s)

EitherStep(p) ==
  TakesGuard(p) \/ ReadsOwner(p) \/ ProbesOwner(p) \/ LeavesGuard(p) \/ DaemonDies(p)

DaemonNext ==
  \/ \E d \in Daemon : DaemonStep(d)
  \/ \E s \in Stopper : StopperStep(s)
  \/ \E p \in Proc : EitherStep(p)

DaemonSpec == DaemonInit /\ [][DaemonNext]_daemonVars

---------------------------------------------------------------------------
(* Properties                                                              *)

\* Whatever dies while owners, reclaimers and a stop overlap, two processes own the lock
\* at once only where an owner let it go between a contender's reading its record and
\* asking whether it lives: then another process may have linked its own record, which
\* the contender removes (acquireDaemonLock; the owner is the only one to poll).
OneOwnerUnlessReleased == released \/ \A d, e \in Owners : d = e
=============================================================================
