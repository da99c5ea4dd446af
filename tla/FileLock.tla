------------------------------ MODULE FileLock ------------------------------
(***************************************************************************)
(* The lock file of config.json (acquireConfigLock, src/src/agent/state.ts)*)
(* and of one provider's OAuth record (acquireLock, src/src/auth/storage.ts*)
(* ), which follow one protocol: create exclusively, write a time stamp,   *)
(* remove a lock whose stamp (or, when it cannot be parsed, whose mtime) is*)
(* older than the staleness threshold, and at the deadline steal once.     *)
(*                                                                         *)
(* A file is known by the client that created it.  Wall-clock time is two  *)
(* facts: the lock file at the path has grown old, and a client's deadline *)
(* is due.                                                                 *)
(***************************************************************************)
EXTENDS Naturals, FiniteSets

CONSTANTS Client,     \* callers of the lock, each of which acquires it once
          Crashable   \* the callers whose process may die

ASSUME ClientAssumption == "nobody" \notin Client

VARIABLES
  file,   \* the file at the lock's path
  at,     \* where each client stands
  due     \* the clients whose acquisition deadline has passed

lockVars == <<file, at, due>>

NoFile == [by |-> "nobody", whole |-> FALSE, old |-> FALSE]
Created(c) == [by |-> c, whole |-> FALSE, old |-> FALSE]
Waiting == {"try", "look", "stat", "unlink", "wait", "steal", "reopen"}

LockInit == file = NoFile /\ at = [c \in Client |-> "idle"] /\ due = {}

Moves(c, from, to) == at[c] = from /\ at' = [at EXCEPT ![c] = to]

Asks(c) == Moves(c, "idle", "try") /\ UNCHANGED <<file, due>>

\* open(path, "wx"): creates the file or meets EEXIST.
Opens(c) ==
  /\ IF file = NoFile THEN file' = Created(c) /\ Moves(c, "try", "stamp")
                      ELSE UNCHANGED file /\ Moves(c, "try", "look")
  /\ UNCHANGED due

\* The stamp goes to the file this client opened, which another client may have
\* removed from the path in the meantime.
Stamps(c) ==
  /\ Moves(c, "stamp", "held")
  /\ file' = IF file.by = c THEN [file EXCEPT !.whole = TRUE] ELSE file
  /\ UNCHANGED due

\* Defect: a lock that cannot be parsed is taken for a dead one.
LooksOnce(c) ==
  /\ Moves(c, "look", IF file.old \/ ~file.whole THEN "unlink" ELSE "wait")
  /\ UNCHANGED <<file, due>>

\* A parsed stamp decides; an empty or missing file is looked at with stat.
Looks(c) ==
  /\ Moves(c, "look", IF ~file.whole THEN "stat" ELSE IF file.old THEN "unlink" ELSE "wait")
  /\ UNCHANGED <<file, due>>

Stats(c) ==
  /\ Moves(c, "stat", IF file.old THEN "unlink" ELSE "wait")
  /\ UNCHANGED <<file, due>>

\* Removes whatever is at the path by now.
Unlinks(c) == Moves(c, "unlink", "wait") /\ file' = NoFile /\ UNCHANGED due

\* The end of one round: the deadline, or another round 50 ms later.
Rests(c) ==
  /\ Moves(c, "wait", IF c \in due THEN "steal" ELSE "try")
  /\ UNCHANGED <<file, due>>

Steals(c) == Moves(c, "steal", "reopen") /\ file' = NoFile /\ UNCHANGED due

Reopens(c) ==
  /\ IF file = NoFile THEN file' = Created(c) /\ Moves(c, "reopen", "stamp")
                      ELSE UNCHANGED file /\ Moves(c, "reopen", "failed")
  /\ UNCHANGED due

\* Removes whatever is at the path by now.
Releases(c) == Moves(c, "release", "done") /\ file' = NoFile /\ UNCHANGED due

LockSteps(c) ==
  \/ Opens(c) \/ Stamps(c) \/ Looks(c) \/ Stats(c)
  \/ Unlinks(c) \/ Rests(c) \/ Steals(c) \/ Reopens(c)

---------------------------------------------------------------------------
(* Time and death                                                          *)

Over == {"idle", "done", "failed", "crashed"}

Dies(c) ==
  /\ c \in Crashable /\ at[c] \notin Over
  /\ at' = [at EXCEPT ![c] = "crashed"]
  /\ UNCHANGED <<file, due>>

\* The threshold passes over the lock of a dead client, or of one that may
\* overstay it.
GrowsOld(overstays) ==
  /\ file # NoFile /\ ~file.old
  /\ at[file.by] = "crashed" \/ at[file.by] \in overstays
  /\ file' = [file EXCEPT !.old = TRUE]
  /\ UNCHANGED <<at, due>>

\* The deadline is twice the threshold: it comes to a client that found the same
\* lock at the path all the time.
Expires(c) ==
  /\ at[c] \in Waiting /\ file.old /\ due' = due \cup {c} /\ c \notin due
  /\ UNCHANGED <<file, at>>
=============================================================================
