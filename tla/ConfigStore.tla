----------------------------- MODULE ConfigStore -----------------------------
(***************************************************************************)
(* saveConfigPatch (src/src/agent/state.ts): every read-modify-write of    *)
(* config.json under its lock.  Each client patches a key of its own; the  *)
(* file is written beside the target and renamed over it.                  *)
(***************************************************************************)
EXTENDS FileLock

VARIABLES
  disk,    \* config.json: the patches it holds, and whether it parses
  base,    \* what each client read
  tmp      \* the clients whose temporary file is complete

configVars == <<disk, base, tmp>>
storeVars == <<lockVars, configVars>>

\* "login" stands for the credentials that are in the file from the start.
Login == "login"
Keys == Client \cup {Login}

StoreInit ==
  /\ LockInit
  /\ disk = [keys |-> {Login}, parses |-> TRUE]
  /\ base = [c \in Client |-> {}] /\ tmp = {}

\* readRawGlobalConfig: a file that does not parse reads as a clean config.
Reads(c) ==
  /\ Moves(c, "held", "write")
  /\ base' = [base EXCEPT ![c] = IF disk.parses THEN disk.keys ELSE {}]
  /\ UNCHANGED <<file, due, disk, tmp>>

\* Defect: the target itself is opened for writing, which empties it.
WritesInPlace(c) ==
  /\ Moves(c, "write", "rename") /\ tmp' = tmp \cup {c}
  /\ disk' = [disk EXCEPT !.parses = FALSE]
  /\ UNCHANGED <<file, due, base>>

Writes(c) ==
  /\ Moves(c, "write", "rename") /\ tmp' = tmp \cup {c}
  /\ UNCHANGED <<file, due, disk, base>>

Renames(c) ==
  /\ Moves(c, "rename", "release")
  /\ disk' = [keys |-> base[c] \cup {c}, parses |-> TRUE] /\ tmp' = tmp \ {c}
  /\ UNCHANGED <<file, due, base>>

\* A failed write or rename removes the temporary file and is thrown, after the
\* lock was released in the finally block.
SaveFails(c) ==
  /\ at[c] \in {"write", "rename"} /\ Moves(c, at[c], "release") /\ tmp' = tmp \ {c}
  /\ UNCHANGED <<file, due, disk, base>>

StoreStep(c) ==
  \/ (Asks(c) \/ LockSteps(c) \/ Releases(c) \/ Dies(c) \/ Expires(c)) /\ UNCHANGED configVars
  \/ Reads(c) \/ Writes(c) \/ Renames(c) \/ SaveFails(c)

StoreNext ==
  \/ \E c \in Client : StoreStep(c)
  \/ GrowsOld({}) /\ UNCHANGED configVars

StoreSpec == StoreInit /\ [][StoreNext]_storeVars

---------------------------------------------------------------------------
(* Properties                                                              *)

\* A patch is part of the file from its rename on, whichever processes patch
\* other keys or die (state.ts:597-599: "concurrent patches [...] never lose
\* updates").  It takes that at most one process waits beside a dead one's lock.
NoLostUpdate == [][disk.keys \subseteq disk'.keys]_disk

\* The file holds the credentials and parses at every moment, so a reader, which
\* takes no lock, and a writer that comes after a crash find them
\* (saveGlobalConfig writes beside the target).
CredentialsSurvive == disk.parses /\ Login \in disk.keys
=============================================================================
