--------------------------- MODULE SharedFileProofs ---------------------------
(***************************************************************************)
(* What the program keeps in its files: the credentials and patches in     *)
(* config.json, the OAuth record of a provider and the owner of the daemon *)
(* lock, for any number of processes, and the transcript of a session, for *)
(* any number of messages, compactions and faults.                         *)
(***************************************************************************)
EXTENDS ConfigStore, CredentialRefresh, DaemonLock, SessionStore, FiniteSetTheorems,
  WellFoundedInduction, TLAPS

-----------------------------------------------------------------------------
(* The credentials in config.json.  The lock is not needed for them: a      *)
(* process replaces the file by one that grew from a whole file.            *)

Standing == Waiting \cup Over \cup {"stamp", "held", "write", "rename", "release"}

\* Whoever is about to replace the file has read a whole one.
ReadersInv ==
  /\ at \in [Client -> Standing] /\ base \in [Client -> SUBSET Keys]
  /\ disk \in [keys : SUBSET Keys, parses : BOOLEAN]
  /\ \A c \in Client : at[c] \in {"write", "rename"} => Login \in base[c]
  /\ CredentialsSurvive

\* The file is whole, and nobody has read it yet.
LEMMA StoreStarts == StoreInit => ReadersInv
BY DEF StoreInit, LockInit, ReadersInv, CredentialsSurvive, Keys, Standing, Over

\* A step that leaves the file and what was read alone, and brings nobody to write.
LEMMA NobodyWrites ==
  ASSUME ReadersInv, UNCHANGED <<disk, base>>, at' \in [Client -> Standing],
         \A c \in Client : at'[c] \in {"write", "rename"} => at[c] \in {"write", "rename"}
  PROVE  ReadersInv'
BY DEF ReadersInv, CredentialsSurvive

\* The lock, the deadline and death.
LEMMA LockingKeeps ==
  ASSUME ReadersInv, NEW c \in Client, UNCHANGED configVars,
         Asks(c) \/ LockSteps(c) \/ Releases(c) \/ Dies(c) \/ Expires(c)
  PROVE  ReadersInv'
<1> USE DEF Moves, ReadersInv, configVars, Standing, Waiting, Over
<1>1. CASE Asks(c) BY <1>1, NobodyWrites DEF Asks
<1>2. CASE Opens(c) BY <1>2, NobodyWrites DEF Opens
<1>3. CASE Stamps(c) BY <1>3, NobodyWrites DEF Stamps
<1>4. CASE Looks(c) BY <1>4, NobodyWrites DEF Looks
<1>5. CASE Stats(c) BY <1>5, NobodyWrites DEF Stats
<1>6. CASE Unlinks(c) BY <1>6, NobodyWrites DEF Unlinks
<1>7. CASE Rests(c) BY <1>7, NobodyWrites DEF Rests
<1>8. CASE Steals(c) BY <1>8, NobodyWrites DEF Steals
<1>9. CASE Reopens(c) BY <1>9, NobodyWrites DEF Reopens
<1>10. CASE Releases(c) BY <1>10, NobodyWrites DEF Releases
<1>11. CASE Dies(c) BY <1>11, NobodyWrites DEF Dies
<1>12. CASE Expires(c) BY <1>12, NobodyWrites DEF Expires
<1>13. QED BY <1>1, <1>2, <1>3, <1>4, <1>5, <1>6, <1>7, <1>8, <1>9, <1>10, <1>11, <1>12 DEF LockSteps

\* Reading, writing beside the file, and renaming over it.
LEMMA SavingKeeps ==
  ASSUME ReadersInv, NEW c \in Client, Reads(c) \/ Writes(c) \/ Renames(c) \/ SaveFails(c)
  PROVE  ReadersInv'
<1> USE DEF Moves, ReadersInv, CredentialsSurvive, Standing
<1>1. CASE Reads(c) BY <1>1 DEF Reads
<1>2. CASE Writes(c) BY <1>2 DEF Writes
<1>3. CASE Renames(c) BY <1>3 DEF Renames, Keys
<1>4. CASE SaveFails(c) BY <1>4 DEF SaveFails
<1>5. QED BY <1>1, <1>2, <1>3, <1>4

\* The invariant is inductive.
LEMMA StoreStepKeeps == ReadersInv /\ [StoreNext]_storeVars => ReadersInv'
<1> SUFFICES ASSUME ReadersInv, [StoreNext]_storeVars PROVE ReadersInv'
  OBVIOUS
<1>1. ASSUME NEW c \in Client, StoreStep(c) PROVE ReadersInv'
  BY <1>1, LockingKeeps, SavingKeeps DEF StoreStep
<1>2. CASE GrowsOld({}) /\ UNCHANGED configVars
  BY <1>2, NobodyWrites DEF GrowsOld, configVars, ReadersInv
<1>3. CASE UNCHANGED storeVars
  BY <1>3, NobodyWrites DEF storeVars, lockVars, configVars, ReadersInv
<1>4. QED BY <1>1, <1>2, <1>3 DEF StoreNext

\* Whoever reads config.json at whatever moment, and whoever comes after a crash, finds a
\* file that parses and holds the credentials (saveGlobalConfig).
THEOREM CredentialsStay == StoreSpec => []CredentialsSurvive
<1>1. ReadersInv => CredentialsSurvive
  BY DEF ReadersInv
<1>2. QED BY <1>1, StoreStarts, StoreStepKeeps, PTL DEF StoreSpec

-----------------------------------------------------------------------------
(* Whoever is past the lock has it.  A lock file grows old only when its     *)
(* holder is dead, so whoever removes one has seen a death; and as long as   *)
(* only one other process is there to see it, what it removes is the dead    *)
(* one's lock.                                                               *)

Outside == Waiting \cup Over
Inside(c) == at[c] \notin Outside

Dead(c) == \E d \in Client \ {c} : at[d] = "crashed"

LockInv ==
  /\ file \in [by : Client \cup {"nobody"}, whole : BOOLEAN, old : BOOLEAN]
  /\ due \subseteq Client
  /\ \A c \in Client : Inside(c) => file.by = c
  /\ file.by = "nobody" => file = NoFile
  /\ file.old => at[file.by] = "crashed"
  /\ \A c \in Client : at[c] = "crashed" => c \in Crashable
  /\ \A c \in Client : at[c] \in {"unlink", "steal", "reopen"} \/ c \in due => Dead(c)

\* At most one process is there beside one that dies.
OneBesideTheDead == \A d \in Crashable : \A c, e \in Client \ {d} : c = e

LEMMA OneInside ==
  ASSUME LockInv, NEW c \in Client, NEW d \in Client, Inside(c), Inside(d)
  PROVE  c = d
BY DEF LockInv

LEMMA LockStarts == LockInit => LockInv
BY ClientAssumption DEF LockInit, LockInv, NoFile, Inside, Outside, Over

\* Nobody but c is inside when c removes a lock it took for a dead one's.
LEMMA RemovesTheDead ==
  ASSUME LockInv, OneBesideTheDead, NEW c \in Client, Dead(c)
  PROVE  \A d \in Client \ {c} : ~Inside(d)
BY DEF LockInv, OneBesideTheDead, Dead, Inside, Outside, Over

\* A client creates the lock file where there is none.
LEMMA CreatingKeeps ==
  ASSUME LockInv, NEW S, at \in [Client -> S], NEW c \in Client, file = NoFile,
         at[c] \in {"try", "reopen"}, file' = Created(c),
         at' = [at EXCEPT ![c] = "stamp"], due' = due
  PROVE  LockInv'
<1> USE DEF Inside, Outside, Waiting, Over, Dead
<1>1. \A d \in Client : ~Inside(d)
  BY ClientAssumption DEF LockInv, NoFile
<1>2. file' = [by |-> c, whole |-> FALSE, old |-> FALSE]
  BY DEF Created
<1>3. /\ file' \in [by : Client \cup {"nobody"}, whole : BOOLEAN, old : BOOLEAN]
      /\ file'.by = c /\ ~file'.old /\ c # "nobody"
  BY <1>2, ClientAssumption
<1>4. /\ \A d \in Client : Inside(d)' => d = c
      /\ \A d \in Client : at'[d] = "crashed" <=> at[d] = "crashed"
      /\ \A d \in Client : at'[d] \in {"unlink", "steal", "reopen"} =>
           at[d] \in {"unlink", "steal", "reopen"}
  BY <1>1
<1> HIDE DEF Inside, Outside, Waiting, Over
<1> QED
  BY <1>3, <1>4 DEF LockInv

LEMMA LockStepKeeps ==
  ASSUME LockInv, OneBesideTheDead, NEW S, at \in [Client -> S], NEW c \in Client,
         Asks(c) \/ LockSteps(c) \/ Releases(c) \/ Expires(c) \/ Dies(c)
  PROVE  LockInv'
<1> USE DEF Moves, Inside, Outside, Waiting, Over, Dead
<1>1. CASE Asks(c) BY <1>1 DEF Asks, LockInv
<1>2. CASE Opens(c)
  <2>1. CASE file = NoFile BY <1>2, <2>1, CreatingKeeps DEF Opens
  <2>2. CASE file # NoFile BY <1>2, <2>2 DEF Opens, LockInv
  <2> QED BY <2>1, <2>2
<1>3. CASE Stamps(c)
  <2>1. file.by = c /\ c # "nobody"
    BY <1>3, ClientAssumption DEF Stamps, LockInv
  <2>2. /\ file' \in [by : Client \cup {"nobody"}, whole : BOOLEAN, old : BOOLEAN]
        /\ file'.by = c /\ file'.old = file.old
    BY <1>3, <2>1 DEF Stamps, LockInv
  <2> QED
    BY <1>3, <2>1, <2>2 DEF Stamps, LockInv
<1>4. CASE Looks(c) BY <1>4 DEF Looks, LockInv, NoFile
<1>5. CASE Stats(c) BY <1>5 DEF Stats, LockInv, NoFile
<1>6. CASE Unlinks(c)
  BY <1>6, RemovesTheDead DEF Unlinks, LockInv, NoFile
<1>7. CASE Rests(c) BY <1>7 DEF Rests, LockInv, NoFile
<1>8. CASE Steals(c)
  BY <1>8, RemovesTheDead DEF Steals, LockInv, NoFile
<1>9. CASE Reopens(c)
  <2>1. CASE file = NoFile BY <1>9, <2>1, CreatingKeeps DEF Reopens
  <2>2. CASE file # NoFile BY <1>9, <2>2 DEF Reopens, LockInv
  <2> QED BY <2>1, <2>2
<1>10. CASE Releases(c)
  BY <1>10, OneInside DEF Releases, LockInv, NoFile
<1>11. CASE Dies(c) BY <1>11 DEF Dies, LockInv, NoFile
<1>12. CASE Expires(c) BY <1>12 DEF Expires, LockInv, NoFile
<1>13. QED BY <1>1, <1>2, <1>3, <1>4, <1>5, <1>6, <1>7, <1>8, <1>9, <1>10, <1>11, <1>12 DEF LockSteps

LEMMA GrowingOldKeeps ==
  ASSUME LockInv, GrowsOld({})
  PROVE  LockInv'
BY ClientAssumption DEF GrowsOld, LockInv, Inside, Dead, NoFile

\* A step inside the lock, or on the way out of it.
LEMMA InsideKeeps ==
  ASSUME LockInv, NEW S, at \in [Client -> S], NEW c \in Client, Inside(c),
         NEW s, s \notin Outside, at' = [at EXCEPT ![c] = s], UNCHANGED <<file, due>>
  PROVE  LockInv'
BY DEF LockInv, Inside, Outside, Dead, Waiting, Over

-----------------------------------------------------------------------------
(* No patch is lost: what a client is about to write grew from what is in    *)
(* the file, because nobody else is inside the lock to replace it.           *)

PatchInv ==
  /\ ReadersInv /\ LockInv
  /\ \A c \in Client : at[c] \in {"write", "rename"} => base[c] = disk.keys

\* A step from inside the lock that reads, writes, renames or fails.
LEMMA PatchingKeeps ==
  ASSUME PatchInv, NEW c \in Client, Reads(c) \/ Writes(c) \/ Renames(c) \/ SaveFails(c)
  PROVE  PatchInv' /\ disk.keys \subseteq disk'.keys
<1>1. ReadersInv' /\ at \in [Client -> Standing]
  BY SavingKeeps DEF PatchInv, ReadersInv
<1>2. PICK s \in {"write", "rename", "release"} :
        at' = [at EXCEPT ![c] = s] /\ UNCHANGED <<file, due>>
  BY DEF Reads, Writes, Renames, SaveFails, Moves
<1>3. Inside(c) /\ s \notin Outside
  BY <1>2 DEF Reads, Writes, Renames, SaveFails, Moves, Inside, Outside, Waiting, Over
<1>4. LockInv'
  BY <1>1, <1>2, <1>3, InsideKeeps DEF PatchInv
<1>5. \A d \in Client : at[d] \in {"write", "rename"} => Inside(d)
  BY DEF Inside, Outside, Waiting, Over
<1>6. \A d \in Client \ {c} : at[d] \notin {"write", "rename"} /\ at'[d] = at[d]
  BY <1>1, <1>2, <1>3, <1>5, OneInside DEF PatchInv
<1>7. CASE Reads(c)
  <2>1. disk' = disk /\ base'[c] = disk.keys
    BY <1>7 DEF Reads, PatchInv, ReadersInv, CredentialsSurvive
  <2> QED
    BY <1>1, <1>4, <1>6, <2>1 DEF PatchInv
<1>8. CASE Writes(c) \/ SaveFails(c)
  <2>1. disk' = disk /\ base' = base /\ (at'[c] \in {"write", "rename"} => at[c] = "write")
    BY <1>1, <1>8 DEF Writes, SaveFails, Moves
  <2> QED
    BY <1>1, <1>4, <1>6, <2>1 DEF PatchInv
<1>9. CASE Renames(c)
  <2>1. /\ at[c] = "rename" /\ at'[c] = "release" /\ base' = base
        /\ disk'.keys = base[c] \cup {c}
    BY <1>1, <1>9 DEF Renames, Moves
  <2> QED
    BY <1>1, <1>4, <1>6, <2>1 DEF PatchInv
<1> QED
  BY <1>7, <1>8, <1>9

LEMMA PatchStep ==
  ASSUME PatchInv, OneBesideTheDead, [StoreNext]_storeVars
  PROVE  PatchInv' /\ disk.keys \subseteq disk'.keys
<1>1. at \in [Client -> Standing] /\ ReadersInv'
  BY StoreStepKeeps DEF PatchInv, ReadersInv
<1>2. ASSUME UNCHANGED <<disk, base>>, LockInv',
             \A c \in Client : at'[c] \in {"write", "rename"} => at[c] \in {"write", "rename"}
      PROVE  PatchInv' /\ disk.keys \subseteq disk'.keys
  BY <1>1, <1>2 DEF PatchInv
<1>3. ASSUME NEW c \in Client, UNCHANGED configVars,
             Asks(c) \/ LockSteps(c) \/ Releases(c) \/ Dies(c) \/ Expires(c)
      PROVE  PatchInv' /\ disk.keys \subseteq disk'.keys
  <2>1. LockInv'
    BY <1>1, <1>3, LockStepKeeps DEF PatchInv
  <2>2. \A d \in Client : at'[d] \in {"write", "rename"} => at[d] \in {"write", "rename"}
    BY <1>1, <1>3 DEF Asks, LockSteps, Releases, Dies, Expires, Opens, Stamps, Looks,
       Stats, Unlinks, Rests, Steals, Reopens, Moves
  <2> QED
    BY <1>2, <1>3, <2>1, <2>2 DEF configVars
<1>4. ASSUME NEW c \in Client, StoreStep(c)
      PROVE  PatchInv' /\ disk.keys \subseteq disk'.keys
  BY <1>3, <1>4, PatchingKeeps DEF StoreStep
<1>5. CASE GrowsOld({}) /\ UNCHANGED configVars
  BY <1>2, <1>5, GrowingOldKeeps DEF GrowsOld, configVars, PatchInv
<1>6. CASE UNCHANGED storeVars
  <2>1. LockInv'
    BY <1>6 DEF storeVars, lockVars, PatchInv, LockInv, Inside, Dead
  <2> QED
    BY <1>2, <1>6, <2>1 DEF storeVars, lockVars, configVars
<1> QED
  BY <1>4, <1>5, <1>6 DEF StoreNext

\* Concurrent patches never lose updates, among any number of processes that stay
\* alive and among two of which any may die.  (Among three with a death they do:
\* the run config_steal shows how.)
THEOREM PatchesStay ==
  ASSUME OneBesideTheDead
  PROVE  StoreSpec => NoLostUpdate
<1>1. StoreInit => PatchInv
  BY StoreStarts, LockStarts DEF StoreInit, LockInit, PatchInv
<1>2. PatchInv /\ [StoreNext]_storeVars => PatchInv'
  BY PatchStep
<1>3. PatchInv /\ [StoreNext]_storeVars => [disk.keys \subseteq disk'.keys]_disk
  BY PatchStep
<1> QED
  BY <1>1, <1>2, <1>3, PTL DEF StoreSpec, NoLostUpdate

-----------------------------------------------------------------------------
(* A refresh spends a token once.  The token in the record is good, or it is *)
(* known that its successor was lost, or the client inside the lock has its  *)
(* successor in hand; and the client inside works on the token in the record.*)

Refreshing == {"exchange", "answer", "persist", "clear"}

CredStanding == Standing \cup Refreshing

CredTypes ==
  /\ at \in [Client -> CredStanding] /\ credential \in Nat /\ issued \in 0..MaxToken
  /\ usable \subseteq 1..issued /\ orphaned \subseteq Nat /\ copied \in Nat
  /\ read \in [Client -> Nat] /\ answer \in [Client -> Nat]

\* The provider takes the token, or it is known why it does not.
Accounted(k) == k \in usable \cup orphaned

SuccessorInHand(c, k) ==
  at[c] \in {"answer", "persist"} /\ read[c] = k /\ answer[c] \in usable

RecordOK ==
  credential \notin {0, Pasted} => Accounted(credential) \/ \E c \in Client : SuccessorInHand(c, credential)

RefreshOK ==
  \A c \in Client :
    /\ at[c] \in Refreshing => unlocked \/ credential = read[c]
    /\ at[c] = "exchange" => Accounted(read[c])
    /\ at[c] = "answer" =>
         answer[c] \in usable \/ (answer[c] \in {Refused, Lost} /\ read[c] \in orphaned)
    /\ at[c] = "persist" => answer[c] \in usable
    /\ at[c] = "clear" => read[c] \in orphaned

CredInv == LockInv /\ CredTypes /\ RecordOK /\ RefreshOK

LEMMA CredStarts == CredInit => CredInv
<1> SUFFICES ASSUME CredInit PROVE CredInv
  OBVIOUS
<1>1. LockInv
  BY LockStarts DEF CredInit
<1>2. CredTypes
  BY MaxTokenAssumption DEF CredInit, LockInit, CredTypes, CredStanding, Standing, Over,
     Refused, NoCopy
<1> QED
  BY <1>1, <1>2 DEF CredInit, LockInit, CredInv, RecordOK, RefreshOK, Accounted, Refreshing

\* A step that leaves the record and the provider alone, and brings nobody to
\* refresh.
LEMMA NobodyRefreshes ==
  ASSUME CredInv, LockInv', UNCHANGED credVars, at' \in [Client -> CredStanding],
         \A c \in Client : at'[c] # at[c] =>
           at[c] \notin Refreshing /\ at'[c] \notin Refreshing
  PROVE  CredInv'
<1>1. \A c \in Client : at'[c] \in Refreshing \/ at[c] \in Refreshing => at'[c] = at[c]
  OBVIOUS
<1>2. CredTypes'
  BY DEF CredInv, CredTypes, credVars
<1>3. RecordOK'
  BY <1>1 DEF CredInv, RecordOK, Accounted, SuccessorInHand, credVars, Refreshing
<1>4. RefreshOK'
  BY <1>1 DEF CredInv, RefreshOK, Accounted, credVars, Refreshing
<1> QED
  BY <1>2, <1>3, <1>4 DEF CredInv

\* Nobody but the client inside refreshes.
LEMMA OnlyInside ==
  ASSUME CredInv, NEW c \in Client, Inside(c)
  PROVE  \A d \in Client \ {c} : at[d] \notin Refreshing \cup {"held", "stamp"}
<1>1. \A d \in Client : at[d] \in Refreshing \cup {"held", "stamp"} => Inside(d)
  BY DEF Inside, Outside, Waiting, Over, Refreshing
<1> QED
  BY <1>1, OneInside DEF CredInv

\* A step of the client inside: what it must do for the invariant to be kept.
LEMMA InsideRefreshes ==
  ASSUME CredInv, NEW c \in Client, Inside(c), NEW s, at' = [at EXCEPT ![c] = s],
         s \in Refreshing \cup {"release"}, UNCHANGED <<file, due>>,
         credential' \in Nat, copied' \in Nat, issued' \in 0..MaxToken, usable' \subseteq 1..issued',
         orphaned' \subseteq Nat, read' \in [Client -> Nat], answer' \in [Client -> Nat],
         RecordOK',
         /\ at'[c] \in Refreshing => unlocked' \/ credential' = read'[c]
         /\ at'[c] = "exchange" => Accounted(read[c])'
         /\ at'[c] = "answer" =>
              \/ answer'[c] \in usable'
              \/ answer'[c] \in {Refused, Lost} /\ read'[c] \in orphaned'
         /\ at'[c] = "persist" => answer'[c] \in usable'
         /\ at'[c] = "clear" => read'[c] \in orphaned'
  PROVE  CredInv'
<1>1. s \notin Outside /\ s \in CredStanding
  BY DEF Outside, Waiting, Over, Refreshing, CredStanding, Standing
<1>2. LockInv' /\ at' \in [Client -> CredStanding]
  BY <1>1, InsideKeeps DEF CredInv, CredTypes
<1>3. \A d \in Client \ {c} : at'[d] \notin Refreshing
  BY OnlyInside DEF CredInv, CredTypes
<1>4. RefreshOK'
  BY <1>3 DEF RefreshOK, Refreshing
<1> QED
  BY <1>2, <1>4 DEF CredInv, CredTypes

LEMMA StartsRefresh ==
  ASSUME CredInv, NEW c \in Client, ReadsRecord(c)
  PROVE  CredInv'
<1> DEFINE s == IF credential \in {0, Pasted} \/ credential \notin expired THEN "release" ELSE "exchange"
<1>1. /\ at[c] = "held" /\ at' = [at EXCEPT ![c] = s] /\ s \in Refreshing \cup {"release"}
      /\ at'[c] = s /\ Inside(c) /\ read' = [read EXCEPT ![c] = credential]
      /\ read'[c] = credential
  BY DEF ReadsRecord, Moves, Inside, Outside, Waiting, Over, Refreshing, CredInv, CredTypes
<1>2. UNCHANGED <<file, due, credential, expired, usable, issued, answer, copied, orphaned>>
  BY DEF ReadsRecord
<1>3. \A d \in Client : ~SuccessorInHand(d, credential)
  BY <1>1, OnlyInside DEF SuccessorInHand, Refreshing
<1>4. credential \notin {0, Pasted} => Accounted(credential)'
  BY <1>2, <1>3 DEF CredInv, RecordOK, Accounted
<1>5. RecordOK'
  BY <1>2, <1>4 DEF RecordOK
<1> QED
  BY <1>1, <1>2, <1>4, <1>5, InsideRefreshes DEF CredInv, CredTypes

LEMMA ExchangeKeeps ==
  ASSUME CredInv, NEW c \in Client, Exchanges(c)
  PROVE  CredInv'
<1>1. /\ at[c] = "exchange" /\ at' = [at EXCEPT ![c] = "answer"] /\ at'[c] = "answer"
      /\ "answer" \in Refreshing \cup {"release"} /\ Inside(c)
      /\ UNCHANGED <<file, due, credential, read, copied, unlocked>>
  BY DEF Exchanges, Moves, Inside, Outside, Waiting, Over, Refreshing, CredInv, CredTypes
<1>2. /\ (unlocked \/ credential = read[c]) /\ Accounted(read[c]) /\ CredTypes
      /\ Lost \in Nat /\ Refused \in Nat
  BY <1>1, MaxTokenAssumption DEF CredInv, RefreshOK, Refreshing, Lost, Refused
<1>3. credential \notin {0, Pasted} => Accounted(credential)
  <2>1. \A d \in Client : ~SuccessorInHand(d, credential)
    BY <1>1, OnlyInside DEF SuccessorInHand, Refreshing
  <2> QED
    BY <2>1 DEF CredInv, RecordOK
<1>4. CASE read[c] \in usable
  <2>1. /\ issued' = issued + 1 /\ issued' \in 0..MaxToken /\ issued' \in Nat
        /\ usable' = (usable \ {read[c]}) \cup {issued'} /\ usable' \subseteq 1..issued'
    <3>1. /\ issued' = issued + 1 /\ issued < MaxToken
          /\ usable' = (usable \ {read[c]}) \cup {issued'}
      BY <1>4 DEF Exchanges
    <3>2. /\ issued \in 0..MaxToken /\ usable \subseteq 1..issued
          /\ MaxToken \in Nat
      BY <1>2, MaxTokenAssumption DEF CredTypes
    <3>3. issued' \in 0..MaxToken /\ issued' \in Nat
      BY <3>1, <3>2
    <3>4. 1..issued \subseteq 1..issued' /\ issued' \in 1..issued'
      BY <3>1, <3>2
    <3>5. usable' \subseteq 1..issued'
      BY <3>1, <3>2, <3>4, Zenon
    <3> QED
      BY <3>1, <3>3, <3>5
  <2>2. CASE answer' = [answer EXCEPT ![c] = issued'] /\ UNCHANGED orphaned
    <3>1. answer'[c] \in usable' /\ answer' \in [Client -> Nat]
      BY <1>2, <2>1, <2>2 DEF CredTypes
    <3>3. RecordOK'
      <4>1. CASE credential = read[c]
        BY <1>1, <1>2, <3>1, <4>1 DEF RecordOK, SuccessorInHand, CredTypes
      <4>2. CASE credential # read[c]
        BY <1>1, <1>3, <2>1, <2>2, <4>2 DEF RecordOK, Accounted
      <4> QED
        BY <4>1, <4>2
    <3> QED
      BY <1>1, <1>2, <2>1, <2>2, <3>1, <3>3, InsideRefreshes DEF CredTypes
  <2>3. CASE answer' = [answer EXCEPT ![c] = Lost] /\ orphaned' = orphaned \cup {read[c]}
    <3>1. answer'[c] = Lost /\ read'[c] \in orphaned' /\ answer' \in [Client -> Nat]
          /\ orphaned' \subseteq Nat
      BY <1>1, <1>2, <2>3 DEF CredTypes
    <3>2. RecordOK'
      <4>1. CASE credential = read[c]
        BY <1>1, <3>1, <4>1 DEF RecordOK, Accounted
      <4>2. CASE credential # read[c]
        BY <1>1, <1>3, <2>1, <2>3, <4>2 DEF RecordOK, Accounted
      <4> QED
        BY <4>1, <4>2
    <3> QED
      BY <1>1, <1>2, <2>1, <3>1, <3>2, InsideRefreshes DEF CredTypes
  <2> QED
    BY <1>4, <2>2, <2>3 DEF Exchanges
<1>5. CASE read[c] \notin usable
  <2>1. /\ answer' = [answer EXCEPT ![c] = Refused] /\ UNCHANGED <<issued, usable, orphaned>>
        /\ answer'[c] = Refused /\ answer' \in [Client -> Nat] /\ read[c] \in orphaned
    BY <1>2, <1>5 DEF Exchanges, Accounted, CredTypes
  <2>2. RecordOK'
    BY <1>1, <1>3, <2>1 DEF RecordOK, Accounted
  <2> QED
    BY <1>1, <1>2, <2>1, <2>2, InsideRefreshes DEF CredTypes
<1> QED
  BY <1>4, <1>5

LEMMA AnswerKeeps ==
  ASSUME CredInv, NEW c \in Client, Answered(c)
  PROVE  CredInv'
<1> DEFINE s == CASE answer[c] = Refused -> "clear"
                  [] answer[c] = Lost -> "release"
                  [] OTHER -> "persist"
<1>1. /\ at[c] = "answer" /\ at' = [at EXCEPT ![c] = s] /\ at'[c] = s /\ Inside(c)
      /\ s \in Refreshing \cup {"release"} /\ UNCHANGED <<file, due, credVars>>
  BY DEF Answered, Moves, Inside, Outside, Waiting, Over, Refreshing, CredInv, CredTypes
<1>2. /\ answer[c] \in usable \/ (answer[c] \in {Refused, Lost} /\ read[c] \in orphaned)
      /\ CredTypes /\ RecordOK /\ (unlocked \/ credential = read[c])
  BY <1>1 DEF CredInv, RefreshOK, Refreshing
<1>3. Refused \notin usable /\ Lost \notin usable /\ Refused # Lost
  BY <1>2, MaxTokenAssumption DEF CredTypes, Refused, Lost
<1>4. /\ s = "persist" => answer[c] \in usable
      /\ s = "clear" => read[c] \in orphaned
      /\ s = "release" => read[c] \in orphaned
      /\ s \in {"clear", "release", "persist"}
  BY <1>2, <1>3
<1> HIDE DEF s
<1>5. RecordOK'
  <2>1. ASSUME NEW d \in Client, SuccessorInHand(d, credential)
        PROVE  SuccessorInHand(d, credential)'
    <3>1. d = c
      BY <1>1, <2>1, OnlyInside DEF SuccessorInHand, Refreshing
    <3>2. s = "persist"
      BY <1>2, <1>3, <1>4, <2>1, <3>1 DEF SuccessorInHand, s
    <3> QED
      BY <1>1, <2>1, <3>1, <3>2 DEF SuccessorInHand, credVars
  <2> QED
    BY <1>1, <1>2, <2>1 DEF RecordOK, Accounted, credVars
<1> QED
  BY <1>1, <1>2, <1>4, <1>5, InsideRefreshes DEF CredTypes, credVars

\* A new token is recorded, or the record is removed.
LEMMA RecordsKeep ==
  ASSUME CredInv, NEW c \in Client, Persists(c) \/ Clears(c) \/ LogsIn(c)
  PROVE  CredInv'
<1>1. /\ at[c] \in {"persist", "clear", "held"} /\ at' = [at EXCEPT ![c] = "release"]
      /\ at'[c] = "release" /\ Inside(c) /\ "release" \in Refreshing \cup {"release"}
      /\ UNCHANGED <<file, due, read, answer, copied, orphaned>> /\ CredTypes
  BY DEF Persists, Clears, LogsIn, Moves, Inside, Outside, Waiting, Over, Refreshing,
     CredInv, CredTypes
<1>2. ASSUME credential' \in Nat, issued' \in 0..MaxToken, usable' \subseteq 1..issued',
             credential' # 0 => credential' \in usable'
      PROVE  CredInv'
  <2>1. RecordOK'
    BY <1>2 DEF RecordOK, Accounted
  <2> QED
    BY <1>1, <1>2, <2>1, InsideRefreshes DEF CredTypes, Refreshing
<1>3. CASE Persists(c)
  <2>1. answer[c] \in usable /\ credential' = answer[c] /\ UNCHANGED <<usable, issued>>
    BY <1>3 DEF Persists, Moves, CredInv, RefreshOK
  <2> QED
    BY <1>1, <1>2, <2>1 DEF CredTypes
<1>4. CASE Clears(c)
  <2>1. credential' = 0 /\ UNCHANGED <<usable, issued>>
    BY <1>4 DEF Clears
  <2> QED
    BY <1>1, <1>2, <2>1 DEF CredTypes
<1>5. CASE LogsIn(c)
  <2>1. /\ issued' = issued + 1 /\ usable' = usable \cup {issued'} /\ credential' = issued'
        /\ issued < MaxToken
    BY <1>5 DEF LogsIn
  <2>2. issued' \in 0..MaxToken /\ issued' \in Nat /\ usable' \subseteq 1..issued'
    BY <1>1, <2>1, MaxTokenAssumption DEF CredTypes
  <2> QED
    BY <1>2, <2>1, <2>2
<1> QED
  BY <1>3, <1>4, <1>5

\* A process that dies with an unstored answer takes the token with it.
LEMMA DeathKeeps ==
  ASSUME CredInv, OneBesideTheDead, NEW c \in Client, DiesHolding(c)
  PROVE  CredInv'
<1>1. /\ at' = [at EXCEPT ![c] = "crashed"] /\ at'[c] = "crashed"
      /\ UNCHANGED <<credential, expired, usable, issued, read, answer, copied, unlocked>>
      /\ CredTypes /\ at' \in [Client -> CredStanding]
      /\ orphaned \subseteq orphaned' /\ orphaned' \subseteq Nat
  BY DEF DiesHolding, Dies, CredInv, CredTypes, CredStanding, Standing, Over
<1>2. LockInv'
  BY <1>1, LockStepKeeps DEF DiesHolding, CredInv, CredTypes
<1>3. RefreshOK'
  BY <1>1 DEF CredInv, CredTypes, RefreshOK, Accounted, Refreshing
<1>4. RecordOK'
  <2>1. SUFFICES ASSUME credential \notin {0, Pasted}
                 PROVE  \/ Accounted(credential)'
                        \/ \E d \in Client : SuccessorInHand(d, credential)'
    BY <1>1 DEF RecordOK
  <2>2. CASE Accounted(credential)
    BY <1>1, <2>2 DEF Accounted
  <2>3. CASE SuccessorInHand(c, credential)
    <3>1. answer[c] \in 1 .. MaxToken
      BY <1>1, <2>3, MaxTokenAssumption DEF SuccessorInHand, CredTypes
    <3>2. credential \in orphaned'
      BY <2>3, <3>1 DEF DiesHolding, SuccessorInHand
    <3> QED
      BY <1>1, <3>2 DEF Accounted
  <2>4. ASSUME NEW d \in Client \ {c}, SuccessorInHand(d, credential)
        PROVE  SuccessorInHand(d, credential)'
    BY <1>1, <2>4 DEF SuccessorInHand, CredTypes
  <2> QED
    BY <2>1, <2>2, <2>3, <2>4 DEF CredInv, RecordOK
<1> QED
  BY <1>1, <1>2, <1>3, <1>4 DEF CredInv, CredTypes

LEMMA CredStepKeeps ==
  ASSUME CredInv, OneBesideTheDead, Overstay = {}, [CredNext]_refreshVars
  PROVE  CredInv'
<1>1. at \in [Client -> CredStanding]
  BY DEF CredInv, CredTypes
<1>2. ASSUME NEW c \in Client, UNCHANGED credVars,
             Asks(c) \/ LockSteps(c) \/ Releases(c) \/ Expires(c)
      PROVE  CredInv'
  <2>1. LockInv'
    BY <1>1, <1>2, LockStepKeeps DEF CredInv
  <2>2. at' = at \/ \E s \in CredStanding \ Refreshing : at' = [at EXCEPT ![c] = s]
    BY <1>2 DEF Asks, LockSteps, Releases, Expires, Opens, Stamps, Looks, Stats, Unlinks,
       Rests, Steals, Reopens, Moves, CredStanding, Standing, Waiting, Over, Refreshing
  <2>3. at' # at => at[c] \notin Refreshing
    BY <1>2 DEF Asks, LockSteps, Releases, Expires, Opens, Stamps, Looks, Stats, Unlinks,
       Rests, Steals, Reopens, Moves, Refreshing
  <2> QED
    BY <1>1, <1>2, <2>1, <2>2, <2>3, NobodyRefreshes
<1>3. ASSUME NEW c \in Client, CredStep(c) PROVE CredInv'
  BY <1>2, <1>3, StartsRefresh, ExchangeKeeps, AnswerKeeps, RecordsKeep, DeathKeeps
     DEF CredStep
<1>4. CASE GrowsOld(Overstay) /\ UNCHANGED credVars
  BY <1>1, <1>4, GrowingOldKeeps, NobodyRefreshes DEF GrowsOld, CredInv
<1>5. CASE LogsOut \/ Pastes \/ SetupReads \/ SetupSaves \/ AccessExpires
  <2> USE DEF CredInv, CredTypes
  <2>1. Pasted \in Nat /\ NoCopy \in Nat
    BY MaxTokenAssumption DEF Pasted, NoCopy
  <2>2. UNCHANGED <<file, at, due, usable, issued, read, answer>>
    BY <1>5 DEF LogsOut, Pastes, SetupReads, SetupSaves, AccessExpires, lockVars
  <2>3. /\ credential' \in Nat /\ copied' \in Nat
        /\ orphaned \subseteq orphaned' /\ orphaned' \subseteq orphaned \cup {copied}
    BY <1>5, <2>1 DEF LogsOut, Pastes, SetupReads, SetupSaves, AccessExpires
  <2>4. orphaned' \subseteq Nat
    BY <2>3
  <2>5. LockInv' /\ CredTypes'
    BY <2>4, <2>2, <2>3 DEF LockInv, Inside, Dead
  <2>6. unlocked' \/ UNCHANGED <<credential, unlocked>>
    BY <1>5 DEF LogsOut, Pastes, SetupReads, SetupSaves, AccessExpires
  <2>7. RefreshOK'
    BY <2>6, <2>2, <2>3 DEF RefreshOK, Accounted
  <2>8. credential' = credential \/ credential' \in {0, Pasted} \cup usable \cup orphaned'
    BY <1>5 DEF LogsOut, Pastes, SetupReads, SetupSaves, AccessExpires
  <2>9. RecordOK'
    BY <2>8, <2>2, <2>3 DEF RecordOK, Accounted, SuccessorInHand
  <2> QED
    BY <2>5, <2>7, <2>9
<1>6. CASE UNCHANGED refreshVars
  <2>1. LockInv'
    BY <1>6 DEF refreshVars, lockVars, CredInv, LockInv, Inside, Dead
  <2> QED
    BY <1>1, <1>6, <2>1, NobodyRefreshes DEF refreshVars, lockVars
<1> QED
  BY <1>3, <1>4, <1>5, <1>6 DEF CredNext

\* Two processes that refresh at once never spend one token twice and log the user
\* out: for any number of processes and tokens, with logins, logouts and pasted tokens
\* at any time, provided that no living holder of the lock outlasts its threshold.
\* (One that does is the run refresh_overstay.)
THEOREM RefreshesApart ==
  ASSUME OneBesideTheDead, Overstay = {}
  PROVE  CredSpec => []NoSelfLogout
<1>1. CredInv /\ [CredNext]_refreshVars => CredInv'
  BY CredStepKeeps
<1>2. CredInv => NoSelfLogout
  BY DEF CredInv, RefreshOK, NoSelfLogout
<1> QED
  BY CredStarts, <1>1, <1>2, PTL DEF CredSpec

\* Under the same conditions a refresh removes or replaces only the record it has read,
\* or one that a logout or a pasted token left without the lock (refreshOAuthToken).
THEOREM ReplacesTheRead ==
  ASSUME OneBesideTheDead, Overstay = {}
  PROVE  CredSpec => FreshKept
<1>1. CredInv /\ [CredNext]_refreshVars => CredInv'
  BY CredStepKeeps
<1>2. CredInv /\ [CredNext]_refreshVars =>
        [\A c \in Client : at[c] \in {"clear", "persist"} /\ at'[c] = "release" =>
           unlocked \/ credential = read[c]]_refreshVars
  BY DEF CredInv, RefreshOK, Refreshing
<1> QED
  BY CredStarts, <1>1, <1>2, PTL DEF CredSpec, FreshKept

-----------------------------------------------------------------------------
(* The daemon lock has one owner.                                           *)

Reclaiming == {"inspect", "probe", "unlink", "relink", "won", "yield"}

States == {"idle", "guard", "stopping", "done", "dead"} \cup Owning \cup Reclaiming

\* Reclaiming is exclusive, and as long as no owner has let go between a reading and
\* its probe the owner is the process the record names, whoever asks about a record
\* asks about the one that is there, and whoever is about to unlink it faces one of a
\* dead process.
OwnerInv ==
  /\ daemonAt \in [Proc -> States] /\ sighted \in [Proc -> Daemon \cup {Nobody}]
  /\ lock \in Daemon \cup {Nobody} /\ released \in BOOLEAN
  /\ \A p \in Proc : daemonAt[p] \in Reclaiming => guard = p
  /\ released \/ \A d \in Owners : lock = d
  /\ released \/ \A p \in Proc : daemonAt[p] \in {"probe", "unlink"} => lock = sighted[p] /\ lock # Nobody
  /\ released \/ \A p \in Proc : daemonAt[p] = "unlink" => ~Living(lock)

USE DEF OwnerInv, Reclaiming, States, Owning, Owners, Living, Proc, Advances, daemonVars

\* Nothing has happened yet.
LEMMA OwnerInit == DaemonInit => OwnerInv
  BY DEF DaemonInit

\* Becoming the owner: the record changes only where there is none, and a reclaimer
\* removes only what a dead process left.
LEMMA BecomingKeeps ==
  ASSUME OwnerInv, NEW d \in Daemon,
         Links(d) \/ UnlinksOwner(d) \/ Relinks(d)
  PROVE  OwnerInv'
<1>1. CASE Links(d) BY <1>1, DistinctProcesses DEF Links
<1>2. CASE UnlinksOwner(d) BY <1>2, DistinctProcesses DEF UnlinksOwner
<1>3. CASE Relinks(d) BY <1>3, DistinctProcesses DEF Relinks
<1>4. QED BY <1>1, <1>2, <1>3

\* The owner's own steps: it marks or removes a record that is its own, and letting it
\* go under the eyes of a process that has read it is what the ghost remembers.
LEMMA OwningKeeps ==
  ASSUME OwnerInv, NEW d \in Daemon,
         ChecksMark(d) \/ MarksReady(d) \/ ChecksRelease(d) \/ Removes(d)
  PROVE  OwnerInv'
<1>1. CASE ChecksMark(d) BY <1>1, DistinctProcesses DEF ChecksMark
<1>2. CASE MarksReady(d) BY <1>2, DistinctProcesses DEF MarksReady
<1>3. CASE ChecksRelease(d) BY <1>3, DistinctProcesses DEF ChecksRelease
<1>4. CASE Removes(d) BY <1>4, DistinctProcesses DEF Removes
<1>5. QED BY <1>1, <1>2, <1>3, <1>4

\* A stop removes only the record of a dead process.
LEMMA StoppingKeeps ==
  ASSUME OwnerInv, NEW s \in Stopper, StopperStep(s)
  PROVE  OwnerInv'
<1>1. CASE StopReads(s) BY <1>1, DistinctProcesses DEF StopReads
<1>2. CASE StopWaits(s) BY <1>2, DistinctProcesses DEF StopWaits
<1>3. CASE StopUnlinks(s) BY <1>3, DistinctProcesses DEF StopUnlinks
<1>4. QED BY <1>1, <1>2, <1>3 DEF StopperStep

\* The reclaim file has one holder at a time, its holder reads and then asks, and a
\* death changes no record.
LEMMA GuardKeeps ==
  ASSUME OwnerInv, NEW p \in Proc, EitherStep(p)
  PROVE  OwnerInv'
<1>1. CASE TakesGuard(p) BY <1>1, DistinctProcesses DEF TakesGuard
<1>2. CASE ReadsOwner(p) BY <1>2, DistinctProcesses DEF ReadsOwner
<1>3. CASE ProbesOwner(p) BY <1>3, DistinctProcesses DEF ProbesOwner
<1>4. CASE LeavesGuard(p) BY <1>4, DistinctProcesses DEF LeavesGuard
<1>5. CASE DaemonDies(p) BY <1>5, DistinctProcesses DEF DaemonDies
<1>6. QED BY <1>1, <1>2, <1>3, <1>4, <1>5 DEF EitherStep

\* The invariant is inductive.
LEMMA OwnerStep == OwnerInv /\ [DaemonNext]_daemonVars => OwnerInv'
<1> SUFFICES ASSUME OwnerInv, [DaemonNext]_daemonVars PROVE OwnerInv'
  OBVIOUS
<1>1. ASSUME NEW d \in Daemon, DaemonStep(d) PROVE OwnerInv'
  BY <1>1, BecomingKeeps, OwningKeeps DEF DaemonStep
<1>2. ASSUME NEW s \in Stopper, StopperStep(s) PROVE OwnerInv'
  BY <1>2, StoppingKeeps
<1>3. ASSUME NEW p \in Proc, EitherStep(p) PROVE OwnerInv'
  BY <1>3, GuardKeeps
<1>4. CASE UNCHANGED daemonVars
  BY <1>4
<1>5. QED BY <1>1, <1>2, <1>3, <1>4 DEF DaemonNext

\* For any numbers of daemons and stops, with deaths between any two steps, no two
\* processes own the lock at once, unless an owner has let it go between another
\* process's reading its record and asking whether it lives (acquireDaemonLock).
THEOREM OneOwnerUntilReleased == DaemonSpec => []OneOwnerUnlessReleased
<1>1. OwnerInv => OneOwnerUnlessReleased
  BY DEF OneOwnerUnlessReleased
<1>2. QED BY OwnerInit, OwnerStep, <1>1, PTL DEF DaemonSpec

-----------------------------------------------------------------------------
(* The transcript of a session: its lines in their order                   *)

\* A set of numbers has a least one, and a largest one if it has a bound.
LEMMA LeastNumber ==
  ASSUME NEW T \in SUBSET Nat, T # {}
  PROVE  \E x \in T : \A y \in T : x <= y
<1>1. PICK x \in T : \A y \in T : ~(<<y, x>> \in OpToRel(<, Nat))
  BY WFMin, NatLessThanWellFounded
<1>2. \A y \in T : ~(y < x)
  BY <1>1 DEF OpToRel
<1>3. QED BY <1>2

LEMMA LargestNumber ==
  ASSUME NEW n \in Nat, NEW T \in SUBSET (0 .. n), T # {}
  PROVE  Max(T) \in T
<1> DEFINE U == {n - x : x \in T}
<1>1. U \in SUBSET Nat /\ U # {}
  <2>1. \A x \in T : x \in Nat /\ x <= n
    OBVIOUS
  <2>2. \A x \in T : n - x \in Nat
    BY <2>1
  <2>3. QED BY <2>2
<1>2. PICK u \in U : \A v \in U : u <= v
  BY <1>1, LeastNumber
<1>3. PICK x \in T : u = n - x
  BY <1>2
<1>4. \A y \in T : n - x <= n - y
  BY <1>2, <1>3
<1>5. \A y \in T : x >= y
  BY <1>4
<1>6. QED BY <1>5 DEF Max

\* The number of places before one of some places of a sequence, and the place it leads to.
Before(places, i) == Cardinality({j \in places : j < i})
Nth(places, n) == CHOOSE i \in places : Before(places, i) = n - 1

LEMMA BeforeRises ==
  ASSUME NEW m \in Nat, NEW places \in SUBSET (1 .. m)
  PROVE  /\ IsFiniteSet(places) /\ Cardinality(places) \in Nat
         /\ \A i \in places : Before(places, i) \in 0 .. Cardinality(places) - 1
         /\ \A i, k \in places : i < k => Before(places, i) < Before(places, k)
<1>1. IsFiniteSet(places) /\ Cardinality(places) \in Nat
  <2>1. IsFiniteSet(1 .. m)
    BY FS_Interval
  <2>2. QED BY <2>1, FS_Subset, FS_CardinalityType
<1>2. \A i : /\ IsFiniteSet({j \in places : j < i}) /\ Before(places, i) \in Nat
             /\ Before(places, i) <= Cardinality(places)
  BY <1>1, FS_Subset, FS_CardinalityType DEF Before
<1>3. ASSUME NEW i \in places PROVE Before(places, i) \in 0 .. Cardinality(places) - 1
  <2>1. i \notin {j \in places : j < i} /\ {j \in places : j < i} \in SUBSET places
    OBVIOUS
  <2>2. Before(places, i) # Cardinality(places)
    BY <1>1, <2>1, FS_Subset DEF Before
  <2>3. PICK b \in Nat : b = Before(places, i)
    BY <1>2
  <2>4. PICK c \in Nat : c = Cardinality(places)
    BY <1>1
  <2>5. b <= c /\ b # c
    BY <1>2, <2>2, <2>3, <2>4
  <2>6. QED BY <2>3, <2>4, <2>5
<1>4. ASSUME NEW i \in places, NEW k \in places, i < k
      PROVE  Before(places, i) < Before(places, k)
  <2> DEFINE lower == {j \in places : j < i}
             upper == {j \in places : j < k}
  <2>1. lower \in SUBSET upper /\ i \in upper /\ i \notin lower
    <3>1. i \in Nat /\ k \in Nat /\ \A j \in places : j \in Nat
      OBVIOUS
    <3>2. \A j \in places : j < i => j < k
      BY <1>4, <3>1
    <3>3. lower \subseteq upper
      BY <3>2
    <3>4. i \in upper /\ i \notin lower
      BY <1>4, <3>1
    <3>5. QED BY <3>3, <3>4
  <2>2. IsFiniteSet(upper)
    BY <1>2
  <2>3. Cardinality(lower) <= Cardinality(upper) /\ Cardinality(lower) # Cardinality(upper)
    BY <2>1, <2>2, FS_Subset
  <2>4. QED BY <1>2, <2>3 DEF Before
<1>5. QED BY <1>1, <1>3, <1>4

\* What is picked is what stands in these places, each once, in their order.
LEMMA NthPlaces ==
  ASSUME NEW m \in Nat, NEW places \in SUBSET (1 .. m)
  PROVE  /\ Cardinality(places) \in Nat
         /\ \A n \in 1 .. Cardinality(places) : Nth(places, n) \in places
         /\ \A n, k \in 1 .. Cardinality(places) : n < k => Nth(places, n) < Nth(places, k)
         /\ \A i \in places : \E n \in 1 .. Cardinality(places) : Nth(places, n) = i
<1> DEFINE size == Cardinality(places)
           rank == [i \in places |-> Before(places, i)]
<1>1. /\ IsFiniteSet(places) /\ size \in Nat
      /\ \A i \in places : Before(places, i) \in 0 .. size - 1
      /\ \A i, k \in places : i < k => Before(places, i) < Before(places, k)
  BY BeforeRises
<1>2. \A i, k \in places : Before(places, i) = Before(places, k) => i = k
  <2> SUFFICES ASSUME NEW i \in places, NEW k \in places, Before(places, i) = Before(places, k)
               PROVE  i = k
    OBVIOUS
  <2>1. ~(i < k) /\ ~(k < i)
    BY <1>1
  <2>2. QED BY <2>1
<1>3. rank \in Injection(places, 0 .. size - 1)
  BY <1>1, <1>2 DEF Injection, IsInjective
<1>4. IsFiniteSet(0 .. size - 1) /\ Cardinality(0 .. size - 1) = size
  BY <1>1, FS_Interval
<1>5. rank \in Surjection(places, 0 .. size - 1)
  BY <1>1, <1>3, <1>4, FS_Injection
<1>6. \A n \in 0 .. size - 1 : \E i \in places : Before(places, i) = n
  BY <1>5 DEF Surjection
<1>7. ASSUME NEW n \in 1 .. size
      PROVE  Nth(places, n) \in places /\ Before(places, Nth(places, n)) = n - 1
  <2>1. n - 1 \in 0 .. size - 1
    BY <1>1
  <2>2. \E i \in places : Before(places, i) = n - 1
    BY <1>6, <2>1
  <2>3. QED BY <2>2 DEF Nth
<1>8. ASSUME NEW n \in 1 .. size, NEW k \in 1 .. size, n < k
      PROVE  Nth(places, n) < Nth(places, k)
  <2>1. PICK i \in places : i = Nth(places, n) /\ Before(places, i) = n - 1
    BY <1>7
  <2>2. PICK j \in places : j = Nth(places, k) /\ Before(places, j) = k - 1
    BY <1>7
  <2>3. ~(j < i) /\ j # i
    BY <1>1, <1>8, <2>1, <2>2
  <2>4. QED BY <2>1, <2>2, <2>3
<1>9. ASSUME NEW i \in places PROVE \E n \in 1 .. size : Nth(places, n) = i
  <2>1. PICK n \in 1 .. size : n = Before(places, i) + 1
    BY <1>1
  <2>2. PICK k \in places : k = Nth(places, n) /\ Before(places, k) = n - 1
    BY <1>7
  <2>3. Before(places, k) = Before(places, i)
    BY <1>1, <2>1, <2>2
  <2>4. k = i
    BY <1>2, <2>3
  <2>5. QED BY <2>2, <2>4
<1>10. QED BY <1>1, <1>7, <1>8, <1>9

LEMMA PickedPlaces ==
  ASSUME NEW lines, NEW places
  PROVE  Picked(lines, places) = [n \in 1 .. Cardinality(places) |-> lines[Nth(places, n)]]
BY DEF Picked, Nth, Before

-----------------------------------------------------------------------------
(* The transcript of a session: the invariant                              *)

Items == [summary : BOOLEAN, says : SUBSET Nat]
LineSet == [kind : {"message", "compaction"}, item : Items, through : Nat, parses : BOOLEAN]

SessionTypes ==
  /\ history \in Seq(Items) /\ transcript \in Seq(LineSet) /\ torn \in BOOLEAN
  /\ persisted \in Nat /\ spoken \in Nat /\ faults \in Nat

\* How much of the history is not in the file, and the last message that was due there.
Tail1 == IF phase = "turn" THEN Len(history) - persisted ELSE 0
Due == spoken - Tail1

TailOK ==
  /\ Tail1 \in 0 .. spoken /\ (phase = "turn" => persisted <= Len(history))
  /\ \A i \in 1 .. Tail1 : history[persisted + i] = Said(Due + i)

\* A whole line of a message says one of the messages up to n, and later lines later ones.
NumberedTo(lines, n) ==
  \A i \in Whole(lines, "message") : \E m \in 1 .. n : lines[i].item = Said(m)
Rising(lines) ==
  \A i, j \in Whole(lines, "message") :
    i < j => \A m \in lines[i].item.says, k \in lines[j].item.says : m < k
Written(lines) == UNION {lines[i].item.says : i \in Whole(lines, "message")}

\* Every message that was due and is missing, and every fragment, is the work of a fault.
Missing(n, gone, lines) == ((1 .. n) \ gone) \ Written(lines)
Covered(n, gone, lines, fragment, count) ==
  Cardinality(Missing(n, gone, lines)) + (IF fragment THEN 1 ELSE 0) <= count

SessionInv ==
  /\ SessionTypes /\ TailOK
  /\ NumberedTo(transcript, Due) /\ Rising(transcript)
  /\ Covered(Due, lost, transcript, torn, faults)

\* The file with more lines, which say later messages.
LEMMA LinesGrow ==
  ASSUME NEW lines \in Seq(LineSet), NEW new \in Seq(LineSet), NEW n \in Nat, NEW n2 \in Nat, n <= n2,
         NumberedTo(lines, n), Rising(lines),
         \A i \in DOMAIN new : new[i].kind = "message" => new[i].item = Said(n + i) /\ n + i <= n2,
         NEW longer, longer = lines \o new
  PROVE  /\ longer \in Seq(LineSet) /\ NumberedTo(longer, n2) /\ Rising(longer)
         /\ Written(longer) = Written(lines) \cup Written(new)
<1>1. /\ Len(lines) \in Nat /\ DOMAIN lines = 1 .. Len(lines)
      /\ Len(new) \in Nat /\ DOMAIN new = 1 .. Len(new)
  OBVIOUS
<1>2. /\ longer \in Seq(LineSet) /\ Len(longer) = Len(lines) + Len(new)
      /\ DOMAIN longer = 1 .. Len(lines) + Len(new)
      /\ \A i \in 1 .. Len(lines) : longer[i] = lines[i]
      /\ \A i \in 1 .. Len(new) : longer[Len(lines) + i] = new[i]
  BY <1>1
<1>3. PICK len \in Nat : len = Len(lines)
  BY <1>1
<1>4. PICK more \in Nat : more = Len(new)
  BY <1>1
<1>5. /\ \A i \in Whole(lines, "message") : i \in 1 .. len /\ i \in Whole(longer, "message")
      /\ \A i \in Whole(new, "message") : i \in 1 .. more /\ len + i \in Whole(longer, "message")
  <2>1. ASSUME NEW i \in Whole(lines, "message")
        PROVE  i \in 1 .. len /\ i \in Whole(longer, "message")
    <3>1. i \in 1 .. len /\ lines[i].kind = "message" /\ lines[i].parses
      BY <1>1, <1>3 DEF Whole
    <3>2. i \in DOMAIN longer /\ longer[i] = lines[i]
      BY <1>2, <1>3, <1>4, <3>1
    <3>3. QED BY <3>1, <3>2 DEF Whole
  <2>2. ASSUME NEW i \in Whole(new, "message")
        PROVE  i \in 1 .. more /\ len + i \in Whole(longer, "message")
    <3>1. i \in 1 .. more /\ new[i].kind = "message" /\ new[i].parses
      BY <1>1, <1>4 DEF Whole
    <3>2. len + i \in DOMAIN longer /\ longer[len + i] = new[i]
      BY <1>2, <1>3, <1>4, <3>1
    <3>3. QED BY <3>1, <3>2 DEF Whole
  <2>3. QED BY <2>1, <2>2
<1>6. ASSUME NEW i \in Whole(longer, "message")
      PROVE  \/ i \in Whole(lines, "message") /\ longer[i] = lines[i] /\ i <= len /\ i \in Nat
             \/ \E j \in Whole(new, "message") : i = len + j /\ j \in 1 .. more /\ longer[i] = new[j]
  <2>1. i \in 1 .. len + more
    BY <1>2, <1>3, <1>4 DEF Whole
  <2>2. CASE i <= len
    <3>1. i \in 1 .. len
      BY <2>1, <2>2
    <3>2. QED BY <1>1, <1>2, <1>3, <3>1 DEF Whole
  <2>3. CASE i > len
    <3>1. PICK j \in 1 .. more : i = len + j
      <4>1. i - len \in 1 .. more /\ i = len + (i - len)
        BY <2>1, <2>3
      <4>2. QED BY <4>1
    <3>2. longer[i] = new[j]
      BY <1>2, <1>3, <1>4, <3>1
    <3>3. j \in Whole(new, "message")
      BY <1>1, <1>4, <3>2 DEF Whole
    <3>4. QED BY <3>1, <3>2, <3>3
  <2>4. i <= len \/ i > len
    BY <2>1
  <2>5. QED BY <2>2, <2>3, <2>4
<1>7. \A j \in Whole(new, "message") :
        new[j].item = Said(n + j) /\ new[j].item.says = {n + j} /\ n + j <= n2
  BY DEF Whole, Said
<1>8. NumberedTo(longer, n2)
  <2> SUFFICES ASSUME NEW i \in Whole(longer, "message")
               PROVE  \E m \in 1 .. n2 : longer[i].item = Said(m)
    BY DEF NumberedTo
  <2>1. CASE i \in Whole(lines, "message") /\ longer[i] = lines[i]
    <3>1. PICK m \in 1 .. n : lines[i].item = Said(m)
      BY <2>1 DEF NumberedTo
    <3>2. m \in 1 .. n2
      OBVIOUS
    <3>3. QED BY <2>1, <3>1, <3>2
  <2>2. ASSUME NEW j \in Whole(new, "message"), i = len + j, j \in 1 .. more, longer[i] = new[j]
        PROVE  \E m \in 1 .. n2 : longer[i].item = Said(m)
    <3>1. n + j \in 1 .. n2 /\ longer[i].item = Said(n + j)
      BY <1>7, <2>2
    <3>2. QED BY <3>1
  <2>3. QED BY <1>6, <2>1, <2>2
<1>9. Rising(longer)
  <2> SUFFICES ASSUME NEW i \in Whole(longer, "message"), NEW j \in Whole(longer, "message"), i < j,
                      NEW m \in longer[i].item.says, NEW k \in longer[j].item.says
               PROVE  m < k
    BY DEF Rising
  <2>1. CASE i \in Whole(lines, "message") /\ longer[i] = lines[i] /\ i <= len /\ i \in Nat
    <3>1. PICK a \in 1 .. n : lines[i].item = Said(a)
      BY <2>1 DEF NumberedTo
    <3>2. m = a
      BY <2>1, <3>1 DEF Said
    <3>3. CASE j \in Whole(lines, "message") /\ longer[j] = lines[j]
      BY <2>1, <3>3 DEF Rising
    <3>4. ASSUME NEW b \in Whole(new, "message"), j = len + b, b \in 1 .. more, longer[j] = new[b]
          PROVE  m < k
      <4>1. k = n + b
        <5>1. longer[j].item.says = {n + b}
          BY <1>7, <3>4
        <5>2. QED BY <5>1
      <4>2. QED BY <3>2, <3>4, <4>1
    <3>5. QED BY <1>6, <3>3, <3>4
  <2>2. ASSUME NEW a \in Whole(new, "message"), i = len + a, a \in 1 .. more, longer[i] = new[a]
        PROVE  m < k
    <3>1. m = n + a
      <4>1. longer[i].item.says = {n + a}
        BY <1>7, <2>2
      <4>2. QED BY <4>1
    <3>2. PICK b \in Whole(new, "message") : j = len + b /\ b \in 1 .. more /\ longer[j] = new[b]
      <4>1. ~(j <= len /\ j \in Nat)
        BY <2>2
      <4>2. QED BY <1>6, <4>1
    <3>3. k = n + b
      <4>1. longer[j].item.says = {n + b}
        BY <1>7, <3>2
      <4>2. QED BY <4>1
    <3>4. QED BY <2>2, <3>1, <3>2, <3>3
  <2>3. QED BY <1>6, <2>1, <2>2
<1>10. Written(longer) = Written(lines) \cup Written(new)
  <2>1. ASSUME NEW m \in Written(longer) PROVE m \in Written(lines) \cup Written(new)
    <3>1. PICK i \in Whole(longer, "message") : m \in longer[i].item.says
      BY DEF Written
    <3>2. CASE i \in Whole(lines, "message") /\ longer[i] = lines[i]
      BY <3>1, <3>2 DEF Written
    <3>3. ASSUME NEW j \in Whole(new, "message"), longer[i] = new[j]
          PROVE  m \in Written(new)
      <4>1. m \in new[j].item.says
        BY <3>1, <3>3
      <4>2. QED BY <4>1 DEF Written
    <3>4. QED BY <1>6, <3>2, <3>3
  <2>2. ASSUME NEW m \in Written(lines) PROVE m \in Written(longer)
    <3>1. PICK i \in Whole(lines, "message") : m \in lines[i].item.says
      BY DEF Written
    <3>2. i \in Whole(longer, "message") /\ longer[i] = lines[i]
      BY <1>2, <1>3, <1>5
    <3>3. QED BY <3>1, <3>2 DEF Written
  <2>3. ASSUME NEW m \in Written(new) PROVE m \in Written(longer)
    <3>1. PICK i \in Whole(new, "message") : m \in new[i].item.says
      BY DEF Written
    <3>2. len + i \in Whole(longer, "message") /\ longer[len + i] = new[i]
      BY <1>2, <1>3, <1>4, <1>5
    <3>3. QED BY <3>1, <3>2 DEF Written
  <2>4. QED BY <2>1, <2>2, <2>3
<1>11. QED BY <1>2, <1>8, <1>9, <1>10

\* A set that gained at most one element has at most one more.
LEMMA OneMore ==
  ASSUME NEW M, IsFiniteSet(M), NEW M2, NEW x, M2 \subseteq M \cup {x}
  PROVE  /\ Cardinality(M) \in Nat /\ Cardinality(M2) \in Nat
         /\ Cardinality(M2) <= Cardinality(M) + 1
         /\ M2 \subseteq M => Cardinality(M2) <= Cardinality(M)
<1>1. IsFiniteSet(M \cup {x}) /\ Cardinality(M \cup {x}) <= Cardinality(M) + 1 /\ Cardinality(M) \in Nat
  <2>1. Cardinality(M) \in Nat
    BY FS_CardinalityType
  <2>2. IsFiniteSet(M \cup {x})
        /\ Cardinality(M \cup {x}) = IF x \in M THEN Cardinality(M) ELSE Cardinality(M) + 1
    BY FS_AddElement
  <2>3. QED BY <2>1, <2>2
<1>2. IsFiniteSet(M2) /\ Cardinality(M2) <= Cardinality(M \cup {x})
  BY <1>1, FS_Subset
<1>3. Cardinality(M2) \in Nat /\ Cardinality(M \cup {x}) \in Nat
  BY <1>1, <1>2, FS_CardinalityType
<1>4. M2 \subseteq M => Cardinality(M2) <= Cardinality(M)
  BY FS_Subset
<1>5. QED BY <1>1, <1>2, <1>3, <1>4

LEMMA MissingFinite ==
  ASSUME NEW n \in Nat, NEW gone, NEW lines
  PROVE  IsFiniteSet(Missing(n, gone, lines)) /\ Cardinality(Missing(n, gone, lines)) \in Nat
<1>1. IsFiniteSet(1 .. n) /\ Missing(n, gone, lines) \in SUBSET (1 .. n)
  BY FS_Interval DEF Missing
<1>2. QED BY <1>1, FS_Subset, FS_CardinalityType

\* Behind a fragment the first of the lines is spoilt, and it alone.
LEMMA GluedLines ==
  ASSUME NEW ls \in Seq(LineSet), torn \in BOOLEAN
  PROVE  /\ Glued(ls) \in Seq(LineSet) /\ Len(Glued(ls)) = Len(ls) /\ DOMAIN Glued(ls) = DOMAIN ls
         /\ \A i \in DOMAIN ls :
              /\ Glued(ls)[i].kind = ls[i].kind /\ Glued(ls)[i].item = ls[i].item
              /\ Glued(ls)[i].parses = (ls[i].parses /\ ~(torn /\ i = 1))
<1>1. Len(ls) \in Nat /\ DOMAIN ls = 1 .. Len(ls) /\ \A i \in DOMAIN ls : ls[i] \in LineSet
  OBVIOUS
<1>2. CASE torn /\ ls # <<>>
  <2> DEFINE line(i) == IF i = 1 THEN [ls[1] EXCEPT !.parses = FALSE] ELSE ls[i]
  <2>1. 1 \in DOMAIN ls
    BY <1>1, <1>2
  <2>2. Glued(ls) = [i \in 1 .. Len(ls) |-> line(i)]
    BY <1>1, <1>2, <2>1 DEF Glued
  <2>3. \A i \in 1 .. Len(ls) :
          /\ line(i) \in LineSet /\ line(i).kind = ls[i].kind /\ line(i).item = ls[i].item
          /\ line(i).parses = (ls[i].parses /\ ~(torn /\ i = 1))
    BY <1>1, <1>2, <2>1 DEF LineSet
  <2> HIDE DEF line
  <2>4. Glued(ls) \in Seq(LineSet)
    BY <1>1, <2>2, <2>3
  <2>5. QED BY <1>1, <2>2, <2>3, <2>4
<1>3. CASE ~(torn /\ ls # <<>>)
  <2>1. Glued(ls) = ls
    BY <1>3 DEF Glued
  <2>2. \A i \in DOMAIN ls : ~(torn /\ i = 1)
    BY <1>1, <1>3
  <2>3. \A i \in DOMAIN ls : ls[i].parses = (ls[i].parses /\ ~(torn /\ i = 1))
    BY <1>1, <2>2 DEF LineSet
  <2>4. QED BY <1>1, <2>1, <2>3
<1>4. QED BY <1>2, <1>3

\* Lines of the messages from n + 1 on.
Continues(ls, n) == \A i \in DOMAIN ls : ls[i] = Line("message", Said(n + i), 0)

\* An append that is finished writes what it was given, but for a message behind a fragment.
LEMMA AppendAccounts ==
  ASSUME SessionInv, NEW ls \in Seq(LineSet), NEW n \in Nat, n = Due, Continues(ls, n), Appended(ls),
         NEW n2 \in Nat, n2 = n + Len(ls)
  PROVE  /\ transcript' \in Seq(LineSet) /\ torn' \in BOOLEAN
         /\ NumberedTo(transcript', n2) /\ Rising(transcript')
         /\ Covered(n2, lost, transcript', torn', faults)
<1>1. torn \in BOOLEAN /\ transcript \in Seq(LineSet) /\ faults \in Nat
  BY DEF SessionInv, SessionTypes
<1>2. PICK new : new = Glued(ls)
  OBVIOUS
<1>3. /\ new \in Seq(LineSet) /\ Len(new) = Len(ls) /\ DOMAIN new = DOMAIN ls
      /\ \A i \in DOMAIN ls :
           /\ new[i].kind = ls[i].kind /\ new[i].item = ls[i].item
           /\ new[i].parses = (ls[i].parses /\ ~(torn /\ i = 1))
  BY <1>1, <1>2, GluedLines
<1>4. DOMAIN ls = 1 .. Len(ls) /\ Len(ls) \in Nat
  OBVIOUS
<1>5. \A i \in DOMAIN ls : /\ ls[i].kind = "message" /\ ls[i].item = Said(n + i) /\ ls[i].parses
                           /\ ls[i].item.says = {n + i}
  <2> SUFFICES ASSUME NEW i \in DOMAIN ls
               PROVE  /\ ls[i].kind = "message" /\ ls[i].item = Said(n + i) /\ ls[i].parses
                      /\ ls[i].item.says = {n + i}
    OBVIOUS
  <2>1. ls[i] = [kind |-> "message", item |-> Said(n + i), through |-> 0, parses |-> TRUE]
    BY DEF Continues, Line
  <2>2. ls[i].parses = TRUE
    BY <2>1
  <2>3. ls[i].kind = "message" /\ ls[i].item = Said(n + i)
    BY <2>1
  <2>4. Said(n + i).says = {n + i}
    BY DEF Said
  <2>5. QED BY <2>2, <2>3, <2>4
<1>6. \A i \in DOMAIN new : new[i].kind = "message" => new[i].item = Said(n + i) /\ n + i <= n2
  BY <1>3, <1>4, <1>5
<1>7. transcript' = transcript \o new /\ torn' = (torn /\ ls = <<>>)
  BY <1>2 DEF Appended
<1>8. /\ transcript' \in Seq(LineSet) /\ NumberedTo(transcript', n2) /\ Rising(transcript')
      /\ Written(transcript') = Written(transcript) \cup Written(new)
  <2>1. PICK longer : longer = transcript \o new
    OBVIOUS
  <2>2. NumberedTo(transcript, n) /\ Rising(transcript) /\ n <= n2
    BY <1>4 DEF SessionInv
  <2>3. /\ longer \in Seq(LineSet) /\ NumberedTo(longer, n2) /\ Rising(longer)
        /\ Written(longer) = Written(transcript) \cup Written(new)
    BY <1>1, <1>3, <1>6, <2>1, <2>2, LinesGrow
  <2>4. QED BY <1>7, <2>1, <2>3
<1>9. \A i \in DOMAIN ls : ~(torn /\ i = 1) => n + i \in Written(new)
  <2> SUFFICES ASSUME NEW i \in DOMAIN ls, ~(torn /\ i = 1) PROVE n + i \in Written(new)
    OBVIOUS
  <2>1. i \in Whole(new, "message") /\ n + i \in new[i].item.says
    BY <1>3, <1>5 DEF Whole
  <2>2. QED BY <2>1 DEF Written
<1> DEFINE M == Missing(n, lost, transcript)
           M2 == Missing(n2, lost, transcript')
<1>10. ASSUME NEW m \in M2 PROVE m \in M \/ (torn /\ ls # <<>> /\ m = n + 1)
  <2>1. m \in 1 .. n2 /\ m \notin lost /\ m \notin Written(transcript) /\ m \notin Written(new)
    BY <1>8 DEF Missing
  <2>2. CASE m <= n
    BY <2>1, <2>2 DEF Missing
  <2>3. CASE m > n
    <3>1. PICK i \in DOMAIN ls : m = n + i
      <4>1. m - n \in 1 .. Len(ls) /\ m = n + (m - n)
        BY <1>4, <2>1, <2>3
      <4>2. QED BY <1>4, <4>1
    <3>2. torn /\ i = 1
      BY <1>9, <2>1, <3>1
    <3>3. ls # <<>>
      BY <3>1
    <3>4. QED BY <3>1, <3>2, <3>3
  <2>4. m <= n \/ m > n
    BY <2>1
  <2>5. QED BY <2>2, <2>3, <2>4
<1>11. Cardinality(M) + (IF torn THEN 1 ELSE 0) <= faults
  BY DEF SessionInv, Covered
<1>12. IsFiniteSet(M)
  BY MissingFinite
<1> HIDE DEF M, M2
<1>13. M2 \subseteq M \cup {n + 1}
  BY <1>10
<1>14. /\ Cardinality(M) \in Nat /\ Cardinality(M2) \in Nat /\ Cardinality(M2) <= Cardinality(M) + 1
       /\ M2 \subseteq M => Cardinality(M2) <= Cardinality(M)
  BY <1>12, <1>13, OneMore
<1>15. ~(torn /\ ls # <<>>) => M2 \subseteq M
  BY <1>10
<1>16. Cardinality(M2) + (IF torn' THEN 1 ELSE 0) <= faults
  <2>1. CASE torn /\ ls # <<>>
    <3>1. torn' = FALSE
      BY <1>7, <2>1
    <3>2. QED BY <1>1, <1>11, <1>14, <2>1, <3>1
  <2>2. CASE ~(torn /\ ls # <<>>)
    <3>1. torn' = torn
      BY <1>1, <1>7, <2>2
    <3>2. QED BY <1>1, <1>11, <1>14, <1>15, <2>2, <3>1
  <2>3. QED BY <2>1, <2>2
<1>17. Covered(n2, lost, transcript', torn', faults)
  BY <1>16 DEF Covered, M2
<1>18. torn' \in BOOLEAN
  BY <1>1, <1>7
<1>19. QED BY <1>8, <1>17, <1>18

\* The marker of a compaction says no message; behind a fragment the reader skips both.
LEMMA MarkerAccounts ==
  ASSUME SessionInv, NEW mark \in LineSet, mark.kind = "compaction", Appended(<<mark>>),
         NEW n \in Nat, n = Due
  PROVE  /\ transcript' \in Seq(LineSet) /\ torn' \in BOOLEAN
         /\ NumberedTo(transcript', n) /\ Rising(transcript')
         /\ Covered(n, lost, transcript', torn', faults)
<1>1. torn \in BOOLEAN /\ transcript \in Seq(LineSet) /\ faults \in Nat
  BY DEF SessionInv, SessionTypes
<1>2. PICK ls : ls = <<mark>> /\ ls \in Seq(LineSet)
  <2>1. <<mark>> \in Seq(LineSet)
    OBVIOUS
  <2>2. QED BY <2>1
<1>3. PICK new : new = Glued(ls)
  OBVIOUS
<1>4. /\ new \in Seq(LineSet) /\ DOMAIN new = DOMAIN ls
      /\ \A i \in DOMAIN ls : new[i].kind = ls[i].kind
  BY <1>1, <1>2, <1>3, GluedLines
<1>5. \A i \in DOMAIN ls : ls[i].kind = "compaction"
  BY <1>2
<1>6. \A i \in DOMAIN new : new[i].kind # "message"
  BY <1>4, <1>5
<1>7. transcript' = transcript \o new /\ torn' = FALSE
  BY <1>2, <1>3 DEF Appended
<1>8. /\ transcript' \in Seq(LineSet) /\ NumberedTo(transcript', n) /\ Rising(transcript')
      /\ Written(transcript') = Written(transcript) \cup Written(new)
  <2>1. PICK longer : longer = transcript \o new
    OBVIOUS
  <2>2. NumberedTo(transcript, n) /\ Rising(transcript) /\ n <= n
    BY DEF SessionInv
  <2>3. \A i \in DOMAIN new : new[i].kind = "message" => new[i].item = Said(n + i) /\ n + i <= n
    BY <1>6
  <2>4. /\ longer \in Seq(LineSet) /\ NumberedTo(longer, n) /\ Rising(longer)
        /\ Written(longer) = Written(transcript) \cup Written(new)
    BY <1>1, <1>4, <2>1, <2>2, <2>3, LinesGrow
  <2>5. QED BY <1>7, <2>1, <2>4
<1>9. Written(new) = {}
  BY <1>6 DEF Written, Whole
<1>10. Missing(n, lost, transcript') = Missing(n, lost, transcript)
  BY <1>8, <1>9 DEF Missing
<1>11. Cardinality(Missing(n, lost, transcript)) + (IF torn THEN 1 ELSE 0) <= faults
  BY DEF SessionInv, Covered
<1>12. Cardinality(Missing(n, lost, transcript)) \in Nat
  BY MissingFinite
<1>13. Covered(n, lost, transcript', torn', faults)
  BY <1>1, <1>7, <1>10, <1>11, <1>12 DEF Covered
<1>14. QED BY <1>7, <1>8, <1>13

\* An append that stops is a fault, whatever it has written; its messages count as lost.
LEMMA StopAccounts ==
  ASSUME SessionInv, NEW ls \in Seq(LineSet), NEW n \in Nat, n = Due, Continues(ls, n), AppendStops(ls),
         NEW n2 \in Nat, n2 = n + Len(ls), NEW gone, lost \cup (n + 1 .. n2) \subseteq gone
  PROVE  /\ transcript' \in Seq(LineSet) /\ torn' \in BOOLEAN /\ faults' \in Nat
         /\ NumberedTo(transcript', n2) /\ Rising(transcript')
         /\ Covered(n2, gone, transcript', torn', faults')
<1>1. torn \in BOOLEAN /\ transcript \in Seq(LineSet) /\ faults \in Nat
  BY DEF SessionInv, SessionTypes
<1>2. PICK all : all = Glued(ls)
  OBVIOUS
<1>3. /\ all \in Seq(LineSet) /\ Len(all) = Len(ls) /\ DOMAIN all = DOMAIN ls
      /\ \A i \in DOMAIN ls : all[i].kind = ls[i].kind /\ all[i].item = ls[i].item
  BY <1>1, <1>2, GluedLines
<1>4. DOMAIN ls = 1 .. Len(ls) /\ Len(ls) \in Nat
  OBVIOUS
<1>5. \A i \in DOMAIN ls : ls[i].item = Said(n + i)
  BY DEF Continues, Line
<1>6. PICK k \in 0 .. Len(ls) - 1, fragment \in BOOLEAN :
        /\ transcript' = transcript \o SubSeq(all, 1, k)
        /\ torn' = (fragment \/ (torn /\ k = 0)) /\ faults' = faults + 1
  BY <1>2 DEF AppendStops
<1>7. PICK new : new = SubSeq(all, 1, k)
  OBVIOUS
<1>8. /\ new \in Seq(LineSet) /\ DOMAIN new = 1 .. k /\ \A i \in 1 .. k : new[i] = all[i]
  BY <1>3, <1>4, <1>6, <1>7
<1>9. \A i \in DOMAIN new : new[i].kind = "message" => new[i].item = Said(n + i) /\ n + i <= n2
  BY <1>3, <1>4, <1>5, <1>6, <1>8
<1>10. /\ transcript' \in Seq(LineSet) /\ NumberedTo(transcript', n2) /\ Rising(transcript')
       /\ Written(transcript') = Written(transcript) \cup Written(new)
  <2>1. PICK longer : longer = transcript \o new
    OBVIOUS
  <2>2. NumberedTo(transcript, n) /\ Rising(transcript) /\ n <= n2
    BY <1>4 DEF SessionInv
  <2>3. /\ longer \in Seq(LineSet) /\ NumberedTo(longer, n2) /\ Rising(longer)
        /\ Written(longer) = Written(transcript) \cup Written(new)
    BY <1>1, <1>8, <1>9, <2>1, <2>2, LinesGrow
  <2>4. QED BY <1>6, <1>7, <2>1, <2>3
<1> DEFINE M == Missing(n, lost, transcript)
           M2 == Missing(n2, gone, transcript')
<1>11. ASSUME NEW m \in M2 PROVE m \in M
  <2>1. m \in 1 .. n2 /\ m \notin gone /\ m \notin Written(transcript)
    BY <1>10 DEF Missing
  <2>2. m \notin n + 1 .. n2 /\ m \notin lost
    BY <2>1
  <2>3. m \in 1 .. n
    BY <1>4, <2>1, <2>2
  <2>4. QED BY <2>1, <2>2, <2>3 DEF Missing
<1>12. Cardinality(M) + (IF torn THEN 1 ELSE 0) <= faults
  BY DEF SessionInv, Covered
<1>13. IsFiniteSet(M)
  BY MissingFinite
<1> HIDE DEF M, M2
<1>14. M2 \subseteq M
  BY <1>11
<1>15. Cardinality(M) \in Nat /\ Cardinality(M2) \in Nat /\ Cardinality(M2) <= Cardinality(M)
  BY <1>13, <1>14, OneMore
<1>16. Cardinality(M2) + (IF torn' THEN 1 ELSE 0) <= faults + 1
  BY <1>1, <1>12, <1>15
<1>17. Covered(n2, gone, transcript', torn', faults')
  BY <1>6, <1>16 DEF Covered, M2
<1>18. torn' \in BOOLEAN /\ faults' \in Nat
  BY <1>1, <1>6
<1>19. QED BY <1>10, <1>17, <1>18

\* The part of the history that is not in the file yet, as lines and as messages.
LEMMA TailLines ==
  ASSUME SessionInv, phase = "turn"
  PROVE  /\ Lines(Rest(persisted)) \in Seq(LineSet) /\ Continues(Lines(Rest(persisted)), Due)
         /\ Due \in Nat /\ spoken \in Nat /\ spoken = Due + Len(Lines(Rest(persisted)))
         /\ MessagesOf(Rest(persisted)) = Due + 1 .. spoken
<1>1. /\ history \in Seq(Items) /\ persisted \in Nat /\ spoken \in Nat /\ persisted <= Len(history)
      /\ Len(history) \in Nat
  BY DEF SessionInv, SessionTypes, TailOK
<1>2. /\ Tail1 = Len(history) - persisted /\ Tail1 \in 0 .. spoken /\ Due \in Nat /\ Due = spoken - Tail1
      /\ \A i \in 1 .. Tail1 : history[persisted + i] = Said(Due + i)
  BY <1>1 DEF SessionInv, TailOK, Tail1, Due
<1>3. PICK size \in Nat : size = Tail1
  BY <1>2
<1>4. PICK from \in Nat : from = Due
  BY <1>2
<1>5. PICK rest : rest = Rest(persisted)
  OBVIOUS
<1>6. /\ rest \in Seq(Items) /\ Len(rest) = size /\ DOMAIN rest = 1 .. size
      /\ \A i \in 1 .. size : rest[i] = Said(from + i)
  <2>1. /\ rest \in Seq(Items) /\ Len(rest) = Len(history) - persisted
        /\ \A i \in 1 .. Len(rest) : rest[i] = history[persisted + i]
    BY <1>1, <1>5 DEF Rest
  <2>2. Len(rest) = size
    BY <1>2, <1>3, <2>1
  <2>3. DOMAIN rest = 1 .. size
    BY <2>1, <2>2
  <2>4. \A i \in 1 .. size : rest[i] = Said(from + i)
    BY <1>2, <1>3, <1>4, <2>1, <2>2
  <2>5. QED BY <2>1, <2>2, <2>3, <2>4
<1>7. PICK ls : ls = Lines(rest)
  OBVIOUS
<1>8. ls = [i \in 1 .. size |-> Line("message", rest[i], 0)]
  BY <1>6, <1>7 DEF Lines
<1>9. \A i \in 1 .. size : Line("message", rest[i], 0) \in LineSet
  <2>1. \A i \in 1 .. size : rest[i] \in Items
    BY <1>6
  <2>2. QED BY <2>1 DEF Line, LineSet
<1>10. ls \in Seq(LineSet) /\ Len(ls) = size /\ DOMAIN ls = 1 .. size
  BY <1>8, <1>9
<1>11. Continues(ls, from)
  BY <1>6, <1>8, <1>10 DEF Continues
<1>12. spoken = from + size
  BY <1>1, <1>2, <1>3, <1>4
<1>13. MessagesOf(rest) = from + 1 .. spoken
  <2>1. ASSUME NEW i \in 1 .. size PROVE rest[i].says = {from + i}
    BY <1>6 DEF Said
  <2>2. ASSUME NEW m \in MessagesOf(rest) PROVE m \in from + 1 .. spoken
    <3>1. PICK i \in 1 .. size : m \in rest[i].says
      BY <1>6 DEF MessagesOf
    <3>2. m = from + i
      BY <2>1, <3>1
    <3>3. QED BY <1>12, <3>2
  <2>3. ASSUME NEW m \in from + 1 .. spoken PROVE m \in MessagesOf(rest)
    <3>1. m - from \in 1 .. size
      BY <1>12
    <3>2. PICK i \in 1 .. size : m = from + i
      <4>1. m = from + (m - from)
        OBVIOUS
      <4>2. QED BY <3>1, <4>1
    <3>3. m \in rest[i].says
      BY <2>1, <3>2
    <3>4. QED BY <1>6, <3>3 DEF MessagesOf
  <2>4. QED BY <2>2, <2>3
<1>14. QED BY <1>1, <1>4, <1>5, <1>7, <1>10, <1>11, <1>12, <1>13

LEMMA ItemsSaid ==
  ASSUME NEW n \in Nat
  PROVE  Said(n) \in Items
BY DEF Said, Items

\* What the history says are numbers; compaction and loading make items again.
LEMMA CompactionTypes ==
  ASSUME SessionInv, Len(history) > 0, NEW summarised \in BOOLEAN
  PROVE  Marker \in LineSet /\ Marker.kind = "compaction" /\ Compacted(summarised) \in Seq(Items)
<1>1. history \in Seq(Items) /\ Len(history) \in Nat /\ KeepRecent \in Nat
  BY SessionBounds DEF SessionInv, SessionTypes
<1>2. OlderCount \in 1 .. Len(history)
  BY <1>1 DEF OlderCount
<1>3. Older \in Seq(Items)
  BY <1>1, <1>2 DEF Older
<1>4. PICK older \in Seq(Items) : older = Older
  BY <1>3
<1>5. MessagesOf(older) \in SUBSET Nat
  <2>1. ASSUME NEW i \in DOMAIN older PROVE older[i].says \in SUBSET Nat
    <3>1. older[i] \in Items
      OBVIOUS
    <3>2. QED BY <3>1 DEF Items
  <2>2. QED BY <2>1 DEF MessagesOf
<1>6. Summary(MessagesOf(older)) \in Items
  BY <1>5 DEF Summary, Items
<1>7. Marker = [kind |-> "compaction", item |-> Summary(MessagesOf(older)), through |-> OlderCount,
                parses |-> TRUE]
  BY <1>4 DEF Marker, Line
<1>8. Marker \in LineSet /\ Marker.kind = "compaction"
  BY <1>2, <1>6, <1>7 DEF LineSet
<1>9. Rest(OlderCount) \in Seq(Items)
  BY <1>1, <1>2 DEF Rest
<1>10. <<Summary(MessagesOf(older))>> \in Seq(Items)
  BY <1>6
<1>11. Compacted(summarised) \in Seq(Items)
  BY <1>4, <1>9, <1>10 DEF Compacted
<1>12. QED BY <1>8, <1>11

LEMMA LoadedTypes ==
  ASSUME SessionInv
  PROVE  Loaded(transcript) \in Seq(Items)
<1>1. transcript \in Seq(LineSet) /\ DOMAIN transcript = 1 .. Len(transcript) /\ Len(transcript) \in Nat
  BY DEF SessionInv, SessionTypes
<1> DEFINE messages == Whole(transcript, "message")
           comps == Whole(transcript, "compaction")
           raw == [i \in DOMAIN Raw(transcript) |-> Raw(transcript)[i].item]
<1>2. messages \in SUBSET (1 .. Len(transcript)) /\ comps \in SUBSET (1 .. Len(transcript))
  BY <1>1 DEF Whole
<1>3. PICK places \in SUBSET (1 .. Len(transcript)) : places = messages
  BY <1>2
<1>4. /\ Cardinality(places) \in Nat
      /\ \A n \in 1 .. Cardinality(places) : Nth(places, n) \in places
  BY <1>1, NthPlaces
<1>5. Raw(transcript) = [n \in 1 .. Cardinality(places) |-> transcript[Nth(places, n)]]
  BY <1>3, PickedPlaces DEF Raw
<1>6. raw = [n \in 1 .. Cardinality(places) |-> transcript[Nth(places, n)].item]
  BY <1>5
<1>7. \A n \in 1 .. Cardinality(places) : transcript[Nth(places, n)].item \in Items
  <2>1. ASSUME NEW n \in 1 .. Cardinality(places) PROVE transcript[Nth(places, n)] \in LineSet
    <3>1. PICK i \in places : i = Nth(places, n)
      BY <1>4
    <3>2. i \in 1 .. Len(transcript)
      OBVIOUS
    <3>3. transcript[i] \in LineSet
      BY <1>1, <3>2
    <3>4. QED BY <3>1, <3>3
  <2>2. QED BY <2>1 DEF LineSet
<1>8. PICK all \in Seq(Items) : all = raw
  <2>1. raw \in Seq(Items)
    BY <1>4, <1>6, <1>7
  <2>2. QED BY <2>1
<1>9. CASE comps = {}
  BY <1>8, <1>9 DEF Loaded
<1>10. CASE comps # {}
  <2>1. Max(comps) \in 1 .. Len(transcript)
    <3>1. PICK T \in SUBSET (0 .. Len(transcript)) : T = comps
      BY <1>2
    <3>2. Max(T) \in T
      BY <1>1, <1>10, <3>1, LargestNumber
    <3>3. QED BY <1>2, <3>1, <3>2
  <2>2. PICK last \in LineSet : last = transcript[Max(comps)]
    BY <1>1, <2>1
  <2>3. last.item \in Items /\ last.through \in Nat
    BY DEF LineSet
  <2>4. SubSeq(all, last.through + 2, Len(all)) \in Seq(Items) /\ <<last.item>> \in Seq(Items)
    BY <2>3
  <2>5. Loaded(transcript) = <<last.item>> \o SubSeq(all, last.through + 2, Len(all))
    BY <1>8, <1>10, <2>2 DEF Loaded
  <2>6. QED BY <2>4, <2>5
<1>11. QED BY <1>9, <1>10

LEMMA SessionStarts ==
  ASSUME SessionInit
  PROVE  SessionInv
<1>1. SessionTypes
  <2>1. <<>> \in Seq(Items) /\ <<>> \in Seq(LineSet)
    OBVIOUS
  <2>2. QED BY <2>1 DEF SessionInit, SessionTypes
<1>2. Tail1 = 0 /\ Due = 0
  BY DEF SessionInit, Tail1, Due
<1>3. TailOK
  BY <1>2 DEF SessionInit, TailOK
<1>4. Whole(transcript, "message") = {}
  BY DEF SessionInit, Whole
<1>5. NumberedTo(transcript, Due) /\ Rising(transcript)
  BY <1>4 DEF NumberedTo, Rising
<1>6. Missing(Due, lost, transcript) = {}
  BY <1>2 DEF Missing
<1>7. Covered(Due, lost, transcript, torn, faults)
  BY <1>6, FS_EmptySet DEF SessionInit, Covered
<1>8. QED BY <1>1, <1>3, <1>5, <1>7 DEF SessionInv

\* A step that leaves the file alone: what was due stays due, and more may be lost.
LEMMA FileStays ==
  ASSUME SessionInv, UNCHANGED <<transcript, torn, faults>>, lost \subseteq lost', Due' = Due,
         SessionTypes', TailOK'
  PROVE  SessionInv'
<1>1. Due \in Nat
  BY DEF SessionInv, TailOK, SessionTypes, Due
<1>2. PICK n \in Nat : n = Due
  BY <1>1
<1>3. PICK gone : gone = lost'
  OBVIOUS
<1>4. NumberedTo(transcript', n) /\ Rising(transcript')
  BY <1>2 DEF SessionInv
<1> DEFINE M == Missing(n, lost, transcript)
           M2 == Missing(n, gone, transcript)
<1>5. IsFiniteSet(M) /\ M2 \subseteq M
  BY <1>2, <1>3, MissingFinite DEF Missing
<1>6. Cardinality(M) + (IF torn THEN 1 ELSE 0) <= faults
  BY <1>2 DEF SessionInv, Covered
<1>7. torn \in BOOLEAN /\ faults \in Nat
  BY DEF SessionInv, SessionTypes
<1> HIDE DEF M, M2
<1>8. Cardinality(M) \in Nat /\ Cardinality(M2) \in Nat /\ Cardinality(M2) <= Cardinality(M)
  BY <1>5, OneMore
<1>9. Cardinality(M2) + (IF torn THEN 1 ELSE 0) <= faults
  BY <1>6, <1>7, <1>8
<1>10. Covered(n, gone, transcript', torn', faults')
  BY <1>9 DEF Covered, M2
<1>11. QED BY <1>2, <1>3, <1>4, <1>10 DEF SessionInv

\* A step after which the file says what the step made due.
LEMMA FileFollows ==
  ASSUME SessionTypes', TailOK', NEW n \in Nat, Due' = n,
         NumberedTo(transcript', n), Rising(transcript'), Covered(n, lost', transcript', torn', faults')
  PROVE  SessionInv'
BY DEF SessionInv

LEMMA IdleStep ==
  ASSUME SessionInv, phase # "turn"
  PROVE  Tail1 = 0 /\ Due = spoken /\ spoken \in Nat
BY DEF SessionInv, SessionTypes, Tail1, Due

LEMMA SettledStep ==
  ASSUME phase' # "turn", spoken' \in Nat
  PROVE  Tail1' = 0 /\ Due' = spoken' /\ TailOK'
<1>1. Tail1' = 0
  BY DEF Tail1
<1>2. Due' = spoken'
  <2>1. Due' = spoken' - Tail1'
    BY DEF Due
  <2>2. PICK n \in Nat : n = spoken'
    OBVIOUS
  <2>3. n - 0 = n
    OBVIOUS
  <2>4. QED BY <1>1, <2>1, <2>2, <2>3
<1>3. QED BY <1>1, <1>2 DEF TailOK

LEMMA CompactsNowKeeps ==
  ASSUME SessionInv, NEW summarised \in BOOLEAN, CompactsNow(summarised)
  PROVE  SessionInv'
<1>1. Len(history) > 0 /\ phase = "idle" /\ phase' = "idle"
  BY DEF CompactsNow, MayCompact
<1>2. Due = spoken /\ spoken \in Nat
  BY <1>1, IdleStep
<1>3. PICK n \in Nat : n = spoken
  BY <1>2
<1>4. PICK mark \in LineSet : mark = Marker /\ mark.kind = "compaction"
  BY <1>1, CompactionTypes
<1>5. Appended(<<mark>>)
  BY <1>4 DEF CompactsNow
<1>6. n = Due
  BY <1>2, <1>3
<1>7. /\ transcript' \in Seq(LineSet) /\ torn' \in BOOLEAN
      /\ NumberedTo(transcript', n) /\ Rising(transcript')
      /\ Covered(n, lost, transcript', torn', faults)
  BY <1>4, <1>5, <1>6, MarkerAccounts
<1>8. Compacted(summarised) \in Seq(Items)
  BY <1>1, CompactionTypes
<1>9. /\ history' = Compacted(summarised) /\ persisted' = persisted /\ spoken' = spoken
      /\ lost' = lost /\ faults' = faults
  BY DEF CompactsNow
<1>10. SessionTypes'
  BY <1>7, <1>8, <1>9 DEF SessionInv, SessionTypes
<1>11. Due' = n /\ TailOK'
  BY <1>1, <1>3, <1>9, SettledStep
<1>12. Covered(n, lost', transcript', torn', faults')
  BY <1>7, <1>9
<1>13. QED BY <1>7, <1>10, <1>11, <1>12, FileFollows

\* A history that changes at the prompt leaves what was due as it is.
LEMMA PromptKeeps ==
  ASSUME SessionInv, phase = "idle", phase' = "idle", history' \in Seq(Items), persisted' = persisted,
         UNCHANGED <<transcript, torn, spoken, lost, faults>>
  PROVE  SessionInv'
<1>1. Due = spoken /\ spoken \in Nat
  BY IdleStep
<1>2. Due' = spoken /\ TailOK'
  BY <1>1, SettledStep
<1>3. SessionTypes'
  BY DEF SessionInv, SessionTypes
<1>4. UNCHANGED <<transcript, torn, faults>> /\ lost \subseteq lost' /\ Due' = Due
  BY <1>1, <1>2
<1>5. QED BY <1>2, <1>3, <1>4, FileStays

LEMMA InVainKeeps ==
  ASSUME SessionInv, NEW summarised \in BOOLEAN, CompactsInVain(summarised)
  PROVE  SessionInv'
<1>1. /\ Len(history) > 0 /\ phase = "idle" /\ history' = Compacted(summarised)
      /\ UNCHANGED <<persisted, transcript, torn, phase, spoken, lost, faults>>
  BY DEF CompactsInVain, MayCompact
<1>2. history' \in Seq(Items)
  BY <1>1, CompactionTypes
<1>3. QED BY <1>1, <1>2, PromptKeeps

LEMMA ClearingKeeps ==
  ASSUME SessionInv, ClearsHistory
  PROVE  SessionInv'
<1>1. /\ phase = "idle" /\ history' = <<>>
      /\ UNCHANGED <<persisted, transcript, torn, phase, spoken, lost, faults>>
  BY DEF ClearsHistory
<1>2. history' \in Seq(Items)
  BY <1>1
<1>3. QED BY <1>1, <1>2, PromptKeeps

\* Of a marker whose append stops there is at most a fragment in the file, and a fault
\* to account for it.
LEMMA MarkerFailsKeeps ==
  ASSUME SessionInv, NEW summarised \in BOOLEAN, MarkerFails(summarised)
  PROVE  SessionInv'
<1>1. /\ Len(history) > 0 /\ phase = "idle" /\ AppendStops(<<Marker>>)
      /\ spoken' = spoken /\ lost' = lost
  BY DEF MarkerFails, MayCompact
<1>2. /\ phase' # "turn" /\ persisted' \in {0, persisted}
      /\ history' = Compacted(summarised) \/ history' = <<>>
  BY <1>1 DEF MarkerFails
<1>3. Due = spoken /\ spoken \in Nat
  BY <1>1, IdleStep
<1>4. Due' = spoken /\ TailOK'
  BY <1>1, <1>2, <1>3, SettledStep
<1>5. torn \in BOOLEAN /\ transcript \in Seq(LineSet) /\ faults \in Nat
  BY DEF SessionInv, SessionTypes
<1>6. transcript' = transcript /\ torn' \in BOOLEAN /\ faults' = faults + 1
  <2>1. PICK all : all = Glued(<<Marker>>)
    OBVIOUS
  <2>2. PICK n \in 0 .. Len(<<Marker>>) - 1, fragment \in BOOLEAN :
          /\ transcript' = transcript \o SubSeq(all, 1, n)
          /\ torn' = (fragment \/ (torn /\ n = 0)) /\ faults' = faults + 1
    BY <1>1, <2>1 DEF AppendStops
  <2>3. n = 0
    BY <2>2
  <2>4. SubSeq(all, 1, 0) = <<>>
    OBVIOUS
  <2>5. transcript \o <<>> = transcript
    BY <1>5
  <2>6. QED BY <1>5, <2>2, <2>3, <2>4, <2>5
<1>7. history' \in Seq(Items)
  <2>1. Compacted(summarised) \in Seq(Items)
    BY <1>1, CompactionTypes
  <2>2. <<>> \in Seq(Items)
    OBVIOUS
  <2>3. QED BY <1>2, <2>1, <2>2
<1>8. SessionTypes'
  BY <1>1, <1>2, <1>3, <1>5, <1>6, <1>7 DEF SessionInv, SessionTypes
<1>9. NumberedTo(transcript', spoken) /\ Rising(transcript')
  BY <1>3, <1>6 DEF SessionInv
<1>10. Covered(spoken, lost', transcript', torn', faults')
  <2>1. PICK M : M = Missing(spoken, lost, transcript)
    OBVIOUS
  <2>2. Cardinality(M) + (IF torn THEN 1 ELSE 0) <= faults /\ Cardinality(M) \in Nat
    BY <1>3, <2>1, MissingFinite DEF SessionInv, Covered
  <2>3. Cardinality(M) + (IF torn' THEN 1 ELSE 0) <= faults + 1
    BY <1>5, <2>2
  <2>4. QED BY <1>1, <1>6, <2>1, <2>3 DEF Covered
<1>11. QED BY <1>3, <1>4, <1>8, <1>9, <1>10, FileFollows

\* The turn begins: the one message behind the mark is the prompt.
LEMMA PromptIsTail ==
  ASSUME NEW earlier \in Seq(Items), NEW n \in Nat, history' = Append(earlier, Said(n + 1)),
         persisted' = Len(earlier), phase' = "turn", spoken' = n + 1
  PROVE  history' \in Seq(Items) /\ persisted' \in Nat /\ spoken' \in Nat /\ Due' = n /\ TailOK'
<1>1. Said(n + 1) \in Items
  BY ItemsSaid
<1>2. PICK longer \in Seq(Items) : longer = Append(earlier, Said(n + 1))
  BY <1>1
<1>3. Len(earlier) \in Nat /\ Len(longer) = Len(earlier) + 1 /\ longer[Len(earlier) + 1] = Said(n + 1)
  BY <1>2
<1>4. history' = longer
  BY <1>2
<1>5. Len(history') = Len(earlier) + 1 /\ history'[persisted' + 1] = Said(n + 1)
  BY <1>3, <1>4
<1>6. Tail1' = 1
  BY <1>3, <1>5 DEF Tail1
<1>7. Due' = n
  BY <1>6 DEF Due
<1>8. \A i \in 1 .. Tail1' : history'[persisted' + i] = Said(Due' + i)
  BY <1>5, <1>6, <1>7
<1>9. Tail1' \in 0 .. spoken' /\ persisted' <= Len(history')
  BY <1>3, <1>5, <1>6
<1>10. TailOK'
  BY <1>8, <1>9 DEF TailOK
<1>11. QED BY <1>2, <1>3, <1>4, <1>7, <1>10

LEMMA TurnBeginsKeeps ==
  ASSUME SessionInv, TurnBegins
  PROVE  SessionInv'
<1>1. /\ phase = "idle" /\ phase' = "turn" /\ spoken' = spoken + 1
      /\ history' = Append(history, Said(spoken + 1)) /\ persisted' = Len(history)
      /\ UNCHANGED <<transcript, torn, lost, faults>>
  BY DEF TurnBegins
<1>2. Due = spoken /\ spoken \in Nat
  BY <1>1, IdleStep
<1>3. history \in Seq(Items)
  BY DEF SessionInv, SessionTypes
<1>4. history' \in Seq(Items) /\ persisted' \in Nat /\ spoken' \in Nat /\ Due' = spoken /\ TailOK'
  BY <1>1, <1>2, <1>3, PromptIsTail
<1>5. SessionTypes'
  BY <1>1, <1>4 DEF SessionInv, SessionTypes
<1>6. UNCHANGED <<transcript, torn, faults>> /\ lost \subseteq lost' /\ Due' = Due
  BY <1>1, <1>2, <1>4
<1>7. QED BY <1>4, <1>5, <1>6, FileStays

LEMMA TurnCompactsKeeps ==
  ASSUME SessionInv, NEW summarised \in BOOLEAN, TurnCompacts(summarised)
  PROVE  SessionInv'
<1>1. /\ phase = "idle" /\ phase' = "turn" /\ spoken' = spoken + 1 /\ Len(history) > 0
      /\ history' = Append(Compacted(summarised), Said(spoken + 1))
      /\ persisted' = Len(Compacted(summarised)) /\ Appended(<<Marker>>)
      /\ UNCHANGED <<lost, faults>>
  BY DEF TurnCompacts, MayCompact
<1>2. Due = spoken /\ spoken \in Nat
  BY <1>1, IdleStep
<1>3. PICK n \in Nat : n = spoken
  BY <1>2
<1>4. PICK mark \in LineSet : mark = Marker /\ mark.kind = "compaction"
  BY <1>1, CompactionTypes
<1>5. Appended(<<mark>>) /\ n = Due
  BY <1>1, <1>2, <1>3, <1>4
<1>6. /\ transcript' \in Seq(LineSet) /\ torn' \in BOOLEAN
      /\ NumberedTo(transcript', n) /\ Rising(transcript')
      /\ Covered(n, lost, transcript', torn', faults)
  BY <1>4, <1>5, MarkerAccounts
<1>7. PICK kept \in Seq(Items) : kept = Compacted(summarised)
  BY <1>1, CompactionTypes
<1>8. history' = Append(kept, Said(n + 1)) /\ persisted' = Len(kept) /\ spoken' = n + 1
  BY <1>1, <1>3, <1>7
<1>9. history' \in Seq(Items) /\ persisted' \in Nat /\ spoken' \in Nat /\ Due' = n /\ TailOK'
  BY <1>1, <1>8, PromptIsTail
<1>10. SessionTypes'
  BY <1>1, <1>6, <1>9 DEF SessionInv, SessionTypes
<1>11. Covered(n, lost', transcript', torn', faults')
  BY <1>1, <1>6
<1>12. QED BY <1>6, <1>9, <1>10, <1>11, FileFollows

LEMMA StepSpeaksKeeps ==
  ASSUME SessionInv, StepSpeaks
  PROVE  SessionInv'
<1>1. /\ phase = "turn" /\ phase' = "turn" /\ spoken' = spoken + 1 /\ persisted' = persisted
      /\ history' = Append(history, Said(spoken + 1)) /\ UNCHANGED <<transcript, torn, lost, faults>>
  BY DEF StepSpeaks
<1>2. /\ history \in Seq(Items) /\ persisted \in Nat /\ spoken \in Nat /\ persisted <= Len(history)
      /\ Len(history) \in Nat
  BY <1>1 DEF SessionInv, SessionTypes, TailOK
<1>3. /\ Tail1 = Len(history) - persisted /\ Tail1 \in 0 .. spoken /\ Due = spoken - Tail1
      /\ \A i \in 1 .. Tail1 : history[persisted + i] = Said(Due + i)
  BY <1>1 DEF SessionInv, TailOK, Tail1, Due
<1>4. Said(spoken + 1) \in Items
  BY <1>2, ItemsSaid
<1>5. PICK longer \in Seq(Items) : longer = Append(history, Said(spoken + 1))
  <2>1. PICK item \in Items : item = Said(spoken + 1)
    BY <1>4
  <2>2. Append(history, item) \in Seq(Items)
    BY <1>2
  <2>3. QED BY <2>1, <2>2
<1>6. /\ Len(longer) = Len(history) + 1 /\ longer[Len(history) + 1] = Said(spoken + 1)
      /\ \A i \in 1 .. Len(history) : longer[i] = history[i]
  BY <1>2, <1>5
<1>7. history' = longer /\ Len(history') = Len(history) + 1
  BY <1>1, <1>5, <1>6
<1>8. Tail1' = Tail1 + 1
  BY <1>1, <1>2, <1>3, <1>7 DEF Tail1
<1>9. Due' = Due
  BY <1>1, <1>2, <1>3, <1>8 DEF Due
<1>10. \A i \in 1 .. Tail1' : history'[persisted' + i] = Said(Due' + i)
  <2> SUFFICES ASSUME NEW i \in 1 .. Tail1 + 1 PROVE longer[persisted + i] = Said(Due + i)
    BY <1>1, <1>7, <1>8, <1>9
  <2>1. CASE i \in 1 .. Tail1
    <3>1. persisted + i \in 1 .. Len(history)
      BY <1>2, <1>3, <2>1
    <3>2. longer[persisted + i] = history[persisted + i]
      BY <1>6, <3>1
    <3>3. QED BY <1>3, <2>1, <3>2
  <2>2. CASE i = Tail1 + 1
    <3>1. persisted + i = Len(history) + 1 /\ Due + i = spoken + 1
      BY <1>2, <1>3, <2>2
    <3>2. QED BY <1>6, <3>1
  <2>3. i \in 1 .. Tail1 \/ i = Tail1 + 1
    BY <1>3
  <2>4. QED BY <2>1, <2>2, <2>3
<1>11. Tail1' \in 0 .. spoken' /\ persisted' <= Len(history')
  BY <1>1, <1>2, <1>3, <1>7, <1>8
<1>12. TailOK'
  BY <1>10, <1>11 DEF TailOK
<1>13. SessionTypes'
  BY <1>1, <1>2, <1>7 DEF SessionInv, SessionTypes
<1>14. UNCHANGED <<transcript, torn, faults>> /\ lost \subseteq lost'
  BY <1>1
<1>15. QED BY <1>9, <1>12, <1>13, <1>14, FileStays

\* Nothing is left behind a mark that stands at the end of the history.
LEMMA MarkedStep ==
  ASSUME SessionInv, phase' = "turn", history' = history, persisted' = Len(history), spoken' = spoken
  PROVE  Due' = spoken /\ TailOK' /\ history' \in Seq(Items) /\ persisted' \in Nat /\ spoken' \in Nat
<1>1. history \in Seq(Items) /\ Len(history) \in Nat /\ spoken \in Nat
  BY DEF SessionInv, SessionTypes
<1>2. Tail1' = 0
  BY <1>1 DEF Tail1
<1>3. Due' = spoken
  BY <1>1, <1>2 DEF Due
<1>4. TailOK'
  BY <1>1, <1>2 DEF TailOK
<1>5. QED BY <1>1, <1>3, <1>4

LEMMA PersistsTailKeeps ==
  ASSUME SessionInv, PersistsTail
  PROVE  SessionInv'
<1>1. /\ phase = "turn" /\ phase' = "turn" /\ history' = history /\ persisted' = Len(history)
      /\ spoken' = spoken /\ UNCHANGED <<lost, faults>> /\ Appended(Lines(Rest(persisted)))
  BY DEF PersistsTail
<1>2. PICK ls : ls = Lines(Rest(persisted))
  OBVIOUS
<1>3. PICK n : n = Due
  OBVIOUS
<1>4. ls \in Seq(LineSet) /\ Continues(ls, n) /\ n \in Nat /\ spoken \in Nat /\ spoken = n + Len(ls)
  BY <1>1, <1>2, <1>3, TailLines
<1>5. Appended(ls)
  BY <1>1, <1>2
<1>6. /\ transcript' \in Seq(LineSet) /\ torn' \in BOOLEAN
      /\ NumberedTo(transcript', spoken) /\ Rising(transcript')
      /\ Covered(spoken, lost, transcript', torn', faults)
  BY <1>3, <1>4, <1>5, AppendAccounts
<1>7. Due' = spoken /\ TailOK' /\ history' \in Seq(Items) /\ persisted' \in Nat /\ spoken' \in Nat
  BY <1>1, MarkedStep
<1>8. SessionTypes'
  BY <1>1, <1>6, <1>7 DEF SessionInv, SessionTypes
<1>9. Covered(spoken, lost', transcript', torn', faults')
  BY <1>1, <1>6
<1>10. QED BY <1>4, <1>6, <1>7, <1>8, <1>9, FileFollows

LEMMA PersistTailFailsKeeps ==
  ASSUME SessionInv, PersistTailFails
  PROVE  SessionInv'
<1>1. /\ phase = "turn" /\ phase' = "turn" /\ history' = history /\ persisted' = Len(history)
      /\ spoken' = spoken /\ lost' = lost \cup MessagesOf(Rest(persisted))
      /\ AppendStops(Lines(Rest(persisted)))
  BY DEF PersistTailFails
<1>2. PICK ls : ls = Lines(Rest(persisted))
  OBVIOUS
<1>3. PICK n : n = Due
  OBVIOUS
<1>4. /\ ls \in Seq(LineSet) /\ Continues(ls, n) /\ n \in Nat /\ spoken \in Nat /\ spoken = n + Len(ls)
      /\ MessagesOf(Rest(persisted)) = n + 1 .. spoken
  BY <1>1, <1>2, <1>3, TailLines
<1>5. AppendStops(ls)
  BY <1>1, <1>2
<1>6. PICK gone : gone = lost' /\ lost \cup (n + 1 .. spoken) \subseteq gone
  BY <1>1, <1>4
<1>7. /\ transcript' \in Seq(LineSet) /\ torn' \in BOOLEAN /\ faults' \in Nat
      /\ NumberedTo(transcript', spoken) /\ Rising(transcript')
      /\ Covered(spoken, gone, transcript', torn', faults')
  BY <1>3, <1>4, <1>5, <1>6, StopAccounts
<1>8. Due' = spoken /\ TailOK' /\ history' \in Seq(Items) /\ persisted' \in Nat /\ spoken' \in Nat
  BY <1>1, MarkedStep
<1>9. SessionTypes'
  BY <1>7, <1>8 DEF SessionTypes
<1>10. Covered(spoken, lost', transcript', torn', faults')
  BY <1>6, <1>7
<1>11. QED BY <1>4, <1>7, <1>8, <1>9, <1>10, FileFollows

\* The reply is one line, which continues what was said.
LEMMA ReplyLine ==
  ASSUME NEW n \in Nat, NEW ls, ls = Lines(<<Said(n + 1)>>)
  PROVE  ls \in Seq(LineSet) /\ Len(ls) = 1 /\ Continues(ls, n)
<1>1. PICK n2 \in Nat : n2 = n + 1
  OBVIOUS
<1>2. Said(n2) \in Items
  BY ItemsSaid
<1>3. ls = [i \in 1 .. 1 |-> Line("message", Said(n2), 0)]
  BY <1>1 DEF Lines
<1>4. Line("message", Said(n2), 0) \in LineSet
  BY <1>2 DEF Line, LineSet
<1>5. ls \in Seq(LineSet) /\ Len(ls) = 1 /\ DOMAIN ls = {1}
  <2>1. PICK line \in LineSet : line = Line("message", Said(n2), 0)
    BY <1>4
  <2>2. PICK one : one = [i \in 1 .. 1 |-> line]
    OBVIOUS
  <2>3. one \in Seq(LineSet) /\ Len(one) = 1 /\ DOMAIN one = {1}
    BY <2>2
  <2>4. ls = one
    BY <1>3, <2>1, <2>2
  <2>5. QED BY <2>3, <2>4
<1>6. ls[1] = Line("message", Said(n + 1), 0)
  BY <1>1, <1>3
<1>7. QED BY <1>5, <1>6 DEF Continues

\* It follows a history that is all flushed.
LEMMA ReplyFollows ==
  ASSUME SessionInv, phase = "turn", persisted >= Len(history), phase' = "idle", spoken' = spoken + 1,
         history' = Append(history, Said(spoken + 1)), persisted' = persisted,
         NEW n \in Nat, n = spoken
  PROVE  /\ history' \in Seq(Items) /\ persisted' \in Nat /\ spoken' \in Nat /\ Due' = spoken' /\ TailOK'
         /\ n = Due
<1>1. /\ history \in Seq(Items) /\ persisted \in Nat /\ spoken \in Nat /\ persisted <= Len(history)
      /\ Len(history) \in Nat
  BY DEF SessionInv, SessionTypes, TailOK
<1>2. Tail1 = 0
  BY <1>1 DEF Tail1
<1>3. n = Due
  BY <1>1, <1>2 DEF Due
<1>4. PICK n2 \in Nat : n2 = n + 1
  OBVIOUS
<1>5. Said(n2) \in Items
  BY ItemsSaid
<1>6. spoken' \in Nat
  OBVIOUS
<1>7. Due' = spoken' /\ TailOK'
  BY <1>6, SettledStep
<1>8. history' \in Seq(Items)
  BY <1>1, <1>4, <1>5
<1>9. QED BY <1>1, <1>3, <1>6, <1>7, <1>8

LEMMA TurnEndsKeeps ==
  ASSUME SessionInv, TurnEnds
  PROVE  SessionInv'
<1>1. /\ phase = "turn" /\ phase' = "idle" /\ persisted >= Len(history) /\ spoken' = spoken + 1
      /\ history' = Append(history, Said(spoken + 1)) /\ persisted' = persisted
      /\ Appended(Lines(<<Said(spoken + 1)>>)) /\ UNCHANGED <<lost, faults>>
  BY DEF TurnEnds
<1>2. PICK n \in Nat : n = spoken
  BY DEF SessionInv, SessionTypes
<1>3. PICK n2 \in Nat : n2 = n + 1
  OBVIOUS
<1>4. PICK ls : ls = Lines(<<Said(n + 1)>>)
  OBVIOUS
<1>5. /\ history' \in Seq(Items) /\ persisted' \in Nat /\ spoken' \in Nat /\ Due' = spoken' /\ TailOK'
      /\ n = Due
  BY <1>1, <1>2, ReplyFollows
<1>6. ls \in Seq(LineSet) /\ Len(ls) = 1 /\ Continues(ls, n)
  BY <1>4, ReplyLine
<1>7. Appended(ls) /\ n2 = n + Len(ls) /\ spoken' = n2
  BY <1>1, <1>2, <1>3, <1>4, <1>6
<1>8. /\ transcript' \in Seq(LineSet) /\ torn' \in BOOLEAN
      /\ NumberedTo(transcript', n2) /\ Rising(transcript')
      /\ Covered(n2, lost, transcript', torn', faults)
  <2>1. n = Due
    BY <1>5
  <2>2. Appended(ls) /\ n2 = n + Len(ls)
    BY <1>7
  <2>3. QED BY <1>6, <2>1, <2>2, AppendAccounts
<1>9. SessionTypes'
  BY <1>1, <1>5, <1>8 DEF SessionInv, SessionTypes
<1>10. Covered(n2, lost', transcript', torn', faults')
  BY <1>1, <1>8
<1>11. QED BY <1>5, <1>7, <1>8, <1>9, <1>10, FileFollows

LEMMA ReplyFailsKeeps ==
  ASSUME SessionInv, ReplyFails
  PROVE  SessionInv'
<1>1. /\ phase = "turn" /\ phase' = "idle" /\ persisted >= Len(history) /\ spoken' = spoken + 1
      /\ history' = Append(history, Said(spoken + 1)) /\ persisted' = persisted
      /\ AppendStops(Lines(<<Said(spoken + 1)>>)) /\ lost' = lost \cup {spoken + 1}
  BY DEF ReplyFails
<1>2. PICK n \in Nat : n = spoken
  BY DEF SessionInv, SessionTypes
<1>3. PICK n2 \in Nat : n2 = n + 1
  OBVIOUS
<1>4. PICK ls : ls = Lines(<<Said(n + 1)>>)
  OBVIOUS
<1>5. /\ history' \in Seq(Items) /\ persisted' \in Nat /\ spoken' \in Nat /\ Due' = spoken' /\ TailOK'
      /\ n = Due
  BY <1>1, <1>2, ReplyFollows
<1>6. ls \in Seq(LineSet) /\ Len(ls) = 1 /\ Continues(ls, n)
  BY <1>4, ReplyLine
<1>7. AppendStops(ls) /\ n2 = n + Len(ls) /\ spoken' = n2
  BY <1>1, <1>2, <1>3, <1>4, <1>6
<1>8. PICK gone : gone = lost' /\ lost \cup (n + 1 .. n2) \subseteq gone
  <2>1. n + 1 .. n2 \subseteq {n2}
    BY <1>3
  <2>2. lost' = lost \cup {n2}
    BY <1>1, <1>2, <1>3
  <2>3. PICK gone : gone = lost'
    OBVIOUS
  <2>4. lost \cup (n + 1 .. n2) \subseteq gone
    BY <2>1, <2>2, <2>3
  <2>5. QED BY <2>3, <2>4
<1>9. /\ transcript' \in Seq(LineSet) /\ torn' \in BOOLEAN /\ faults' \in Nat
      /\ NumberedTo(transcript', n2) /\ Rising(transcript')
      /\ Covered(n2, gone, transcript', torn', faults')
  <2>1. n = Due
    BY <1>5
  <2>2. AppendStops(ls) /\ n2 = n + Len(ls)
    BY <1>7
  <2>3. lost \cup (n + 1 .. n2) \subseteq gone
    BY <1>8
  <2>4. QED BY <1>6, <2>1, <2>2, <2>3, StopAccounts
<1>10. SessionTypes'
  BY <1>5, <1>9 DEF SessionTypes
<1>11. Covered(n2, lost', transcript', torn', faults')
  BY <1>8, <1>9
<1>12. QED BY <1>5, <1>7, <1>9, <1>10, <1>11, FileFollows

LEMMA QuitsKeeps ==
  ASSUME SessionInv, Quits
  PROVE  SessionInv'
<1>1. /\ phase = "idle" /\ phase' = "down" /\ history' = <<>> /\ persisted' = 0
      /\ UNCHANGED <<transcript, torn, spoken, lost, faults>>
  BY DEF Quits
<1>2. Due = spoken /\ spoken \in Nat
  BY <1>1, IdleStep
<1>3. Due' = spoken /\ TailOK'
  BY <1>1, <1>2, SettledStep
<1>4. SessionTypes'
  BY <1>1 DEF SessionInv, SessionTypes
<1>5. UNCHANGED <<transcript, torn, faults>> /\ lost \subseteq lost' /\ Due' = Due
  BY <1>1, <1>2, <1>3
<1>6. QED BY <1>3, <1>4, <1>5, FileStays

\* What stood behind the mark is gone: it counts as lost.
LEMMA TailGone ==
  ASSUME SessionInv, NEW n \in Nat, n = Due, n <= spoken, NEW gone, lost \cup (n + 1 .. spoken) \subseteq gone
  PROVE  NumberedTo(transcript, spoken) /\ Covered(spoken, gone, transcript, torn, faults)
<1>1. torn \in BOOLEAN /\ faults \in Nat /\ spoken \in Nat
  BY DEF SessionInv, SessionTypes
<1>2. NumberedTo(transcript, spoken)
  <2>1. NumberedTo(transcript, n)
    BY DEF SessionInv
  <2>2. \A m \in 1 .. n : m \in 1 .. spoken
    BY <1>1
  <2>3. QED BY <2>1, <2>2 DEF NumberedTo
<1>3. Missing(spoken, gone, transcript) \subseteq Missing(n, lost, transcript)
  <2>1. ASSUME NEW m \in Missing(spoken, gone, transcript) PROVE m \in Missing(n, lost, transcript)
    <3>1. m \in 1 .. spoken /\ m \notin lost /\ m \notin n + 1 .. spoken /\ m \notin Written(transcript)
      BY DEF Missing
    <3>2. m \in 1 .. n
      BY <1>1, <3>1
    <3>3. QED BY <3>1, <3>2 DEF Missing
  <2>2. QED BY <2>1
<1>4. Cardinality(Missing(n, lost, transcript)) + (IF torn THEN 1 ELSE 0) <= faults
  BY DEF SessionInv, Covered
<1>5. IsFiniteSet(Missing(n, lost, transcript))
  BY MissingFinite
<1>6. PICK M : M = Missing(n, lost, transcript)
  OBVIOUS
<1>7. PICK M2 : M2 = Missing(spoken, gone, transcript)
  OBVIOUS
<1>8. Cardinality(M) \in Nat /\ Cardinality(M2) \in Nat /\ Cardinality(M2) <= Cardinality(M)
  BY <1>3, <1>5, <1>6, <1>7, OneMore
<1>9. Cardinality(M2) + (IF torn THEN 1 ELSE 0) <= faults
  BY <1>1, <1>4, <1>6, <1>8
<1>10. QED BY <1>2, <1>7, <1>9 DEF Covered

\* The turn throws: the file stays, and what it had not flushed counts as lost.
LEMMA TurnThrowsKeeps ==
  ASSUME SessionInv, TurnThrows
  PROVE  SessionInv'
<1>1. /\ phase = "turn" /\ phase' = "idle" /\ lost' = lost \cup MessagesOf(Rest(persisted))
      /\ UNCHANGED <<history, persisted, transcript, torn, spoken, faults>>
  BY DEF TurnThrows
<1>2. PICK ls : ls = Lines(Rest(persisted))
  OBVIOUS
<1>3. PICK n : n = Due
  OBVIOUS
<1>4. /\ ls \in Seq(LineSet) /\ n \in Nat /\ spoken \in Nat /\ spoken = n + Len(ls)
      /\ MessagesOf(Rest(persisted)) = n + 1 .. spoken
  BY <1>1, <1>2, <1>3, TailLines
<1>5. PICK gone : gone = lost' /\ lost \cup (n + 1 .. spoken) \subseteq gone
  BY <1>1, <1>4
<1>6. n <= spoken
  BY <1>4
<1>7. NumberedTo(transcript, spoken) /\ Covered(spoken, gone, transcript, torn, faults)
  BY <1>3, <1>4, <1>5, <1>6, TailGone
<1>8. NumberedTo(transcript', spoken) /\ Rising(transcript') /\ Covered(spoken, lost', transcript', torn', faults')
  BY <1>1, <1>5, <1>7 DEF SessionInv
<1>9. Due' = spoken /\ TailOK'
  BY <1>1, <1>4, SettledStep
<1>10. SessionTypes'
  BY <1>1 DEF SessionInv, SessionTypes
<1>11. QED BY <1>4, <1>8, <1>9, <1>10, FileFollows

\* Death between appends: what was due is lost, and the death is a fault.
LEMMA SessionDiesKeeps ==
  ASSUME SessionInv, SessionDies
  PROVE  SessionInv'
<1>1. /\ phase = "turn" /\ phase' = "down" /\ history' = <<>> /\ persisted' = 0 /\ spoken' = spoken
      /\ lost' = lost \cup MessagesOf(Rest(persisted))
  BY DEF SessionDies
<1>2. PICK ls : ls = Lines(Rest(persisted))
  OBVIOUS
<1>3. PICK n : n = Due
  OBVIOUS
<1>4. /\ ls \in Seq(LineSet) /\ Continues(ls, n) /\ n \in Nat /\ spoken \in Nat /\ spoken = n + Len(ls)
      /\ MessagesOf(Rest(persisted)) = n + 1 .. spoken
  BY <1>1, <1>2, <1>3, TailLines
<1>5. PICK gone : gone = lost' /\ lost \cup (n + 1 .. spoken) \subseteq gone
  BY <1>1, <1>4
<1>6. torn \in BOOLEAN /\ faults \in Nat /\ transcript \in Seq(LineSet)
  BY DEF SessionInv, SessionTypes
<1>7. /\ transcript' \in Seq(LineSet) /\ torn' \in BOOLEAN /\ faults' \in Nat
      /\ NumberedTo(transcript', spoken) /\ Rising(transcript')
      /\ Covered(spoken, gone, transcript', torn', faults')
  <2>1. CASE AppendStops(Lines(Rest(persisted)))
    <3>1. AppendStops(ls)
      BY <1>2, <2>1
    <3>2. QED BY <1>3, <1>4, <1>5, <3>1, StopAccounts
  <2>2. CASE faults' = faults + 1 /\ UNCHANGED <<transcript, torn>>
    <3>1. n <= spoken
      BY <1>4
    <3>2. NumberedTo(transcript, spoken) /\ Covered(spoken, gone, transcript, torn, faults)
      BY <1>3, <1>4, <1>5, <3>1, TailGone
    <3>3. PICK M : M = Missing(spoken, gone, transcript)
      OBVIOUS
    <3>4. Cardinality(M) + (IF torn THEN 1 ELSE 0) <= faults /\ Cardinality(M) \in Nat
      BY <1>4, <3>2, <3>3, MissingFinite DEF Covered
    <3>5. Cardinality(M) + (IF torn THEN 1 ELSE 0) <= faults + 1
      BY <1>6, <3>4
    <3>6. Covered(spoken, gone, transcript', torn', faults')
      BY <2>2, <3>3, <3>5 DEF Covered
    <3>7. NumberedTo(transcript', spoken) /\ Rising(transcript')
      BY <2>2, <3>2 DEF SessionInv
    <3>8. QED BY <1>6, <2>2, <3>6, <3>7
  <2>3. QED BY <2>1, <2>2 DEF SessionDies
<1>8. Due' = spoken /\ TailOK'
  BY <1>1, <1>4, SettledStep
<1>9. SessionTypes'
  BY <1>1, <1>4, <1>7 DEF SessionTypes
<1>10. Covered(spoken, lost', transcript', torn', faults')
  BY <1>5, <1>7
<1>11. QED BY <1>4, <1>7, <1>8, <1>9, <1>10, FileFollows

LEMMA ResumesKeeps ==
  ASSUME SessionInv, Resumes
  PROVE  SessionInv'
<1>1. /\ phase = "down" /\ phase' = "idle" /\ history' = Loaded(transcript)
      /\ persisted' = Len(history') /\ UNCHANGED <<transcript, torn, spoken, lost, faults>>
  BY DEF Resumes
<1>2. Due = spoken /\ spoken \in Nat
  BY <1>1, IdleStep
<1>3. Due' = spoken /\ TailOK'
  BY <1>1, <1>2, SettledStep
<1>4. PICK items \in Seq(Items) : items = Loaded(transcript)
  BY LoadedTypes
<1>5. history' \in Seq(Items) /\ persisted' \in Nat
  BY <1>1, <1>4
<1>6. SessionTypes'
  BY <1>1, <1>5 DEF SessionInv, SessionTypes
<1>7. UNCHANGED <<transcript, torn, faults>> /\ lost \subseteq lost' /\ Due' = Due
  BY <1>1, <1>2, <1>3
<1>8. QED BY <1>3, <1>6, <1>7, FileStays

LEMMA SessionStays ==
  ASSUME SessionInv, [SessionNext]_sessionVars
  PROVE  SessionInv'
<1>1. CASE UNCHANGED sessionVars
  <2>1. UNCHANGED <<history, persisted, transcript, torn, phase, spoken, lost, faults>>
    BY <1>1 DEF sessionVars
  <2>2. Due' = Due /\ lost \subseteq lost'
    BY <2>1 DEF Due, Tail1
  <2>3. SessionTypes' /\ TailOK'
    BY <2>1 DEF SessionInv, SessionTypes, TailOK, Due, Tail1
  <2>4. UNCHANGED <<transcript, torn, faults>>
    BY <2>1
  <2>5. QED BY <2>2, <2>3, <2>4, FileStays
<1>2. CASE TurnBegins
  BY <1>2, TurnBeginsKeeps
<1>3. CASE StepSpeaks
  BY <1>3, StepSpeaksKeeps
<1>4. CASE PersistsTail
  BY <1>4, PersistsTailKeeps
<1>5. CASE PersistTailFails
  BY <1>5, PersistTailFailsKeeps
<1>6. CASE TurnEnds
  BY <1>6, TurnEndsKeeps
<1>7. CASE Quits
  BY <1>7, QuitsKeeps
<1>8. CASE SessionDies
  BY <1>8, SessionDiesKeeps
<1>9. CASE Resumes
  BY <1>9, ResumesKeeps
<1>10. ASSUME NEW summarised \in BOOLEAN,
              \/ CompactsNow(summarised) \/ CompactsInVain(summarised)
              \/ MarkerFails(summarised) \/ TurnCompacts(summarised)
       PROVE  SessionInv'
  BY <1>10, CompactsNowKeeps, InVainKeeps, MarkerFailsKeeps, TurnCompactsKeeps
<1>11. CASE ReplyFails
  BY <1>11, ReplyFailsKeeps
<1>12. CASE TurnThrows
  BY <1>12, TurnThrowsKeeps
<1>13. CASE ClearsHistory
  BY <1>13, ClearingKeeps
<1>14. QED BY <1>1, <1>2, <1>3, <1>4, <1>5, <1>6, <1>7, <1>8, <1>9, <1>10, <1>11, <1>12, <1>13 DEF SessionNext

LEMMA KeptByInv ==
  ASSUME SessionInv
  PROVE  TranscriptKept
<1> SUFFICES ASSUME phase # "turn" PROVE TranscriptKept
  BY DEF TranscriptKept
<1>1. transcript \in Seq(LineSet) /\ DOMAIN transcript = 1 .. Len(transcript) /\ Len(transcript) \in Nat
  BY DEF SessionInv, SessionTypes
<1>2. Due = spoken /\ spoken \in Nat
  BY IdleStep
<1>3. PICK places \in SUBSET (1 .. Len(transcript)) : places = Whole(transcript, "message")
  <2>1. Whole(transcript, "message") \in SUBSET (1 .. Len(transcript))
    BY <1>1 DEF Whole
  <2>2. QED BY <2>1
<1>4. PICK size \in Nat : size = Cardinality(places)
  BY <1>1, NthPlaces
<1>5. /\ \A n \in 1 .. size : Nth(places, n) \in places
      /\ \A n, k \in 1 .. size : n < k => Nth(places, n) < Nth(places, k)
      /\ \A i \in places : \E n \in 1 .. size : Nth(places, n) = i
  BY <1>1, <1>4, NthPlaces
<1> DEFINE said == [i \in DOMAIN Raw(transcript) |-> Raw(transcript)[i].item]
<1>6. Raw(transcript) = [n \in 1 .. size |-> transcript[Nth(places, n)]]
  BY <1>3, <1>4, PickedPlaces DEF Raw
<1>7. said = [n \in 1 .. size |-> transcript[Nth(places, n)].item]
  BY <1>6
<1>8. PICK items : items = said
  OBVIOUS
<1>9. DOMAIN items = 1 .. size /\ \A n \in 1 .. size : items[n] = transcript[Nth(places, n)].item
  BY <1>7, <1>8
<1>10. ASSUME NEW i \in DOMAIN items, NEW j \in DOMAIN items, i < j,
              NEW m \in items[i].says, NEW n \in items[j].says
       PROVE  m < n
  <2>1. PICK a \in places : a = Nth(places, i) /\ items[i] = transcript[a].item
    BY <1>5, <1>9
  <2>2. PICK b \in places : b = Nth(places, j) /\ items[j] = transcript[b].item
    BY <1>5, <1>9
  <2>3. a < b
    BY <1>5, <1>9, <1>10, <2>1, <2>2
  <2>4. m \in transcript[a].item.says /\ n \in transcript[b].item.says
    BY <2>1, <2>2
  <2>5. a \in Whole(transcript, "message") /\ b \in Whole(transcript, "message")
    BY <1>3
  <2>6. QED BY <2>3, <2>4, <2>5 DEF SessionInv, Rising
<1>11. MessagesOf(items) = Written(transcript)
  <2>1. ASSUME NEW m \in MessagesOf(items) PROVE m \in Written(transcript)
    <3>1. PICK n \in 1 .. size : m \in items[n].says
      BY <1>9 DEF MessagesOf
    <3>2. Nth(places, n) \in Whole(transcript, "message") /\ m \in transcript[Nth(places, n)].item.says
      BY <1>3, <1>5, <1>9, <3>1
    <3>3. QED BY <3>2 DEF Written
  <2>2. ASSUME NEW m \in Written(transcript) PROVE m \in MessagesOf(items)
    <3>1. PICK i \in places : m \in transcript[i].item.says
      BY <1>3 DEF Written
    <3>2. PICK n \in 1 .. size : Nth(places, n) = i
      BY <1>5
    <3>3. m \in items[n].says
      BY <1>9, <3>1, <3>2
    <3>4. QED BY <1>9, <3>3 DEF MessagesOf
  <2>3. QED BY <2>1, <2>2
<1>12. Cardinality(((1 .. spoken) \ lost) \ MessagesOf(items)) <= faults
  <2>1. PICK M : M = Missing(spoken, lost, transcript)
    OBVIOUS
  <2>2. Cardinality(M) + (IF torn THEN 1 ELSE 0) <= faults
    BY <1>2, <2>1 DEF SessionInv, Covered
  <2>3. Cardinality(M) \in Nat
    BY <1>2, <2>1, MissingFinite
  <2>4. torn \in BOOLEAN /\ faults \in Nat
    BY DEF SessionInv, SessionTypes
  <2>5. Cardinality(M) <= faults
    BY <2>2, <2>3, <2>4
  <2>6. M = ((1 .. spoken) \ lost) \ MessagesOf(items)
    BY <1>11, <2>1 DEF Missing
  <2>7. QED BY <2>5, <2>6
<1>13. /\ \A i, j \in DOMAIN said : i < j => \A m \in said[i].says, n \in said[j].says : m < n
       /\ Cardinality(((1 .. spoken) \ lost) \ MessagesOf(said)) <= faults
  BY <1>8, <1>10, <1>12
<1>14. QED BY <1>13 DEF TranscriptKept

\* Between turns the file holds what was said, once and in order; a fault costs at most one
\* message besides those of its own append, and a turn that threw costs what it had not
\* flushed (appendMessages, persistTurnTail, loadSession).
THEOREM TranscriptStays == SessionSpec => []TranscriptKept
<1>1. SessionInit => SessionInv
  BY SessionStarts
<1>2. SessionInv /\ [SessionNext]_sessionVars => SessionInv'
  BY SessionStays
<1>3. SessionInv => TranscriptKept
  BY KeptByInv
<1>4. QED BY <1>1, <1>2, <1>3, PTL DEF SessionSpec
=============================================================================
