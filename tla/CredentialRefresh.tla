-------------------------- MODULE CredentialRefresh --------------------------
(***************************************************************************)
(* One provider's OAuth record: refreshOAuthToken (src/src/auth/refresh.ts)*)
(* and the logins and logouts of src/src/auth/storage.ts, in processes that*)
(* share the record and the provider's lock file; jeo setup (src/src/      *)
(* commands/setup.ts), which saves the config it read some questions ago.  *)
(*                                                                         *)
(* The provider rotates: an exchange uses a refresh token up and issues the*)
(* next.  Tokens are numbered; 0 is no record, Pasted a bare token that was *)
(* typed in, which no refresh exchanges.  saveConfigPatch is one step here *)
(* (ConfigStore has its steps).                                            *)
(***************************************************************************)
EXTENDS FileLock

CONSTANTS MaxToken,  \* bound: tokens the provider issues
          Overstay   \* where a living holder of the lock may outlast its threshold

ASSUME MaxTokenAssumption == MaxToken \in Nat \ {0}

VARIABLES
  credential, \* the refresh token in the record, or Pasted
  expired,    \* the tokens whose access token is about to expire
  usable,     \* the tokens the provider would still exchange
  issued,     \* tokens the provider has issued
  read,       \* the token each client read under the lock
  answer,     \* what the provider answered each client: a token, Refused or Lost
  copied,     \* the record in the config that a setup has read, or NoCopy
  orphaned,   \* ghost: tokens the provider will not take although nobody could have
              \* stored their successor, and those a setup put back after their use
  unlocked    \* ghost: the record was last changed by one who takes no lock

credVars == <<credential, expired, usable, issued, read, answer, copied, orphaned, unlocked>>
refreshVars == <<lockVars, credVars>>

Refused == 0
Lost == MaxToken + 1
Pasted == MaxToken + 2
NoCopy == MaxToken + 3

\* The record holds token 1, which the provider may have revoked.
CredInit ==
  /\ LockInit
  /\ credential = 1 /\ expired = {1} /\ issued = 1
  /\ usable \in {{}, {1}} /\ orphaned = {1} \ usable
  /\ read = [c \in Client |-> 0] /\ answer = [c \in Client |-> Refused]
  /\ copied = NoCopy /\ unlocked = FALSE

\* Defect: whoever found the token expired exchanges it without a second look.
ReadsOnce(c) ==
  /\ Moves(c, "held", "exchange") /\ read' = [read EXCEPT ![c] = 1]
  /\ UNCHANGED <<file, due, credential, expired, usable, issued, answer, copied, orphaned, unlocked>>

\* The record is read again under the lock: another process may have refreshed, or
\* there is none that can be.
ReadsRecord(c) ==
  /\ Moves(c, "held", IF credential \in {0, Pasted} \/ credential \notin expired THEN "release" ELSE "exchange")
  /\ read' = [read EXCEPT ![c] = credential]
  /\ UNCHANGED <<file, due, credential, expired, usable, issued, answer, copied, orphaned, unlocked>>

\* The provider handles the request.
Exchanges(c) ==
  /\ Moves(c, "exchange", "answer")
  /\ IF read[c] \in usable
     THEN /\ issued < MaxToken /\ issued' = issued + 1
          /\ usable' = (usable \ {read[c]}) \cup {issued'}
          /\ \/ answer' = [answer EXCEPT ![c] = issued'] /\ UNCHANGED orphaned
             \/ answer' = [answer EXCEPT ![c] = Lost] /\ orphaned' = orphaned \cup {read[c]}
     ELSE answer' = [answer EXCEPT ![c] = Refused] /\ UNCHANGED <<issued, usable, orphaned>>
  /\ UNCHANGED <<file, due, credential, expired, read, copied, unlocked>>

\* A transient failure (the answer was lost) keeps the record.
Answered(c) ==
  /\ Moves(c, "answer", CASE answer[c] = Refused -> "clear"
                          [] answer[c] = Lost -> "release"
                          [] OTHER -> "persist")
  /\ UNCHANGED <<file, due, credVars>>

Persists(c) ==
  /\ Moves(c, "persist", "release") /\ credential' = answer[c] /\ unlocked' = FALSE
  /\ UNCHANGED <<file, due, expired, usable, issued, read, answer, copied, orphaned>>

\* clearOauthToken after a definitive refusal: the record goes whatever it holds.
Clears(c) ==
  /\ Moves(c, "clear", "release") /\ credential' = 0 /\ unlocked' = FALSE
  /\ UNCHANGED <<file, due, expired, usable, issued, read, answer, copied, orphaned>>

\* setOauthCredential: a login has a fresh token and stores it under the lock.
LogsIn(c) ==
  /\ Moves(c, "held", "release") /\ issued < MaxToken
  /\ issued' = issued + 1 /\ usable' = usable \cup {issued'} /\ credential' = issued'
  /\ unlocked' = FALSE /\ UNCHANGED <<file, due, expired, read, answer, copied, orphaned>>

\* clearOauthToken for the user, without the lock.
LogsOut ==
  /\ credential # 0 /\ credential' = 0 /\ unlocked' = TRUE
  /\ UNCHANGED <<lockVars, expired, usable, issued, read, answer, copied, orphaned>>

\* setOauthToken: a pasted token is stored without the lock.
Pastes ==
  /\ credential # Pasted /\ credential' = Pasted /\ unlocked' = TRUE
  /\ UNCHANGED <<lockVars, expired, usable, issued, read, answer, copied, orphaned>>

\* A setup reads the config, and the record once more after a login.
SetupReads ==
  /\ copied # credential /\ copied' = credential
  /\ UNCHANGED <<lockVars, credential, expired, usable, issued, read, answer, orphaned, unlocked>>

\* Its last step writes all of it back, without a lock.
SetupSaves ==
  /\ copied # NoCopy /\ credential' = copied /\ copied' = NoCopy /\ unlocked' = TRUE
  /\ orphaned' = orphaned \cup ({copied} \ ({0, Pasted} \cup usable))
  /\ UNCHANGED <<lockVars, expired, usable, issued, read, answer>>

AccessExpires ==
  /\ credential \notin expired \cup {0, Pasted} /\ expired' = expired \cup {credential}
  /\ UNCHANGED <<lockVars, credential, usable, issued, read, answer, copied, orphaned, unlocked>>

\* A process that dies with an unstored answer takes the token with it.
DiesHolding(c) ==
  /\ Dies(c)
  /\ orphaned' = IF at[c] \in {"answer", "persist"} /\ answer[c] \in 1 .. MaxToken
                 THEN orphaned \cup {read[c]} ELSE orphaned
  /\ UNCHANGED <<credential, expired, usable, issued, read, answer, copied, unlocked>>

CredStep(c) ==
  \/ (Asks(c) \/ LockSteps(c) \/ Releases(c) \/ Expires(c)) /\ UNCHANGED credVars
  \/ ReadsRecord(c) \/ Exchanges(c) \/ Answered(c) \/ Persists(c) \/ Clears(c)
  \/ LogsIn(c) \/ DiesHolding(c)

CredNext ==
  \/ \E c \in Client : CredStep(c)
  \/ GrowsOld(Overstay) /\ UNCHANGED credVars
  \/ LogsOut \/ Pastes \/ SetupReads \/ SetupSaves \/ AccessExpires

CredSpec == CredInit /\ [][CredNext]_refreshVars

---------------------------------------------------------------------------
(* Properties                                                              *)

\* What a refresh removes after a definitive refusal, or replaces by the successor, is
\* the record it has read, never a token that another process's refresh or a login under
\* the lock has stored since; only the record that a logout, a pasted token or a setup
\* has left there, without the lock, is removed or replaced unseen.  Like NoSelfLogout it
\* takes a holder that does not outlast the lock's threshold.
FreshKept ==
  [][\A c \in Client : at[c] \in {"clear", "persist"} /\ at'[c] = "release" =>
       unlocked \/ credential = read[c]]_refreshVars

\* A refresh is refused only when the provider's answer to an earlier exchange was lost
\* or died with its process, or when a setup has put a used token back: two processes
\* that refresh at once never spend one token twice and log the user out.
NoSelfLogout == \A c \in Client : at[c] = "clear" => read[c] \in orphaned
=============================================================================
