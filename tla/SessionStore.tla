----------------------------- MODULE SessionStore -----------------------------
(***************************************************************************)
(* A saved conversation: the append-only JSONL file (src/src/agent/        *)
(* session.ts), the turn that writes to it (runTurn in src/src/commands/   *)
(* launch.ts) and the compaction of the history in memory (src/src/agent/  *)
(* compaction.ts).                                                         *)
(*                                                                         *)
(* Messages are numbered as they are spoken.  An item of the history is a  *)
(* message or a summary, with the messages it speaks for.  The history in  *)
(* memory begins with the system prompt, which is never written to the     *)
(* file and is left out here.                                              *)
(***************************************************************************)
EXTENDS Naturals, Sequences, FiniteSetsExt

CONSTANTS KeepRecent,   \* messages a compaction keeps (keepRecent)
          MaxMessages,  \* bound: messages of the conversation
          MaxMarkers,   \* bound: compactions
          MaxFaults     \* bound: appends that fail and deaths of the process

ASSUME SessionBounds == KeepRecent \in Nat

VARIABLES
  history,    \* the conversation in memory, without the system prompt
  persisted,  \* persistedLen: the part of the history known to be written
  transcript, \* the lines of the file after its header
  torn,       \* the file ends in a fragment without a newline
  phase,      \* "idle" at the prompt, "turn", "down"
  spoken,     \* number of the last message
  lost,       \* ghost: messages that no completed append wrote: their append stopped, the
              \* process died before it, or the turn threw before it
  faults      \* ghost: appends that failed and deaths so far

sessionVars == <<history, persisted, transcript, torn, phase, spoken, lost, faults>>

SessionInit ==
  /\ history = <<>> /\ transcript = <<>> /\ torn = FALSE /\ phase = "idle"
  /\ persisted = 0 /\ spoken = 0 /\ lost = {} /\ faults = 0

Said(n) == [summary |-> FALSE, says |-> {n}]
Summary(messages) == [summary |-> TRUE, says |-> messages]
MessagesOf(items) == UNION {items[i].says : i \in DOMAIN items}
Line(kind, item, through) == [kind |-> kind, item |-> item, through |-> through, parses |-> TRUE]
Lines(items) == [i \in DOMAIN items |-> Line("message", items[i], 0)]
Rest(from) == SubSeq(history, from + 1, Len(history))

---------------------------------------------------------------------------
(* The file                                                                *)

\* Appended text continues an unterminated line, which then does not parse.
Glued(lines) == IF torn /\ lines # <<>> THEN [lines EXCEPT ![1].parses = FALSE] ELSE lines

Appended(lines) == transcript' = transcript \o Glued(lines) /\ torn' = (torn /\ lines = <<>>)

\* An append that stops half-way leaves whole lines and maybe a fragment.
AppendStops(lines) ==
  /\ lines # <<>> /\ faults < MaxFaults /\ faults' = faults + 1
  /\ \E n \in 0 .. Len(lines) - 1, fragment \in BOOLEAN :
       /\ transcript' = transcript \o SubSeq(Glued(lines), 1, n)
       /\ torn' = (fragment \/ (torn /\ n = 0))

\* The lines of a kind that parse, by their places, and what stands in some places of a
\* sequence, in its order.
Whole(lines, kind) == {i \in DOMAIN lines : lines[i].kind = kind /\ lines[i].parses}
Picked(lines, places) ==
  [n \in 1 .. Cardinality(places) |->
     lines[CHOOSE i \in places : Cardinality({j \in places : j < i}) = n - 1]]

\* loadSession skips the lines that do not parse.
Raw(lines) == Picked(lines, Whole(lines, "message"))

\* The last compaction replaces the messages up to and including its index, which
\* counts the messages of the file from 0.
Loaded(lines) ==
  LET raw == [i \in DOMAIN Raw(lines) |-> Raw(lines)[i].item]
      comps == Whole(lines, "compaction")
      last == lines[Max(comps)]
  IN IF comps = {} THEN raw
     ELSE <<last.item>> \o SubSeq(raw, last.through + 2, Len(raw))

---------------------------------------------------------------------------
(* Compaction                                                              *)

\* The idempotence guard, and nothing to summarise.
MayCompact ==
  /\ Len(history) > 0 /\ ~(history[1].summary /\ Len(history) <= KeepRecent + 1)
  /\ Cardinality({i \in DOMAIN transcript : transcript[i].kind = "compaction"}) < MaxMarkers

OlderCount == IF KeepRecent < Len(history) THEN Len(history) - KeepRecent ELSE 1
Older == SubSeq(history, 1, OlderCount)

\* With the summary, or without it when the summariser failed for good.
Compacted(summarised) ==
  (IF summarised THEN <<Summary(MessagesOf(Older))>> ELSE <<>>) \o Rest(OlderCount)

\* replacesThrough = systemCount + older.length - 1, an index into the history in
\* memory with its system prompt.
Marker == Line("compaction", Summary(MessagesOf(Older)), OlderCount)

\* /compact at the prompt.
CompactsNow(summarised) ==
  /\ phase = "idle" /\ MayCompact
  /\ history' = Compacted(summarised) /\ Appended(<<Marker>>)
  /\ UNCHANGED <<persisted, phase, spoken, lost, faults>>

\* What it kept is still too large for the model's window: an error, and no marker.
CompactsInVain(summarised) ==
  /\ phase = "idle" /\ MayCompact /\ history' = Compacted(summarised)
  /\ UNCHANGED <<persisted, transcript, torn, phase, spoken, lost, faults>>

\* The append of the marker throws: a turn's preflight ends, or the process does.
MarkerFails(summarised) ==
  /\ phase = "idle" /\ MayCompact /\ AppendStops(<<Marker>>)
  /\ \/ history' = Compacted(summarised) /\ UNCHANGED <<phase, persisted>>
     \/ history' = <<>> /\ phase' = "down" /\ persisted' = 0
  /\ UNCHANGED <<spoken, lost>>

\* /clear empties the history; the file stays as it is.
ClearsHistory ==
  /\ phase = "idle" /\ history' = <<>>
  /\ UNCHANGED <<persisted, transcript, torn, phase, spoken, lost, faults>>

---------------------------------------------------------------------------
(* The turn                                                                *)

\* Preflight: compaction where it is due, then the prompt.  What is in the history
\* now counts as written.
TurnBegins ==
  /\ phase = "idle" /\ spoken < MaxMessages /\ phase' = "turn" /\ spoken' = spoken + 1
  /\ history' = Append(history, Said(spoken + 1)) /\ persisted' = Len(history)
  /\ UNCHANGED <<transcript, torn, lost, faults>>

\* Defect: the mark is not set again after the history has shrunk.
TurnCompactsOnly(summarised) ==
  /\ phase = "idle" /\ MayCompact /\ spoken < MaxMessages /\ phase' = "turn"
  /\ history' = Append(Compacted(summarised), Said(spoken + 1)) /\ spoken' = spoken + 1
  /\ persisted' = Len(history) /\ Appended(<<Marker>>)
  /\ UNCHANGED <<lost, faults>>

TurnCompacts(summarised) ==
  /\ phase = "idle" /\ MayCompact /\ spoken < MaxMessages /\ phase' = "turn"
  /\ history' = Append(Compacted(summarised), Said(spoken + 1)) /\ spoken' = spoken + 1
  /\ persisted' = Len(Compacted(summarised)) /\ Appended(<<Marker>>)
  /\ UNCHANGED <<lost, faults>>

\* A step adds its messages to the history.
StepSpeaks ==
  /\ phase = "turn" /\ spoken < MaxMessages
  /\ history' = Append(history, Said(spoken + 1)) /\ spoken' = spoken + 1
  /\ UNCHANGED <<persisted, transcript, torn, phase, lost, faults>>

\* persistTurnTail: what is new goes to the file in one append; the mark moves
\* first, so a failed append is not tried again.
PersistsTail ==
  /\ phase = "turn" /\ persisted' = Len(history)
  /\ Appended(Lines(Rest(persisted)))
  /\ UNCHANGED <<history, phase, spoken, lost, faults>>

PersistTailFails ==
  /\ phase = "turn" /\ persisted' = Len(history)
  /\ AppendStops(Lines(Rest(persisted))) /\ lost' = lost \cup MessagesOf(Rest(persisted))
  /\ UNCHANGED <<history, phase, spoken>>

\* After the last flush the reply is written and the turn is over.
TurnEnds ==
  /\ phase = "turn" /\ persisted >= Len(history) /\ spoken < MaxMessages /\ phase' = "idle"
  /\ history' = Append(history, Said(spoken + 1)) /\ spoken' = spoken + 1
  /\ Appended(Lines(<<Said(spoken + 1)>>))
  /\ UNCHANGED <<persisted, lost, faults>>

\* The append of the reply throws.
ReplyFails ==
  /\ phase = "turn" /\ persisted >= Len(history) /\ spoken < MaxMessages /\ phase' = "idle"
  /\ history' = Append(history, Said(spoken + 1)) /\ spoken' = spoken + 1
  /\ AppendStops(Lines(<<Said(spoken + 1)>>)) /\ lost' = lost \cup {spoken + 1}
  /\ UNCHANGED persisted

\* An abort or an error throws out of the turn before its last flush and the prompt
\* comes back: what the history holds behind the mark is never written, for the next
\* turn takes it for written.
TurnThrows ==
  /\ phase = "turn" /\ phase' = "idle" /\ lost' = lost \cup MessagesOf(Rest(persisted))
  /\ UNCHANGED <<history, persisted, transcript, torn, spoken, faults>>

---------------------------------------------------------------------------
(* Leaving, dying, resuming                                                *)

\* The draft is saved by reading the file and writing it back: the lines stay.
Quits ==
  /\ phase = "idle" /\ phase' = "down" /\ history' = <<>> /\ persisted' = 0
  /\ UNCHANGED <<transcript, torn, spoken, lost, faults>>

\* The process dies between appends or in the middle of one.
SessionDies ==
  /\ phase = "turn" /\ phase' = "down" /\ history' = <<>> /\ persisted' = 0
  /\ \/ AppendStops(Lines(Rest(persisted)))
     \/ faults < MaxFaults /\ faults' = faults + 1 /\ UNCHANGED <<transcript, torn>>
  /\ lost' = lost \cup MessagesOf(Rest(persisted))
  /\ UNCHANGED spoken

Resumes ==
  /\ phase = "down" /\ phase' = "idle" /\ history' = Loaded(transcript)
  /\ persisted' = Len(history')
  /\ UNCHANGED <<transcript, torn, spoken, lost, faults>>

SessionNext ==
  \/ TurnBegins \/ StepSpeaks \/ PersistsTail \/ PersistTailFails
  \/ TurnEnds \/ ReplyFails \/ TurnThrows \/ ClearsHistory \/ Quits \/ SessionDies \/ Resumes
  \/ \E summarised \in BOOLEAN :
       \/ CompactsNow(summarised) \/ CompactsInVain(summarised)
       \/ MarkerFails(summarised) \/ TurnCompacts(summarised)

SessionSpec == SessionInit /\ [][SessionNext]_sessionVars

---------------------------------------------------------------------------
(* Properties                                                              *)

\* Between turns the file holds the messages spoken, once each and in order; an
\* append that stopped costs, besides its own messages, at most the one message
\* that was written behind its fragment, and a turn that threw costs what it had not
\* yet flushed (appendMessages, persistTurnTail, loadSession).
TranscriptKept ==
  LET items == [i \in DOMAIN Raw(transcript) |-> Raw(transcript)[i].item] IN
  phase # "turn" =>
    /\ \A i, j \in DOMAIN items : i < j => \A m \in items[i].says, n \in items[j].says : m < n
    /\ Cardinality(((1 .. spoken) \ lost) \ MessagesOf(items)) <= faults

\* Resuming a session finds the messages that compaction kept, if all were written
\* (docs/minimo: /resume reconstructs history applying the compaction markers).
ResumeFindsKept ==
  LET Kept(items) == MessagesOf(SelectSeq(items, LAMBDA item : ~item.summary)) IN
  phase = "idle" /\ faults = 0 /\ lost = {} => Kept(history) \subseteq Kept(Loaded(transcript))
=============================================================================
