--------------------------------- MODULE FileEdits ---------------------------------
(***************************************************************************)
(* The file calls of one batch (the groups of executeTool calls in         *)
(* src/src/agent/engine.ts, and readTool, writeTool, editTool and          *)
(* deleteTool in src/src/agent/tools.ts): consecutive reads run            *)
(* together, consecutive writes to distinct files run together, anything   *)
(* else alone; an edit reads its file and writes it later.                 *)
(*                                                                         *)
(* The model asks for a batch after it has seen the files; each line it    *)
(* saw carried an anchor, the hash of its text.  Since then somebody may   *)
(* have changed them.  A line is a number that stands for its text and for *)
(* its anchor; 0 is the empty line.  A file is its lines.                  *)
(***************************************************************************)
EXTENDS Integers, Sequences, FiniteSetsExt

CONSTANTS Path,      \* spellings of paths
          Opening,   \* bound: those the first call may use; as they are alike, one will do
          Folded,    \* their case-folded form
          View,      \* the lines of every file when the model saw it
          Origins,   \* what a file may be when the batch begins: its lines, or Absent
          Forms,     \* calls the model may ask for, but for their path
          BatchSize  \* bound: calls in a batch

\* In place of the lines of a file that is not there.
Absent == <<-1>>
Tools == {"read", "write", "delete", "append", "insert", "search", "replace"}

\* A file has at least one line, and so has what is put into one.  A call names its
\* lines in their order; only the text and the anchor of a line that was seen are known.
ASSUME FormsAssumption ==
  /\ View \in Seq(Nat) \ {<<>>} /\ Origins \subseteq (Seq(Nat) \ {<<>>}) \cup {Absent}
  /\ Forms \subseteq [tool : Tools, first : Nat, last : Nat, marks : SUBSET {"first", "last"}, size : Nat \ {0}]
  /\ \A form \in Forms :
       /\ form.first <= form.last
       /\ form.tool = "search" \/ form.marks # {} => form.first > 0 /\ form.last <= Len(View)
       /\ form.tool \in {"search", "append"} => form.marks = {}
       /\ form.tool = "replace" => form.first > 0
       /\ form.tool = "insert" => form.last = form.first /\ form.marks \subseteq {"first"}

VARIABLES
  anycase,   \* the file system takes the folded spellings for one
  workspace, \* the lines of each file, or Absent
  readPaths, \* readThisSession: the paths read or written in this session
  fileCalls, \* the calls
  group,     \* of each call: the first call of its group
  stage,     \* of each call: "todo", "loaded" or "done"
  linesOf,   \* of each call: the lines it loaded, or has written
  reported,  \* "none" (not executed), "ok", "no" or "refused"
  before     \* ghost: the files before the batch

editVars == <<anycase, workspace, readPaths, fileCalls, group, stage, linesOf, reported, before>>

Files == Path \cup {Folded[p] : p \in Path}
FileOf(p) == IF anycase THEN Folded[p] ELSE p
FileAt(i) == FileOf(fileCalls[i].path)

\* A call: its path, the lines of the view it names, those of them that carry
\* their anchors, and the number of new lines.
CallOf(form, p) ==
  [path |-> p, tool |-> form.tool, first |-> form.first, last |-> form.last,
   marks |-> form.marks, size |-> form.size]
\* The new lines of call i.
NewLines(i) == [k \in 1 .. fileCalls[i].size |-> 10 * i + k]

EditsInit ==
  /\ anycase \in BOOLEAN /\ before \in [Files -> Origins]
  /\ workspace = before /\ readPaths = {} /\ fileCalls = <<>> /\ group = <<>>
  /\ stage = <<>> /\ linesOf = <<>> /\ reported = <<>>

---------------------------------------------------------------------------
(* The groups of a batch                                                   *)

GroupKind(call) ==
  CASE call.tool = "read" -> "read" [] call.tool = "delete" -> "exclusive" [] OTHER -> "write"
\* targetFile(); the defect takes the path as it is spelled.
FileKeyAsSpelled(p) == p
FileKey(p) == Folded[p]

\* The next call joins the last group.
Joins(call) ==
  LET first == group[Len(group)] IN
  /\ fileCalls # <<>> /\ GroupKind(call) # "exclusive"
  /\ GroupKind(call) = GroupKind(fileCalls[first])
  /\ GroupKind(call) = "write" =>
       \A j \in first .. Len(group) : FileKey(fileCalls[j].path) # FileKey(call.path)

\* Call i may begin: the groups before its own are over.
MayBegin(i) == stage[i] = "todo" /\ \A j \in 1 .. group[i] - 1 : stage[j] = "done"

---------------------------------------------------------------------------
(* What an edit makes of the lines it loaded                               *)

LineAt(content, i) == IF i \in DOMAIN content THEN content[i] ELSE 0
Spliced(content, s, e, lines) == SubSeq(content, 1, s - 1) \o lines \o SubSeq(content, e + 1, Len(content))
PutAtEnd(content, payload) ==
  IF content[Len(content)] = 0 THEN SubSeq(content, 1, Len(content) - 1) \o payload ELSE content \o payload

\* anchorMismatch(): the anchors of a call that are not at the lines s and e.
WrongMarks(call, content, s, e) ==
  {mark \in call.marks :
     IF mark = "first" THEN LineAt(content, s) # View[call.first] ELSE LineAt(content, e) # View[call.last]}

\* locateAnchor(): the only line near i that carries it.
RemapWindow == 64
Near(content, line, i) ==
  {k \in DOMAIN content : k >= i - RemapWindow /\ k <= i + RemapWindow /\ content[k] = line}
Located(content, line, i) ==
  LET found == Near(content, line, i) IN
  IF Cardinality(found) = 1 THEN CHOOSE k \in found : TRUE ELSE i

\* By how much a range has moved: its first line tells, then its last.
Shift(call, content) ==
  LET wrong == WrongMarks(call, content, call.first, call.last)
      first == Located(content, View[call.first], call.first) - call.first
      last == Located(content, View[call.last], call.last) - call.last IN
  IF "first" \in wrong /\ first # 0 THEN first ELSE IF "last" \in wrong THEN last ELSE 0

\* The range an edit replaces: moved as a whole, or where the call says.
Target(call, content) ==
  LET d == Shift(call, content) s == call.first + d e == call.last + d IN
  IF s >= 1 /\ e <= Len(content) /\ WrongMarks(call, content, s, e) = {}
  THEN <<s, e>> ELSE <<call.first, call.last>>

\* {} if the edit is rejected, otherwise its one outcome.  Without an anchor
\* only a path that is known may be replaced in.
Replaced(call, new, content) ==
  LET t == Target(call, content) IN
  IF /\ t[2] <= Len(content) /\ WrongMarks(call, content, t[1], t[2]) = {}
     /\ call.marks # {} \/ call.path \in readPaths
  THEN {Spliced(content, t[1], t[2], new)} ELSE {}
Inserted(call, new, content) ==
  LET after == IF WrongMarks(call, content, call.first, call.first) # {}
               THEN Located(content, View[call.first], call.first) ELSE call.first IN
  IF call.first <= Len(content) /\ WrongMarks(call, content, after, after) = {}
  THEN {Spliced(content, after + 1, after, new)} ELSE {}
\* In place of the first occurrence of a line.
Searched(call, new, content) ==
  {Spliced(content, k, k, new) : k \in
     {k \in DOMAIN content : /\ content[k] = View[call.first] /\ content[k] # 0
                            /\ \A j \in 1 .. k - 1 : content[j] # content[k]}}

EditOf(call, new, content) ==
  CASE call.tool = "replace" -> Replaced(call, new, content)
    [] call.tool = "insert" -> Inserted(call, new, content)
    [] call.tool = "search" -> Searched(call, new, content)
    [] OTHER -> {PutAtEnd(content, new)}

---------------------------------------------------------------------------
(* Steps                                                                   *)

AsksCall(form, p) ==
  LET call == CallOf(form, p) IN
  /\ fileCalls = <<>> => p \in Opening
  /\ Len(fileCalls) < BatchSize /\ \A i \in DOMAIN fileCalls : stage[i] = "todo"
  /\ fileCalls' = Append(fileCalls, call) /\ stage' = Append(stage, "todo")
  /\ group' = Append(group, IF Joins(call) THEN group[Len(group)] ELSE Len(group) + 1)
  /\ linesOf' = Append(linesOf, <<>>) /\ reported' = Append(reported, "none")
  /\ UNCHANGED <<anycase, workspace, readPaths, before>>

FileCallOver(i, outcome) ==
  stage' = [stage EXCEPT ![i] = "done"] /\ reported' = [reported EXCEPT ![i] = outcome]
Puts(i, content) ==
  /\ FileCallOver(i, "ok") /\ workspace' = [workspace EXCEPT ![FileAt(i)] = content]
  /\ linesOf' = [linesOf EXCEPT ![i] = content]
  /\ readPaths' = IF content = Absent THEN readPaths \ {fileCalls[i].path} ELSE readPaths \cup {fileCalls[i].path}

\* The mutation guard or the file system refuses the call.
CallRefused(i) ==
  /\ MayBegin(i) /\ FileCallOver(i, "refused")
  /\ UNCHANGED <<anycase, workspace, readPaths, fileCalls, group, linesOf, before>>

FailsOn(i) == FileCallOver(i, "no") /\ UNCHANGED <<workspace, readPaths, linesOf>>
ReadsLines(i, content) ==
  /\ fileCalls[i].tool = "read" /\ content # Absent /\ FileCallOver(i, "ok")
  /\ linesOf' = [linesOf EXCEPT ![i] = content] /\ readPaths' = readPaths \cup {fileCalls[i].path}
  /\ UNCHANGED workspace
LoadsLines(i, content) ==
  /\ fileCalls[i].tool \notin {"read", "write", "delete"} /\ content # Absent
  /\ stage' = [stage EXCEPT ![i] = "loaded"] /\ linesOf' = [linesOf EXCEPT ![i] = content]
  /\ UNCHANGED <<workspace, readPaths, reported>>
CallRuns(i) ==
  LET content == workspace[FileAt(i)] IN
  /\ MayBegin(i)
  /\ \/ fileCalls[i].tool # "write" /\ content = Absent /\ FailsOn(i)
     \/ ReadsLines(i, content) \/ LoadsLines(i, content)
     \/ fileCalls[i].tool = "write" /\ Puts(i, NewLines(i))
     \/ fileCalls[i].tool = "delete" /\ content # Absent /\ Puts(i, Absent)
  /\ UNCHANGED <<anycase, fileCalls, group, before>>

\* What the edit makes of what it loaded is written, or it is rejected.
Rewrites(i) ==
  /\ stage[i] = "loaded"
  /\ \/ \E content \in EditOf(fileCalls[i], NewLines(i), linesOf[i]) : Puts(i, content)
     \/ EditOf(fileCalls[i], NewLines(i), linesOf[i]) = {} /\ FailsOn(i)
  /\ UNCHANGED <<anycase, fileCalls, group, before>>

EditsNext ==
  \/ \E form \in Forms, p \in Path : AsksCall(form, p)
  \/ \E i \in DOMAIN fileCalls : CallRefused(i) \/ CallRuns(i) \/ Rewrites(i)
EditsSpec == EditsInit /\ [][EditsNext]_editVars

---------------------------------------------------------------------------
(* Properties                                                              *)

\* What a call means, whatever its line numbers: a range with anchors is any
\* range of its length whose ends carry them.
Fits(call, content, s) ==
  /\ s >= 1 /\ s + call.last - call.first <= Len(content)
  /\ call.marks = {} => s = call.first
  /\ "first" \in call.marks => content[s] = View[call.first]
  /\ "last" \in call.marks => content[s + call.last - call.first] = View[call.last]
Meant(call, new, content) ==
  LET fitting == {s \in DOMAIN content : Fits(call, content, s)} IN
  CASE call.tool = "replace" ->
         {Spliced(content, s, s + call.last - call.first, new) : s \in fitting}
    [] call.tool = "insert" ->
         {Spliced(content, s + 1, s, new) : s \in fitting \cup IF call.first = 0 THEN {0} ELSE {}}
    [] call.tool = "search" -> Searched(call, new, content)
    [] OTHER -> {PutAtEnd(content, new)}

\* A place that fits and that an anchor tells: no other line near has that anchor.
ToldPlace(call, content, s) ==
  LET firsts == Near(content, View[call.first], call.first)
      lasts == Near(content, View[call.last], call.last) IN
  /\ Fits(call, content, s)
  /\ \/ "first" \in call.marks /\ firsts = {s}
     \/ "last" \in call.marks /\ lasts = {s + call.last - call.first} /\ ("first" \in call.marks => s \in firsts)

\* File f as call k finds it if the calls before it run one after the other.
Writers(k, f) ==
  {j \in 1 .. k - 1 : reported[j] = "ok" /\ fileCalls[j].tool # "read" /\ FileAt(j) = f}
InTurn(k, f) == IF Writers(k, f) = {} THEN before[f] ELSE linesOf[Max(Writers(k, f))]

\* What a call that finds these lines of its file may report, and leave of it.
MayReport(call, new, file, outcome, lines) ==
  /\ outcome = "no" =>
       \/ file = Absent \/ call.marks = {} \/ call.last > Len(file)
       \/ \A s \in DOMAIN file : ~ToldPlace(call, file, s)
  /\ outcome = "ok" =>
       CASE call.tool = "read" -> lines = file
         [] call.tool = "write" -> lines = new
         [] call.tool = "delete" -> lines = Absent
         [] OTHER -> file # Absent /\ lines \in Meant(call, new, file)

\* However the calls of a batch overlap, however they spell their paths and
\* wherever their lines have moved, the files and what was read are what the calls
\* mean one after the other: no edit is lost, one that says it is done replaced lines
\* with the anchors it named, and one whose anchors tell its place is not rejected (the
\* groups at engine.ts:1540, anchors at tools.ts:165).
BatchAsInOrder ==
  /\ \A i \in DOMAIN fileCalls :
       MayReport(fileCalls[i], NewLines(i), InTurn(i, FileAt(i)), reported[i], linesOf[i])
  /\ \A f \in Files : workspace[f] = InTurn(Len(fileCalls) + 1, f)
=============================================================================
