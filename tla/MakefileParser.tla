--------------------------- MODULE MakefileParser ---------------------------
(***************************************************************************)
(* make4061's parse(): one pass over the makefile that fills the array of  *)
(* targets.  A line is known by its number and by what the loop takes it   *)
(* for:                                                                    *)
(*   skip      empty, blank, or a comment                                  *)
(*   command   starts with a tab                                           *)
(*   target    has a colon with something before or after it               *)
(*   bad       neither                                                     *)
(* A target's name and dependencies stand on one line; the number of that  *)
(* line stands for both.                                                   *)
(*                                                                         *)
(* Nothing checks that there is a slot for a target.  A line that makes    *)
(* parse() use the slot after the last one ends the model: what the        *)
(* program does after that is undefined.                                   *)
(***************************************************************************)
EXTENDS Integers, FiniteSets, Sequences

CONSTANTS
  Makefiles,   \* the files to parse
  MAX_NODES,   \* the size of the array
  None         \* what memset() leaves in a field

Kinds == {"skip", "command", "target", "bad"}

ASSUME ParserAssumption ==
  /\ MAX_NODES \in Nat \ {0}
  /\ Makefiles \subseteq Seq(Kinds)
  /\ None \notin Nat

VARIABLES
  file,             \* the lines
  nLine,            \* how many have been read
  TargetName,       \* TargetName[k]: the line with t[k]'s name, or None
  Command,          \* Command[k]: the line with t[k]'s command, or None
  pTarget,          \* the index of the target in hand
  nTargetCount,
  nPreviousTarget,  \* 1: the last target has had no command yet
  result            \* "none", "fail", "success" (nTargetCount is returned)
                    \* or "overrun"

vars == <<file, nLine, TargetName, Command, pTarget, nTargetCount,
          nPreviousTarget, result>>

Nodes == 0 .. MAX_NODES - 1

Init ==
  /\ file \in Makefiles
  /\ nLine = 0
  /\ TargetName = [k \in Nodes |-> None]
  /\ Command = [k \in Nodes |-> None]
  /\ pTarget = 0
  /\ nTargetCount = 0
  /\ nPreviousTarget = 0
  /\ result = "none"

(* file_getline() returns a line of this kind. *)
GetLine(kind) ==
  /\ result = "none" /\ nLine < Len(file)
  /\ nLine' = nLine + 1
  /\ file[nLine'] = kind
  /\ UNCHANGED file

Fail ==
  /\ result' = "fail"
  /\ UNCHANGED <<TargetName, Command, pTarget, nTargetCount, nPreviousTarget>>

SkipLine ==
  /\ GetLine("skip")
  /\ UNCHANGED <<TargetName, Command, pTarget, nTargetCount, nPreviousTarget, result>>

(* Where the target of the next target line goes. *)
NextTarget == IF nPreviousTarget = 1 THEN pTarget + 1 ELSE pTarget

(* The line needs a slot that the array does not have: a target to be put  *)
(* there, or a command, before which the slot's TargetName is looked at.   *)
Overrun ==
  /\ \/ GetLine("target") /\ NextTarget \notin Nodes
     \/ GetLine("command") /\ pTarget \notin Nodes
  /\ result' = "overrun"
  /\ UNCHANGED <<TargetName, Command, pTarget, nTargetCount, nPreviousTarget>>

(* "specifying multiple commands is not allowed" *)
StrayCommand ==
  /\ GetLine("command") /\ pTarget \in Nodes
  /\ TargetName[pTarget] = None
  /\ Fail

\* Seeded fault: a command is taken for the target in hand, if any or not.
CommandLineAnywhere ==
  /\ GetLine("command") /\ pTarget \in Nodes
  /\ Command' = [Command EXCEPT ![pTarget] = nLine']
  /\ nPreviousTarget' = 0
  /\ pTarget' = pTarget + 1
  /\ UNCHANGED <<TargetName, nTargetCount, result>>

\* Seeded fault: the target keeps waiting for its command.
CommandLineForgetting ==
  /\ GetLine("command") /\ pTarget \in Nodes
  /\ TargetName[pTarget] # None
  /\ Command' = [Command EXCEPT ![pTarget] = nLine']
  /\ pTarget' = pTarget + 1
  /\ UNCHANGED <<TargetName, nTargetCount, nPreviousTarget, result>>

CommandLine ==
  /\ GetLine("command") /\ pTarget \in Nodes
  /\ TargetName[pTarget] # None
  /\ Command' = [Command EXCEPT ![pTarget] = nLine']
  /\ nPreviousTarget' = 0
  /\ pTarget' = pTarget + 1
  /\ UNCHANGED <<TargetName, nTargetCount, result>>

\* Seeded fault: targets without a command are counted.
TargetLineCounting ==
  /\ GetLine("target") /\ NextTarget \in Nodes
  /\ pTarget' = NextTarget
  /\ TargetName' = [TargetName EXCEPT ![pTarget'] = nLine']
  /\ nTargetCount' = nTargetCount + 1
  /\ nPreviousTarget' = nPreviousTarget + 1
  /\ UNCHANGED <<Command, result>>

\* Seeded fault: a target without a command is overwritten.
TargetLineInPlace ==
  /\ GetLine("target") /\ pTarget \in Nodes
  /\ TargetName' = [TargetName EXCEPT ![pTarget] = nLine']
  /\ nTargetCount' = nTargetCount + 1
  /\ nPreviousTarget' = 1
  /\ UNCHANGED <<Command, pTarget, result>>

TargetLine ==
  /\ GetLine("target") /\ NextTarget \in Nodes
  /\ pTarget' = NextTarget
  /\ TargetName' = [TargetName EXCEPT ![pTarget'] = nLine']
  /\ nTargetCount' = nTargetCount + 1
  /\ nPreviousTarget' = 1
  /\ UNCHANGED <<Command, result>>

(* "missing separator" *)
BadLine == GetLine("bad") /\ Fail

EndOfFile ==
  /\ result = "none" /\ nLine = Len(file)
  /\ result' = "success"
  /\ UNCHANGED <<file, nLine, TargetName, Command, pTarget, nTargetCount,
                 nPreviousTarget>>

Next ==
  \/ SkipLine \/ StrayCommand \/ CommandLine \/ TargetLine \/ BadLine
  \/ Overrun \/ EndOfFile

Spec == Init /\ [][Next]_vars

-----------------------------------------------------------------------------
(* The pointer goes no further than one past the array, and each field     *)
(* holds the number of a line that has been read (util.c:131-139).         *)
TypeOK ==
  /\ file \in Makefiles
  /\ nLine \in 0 .. Len(file)
  /\ TargetName \in [Nodes -> 1 .. nLine \cup {None}]
  /\ Command \in [Nodes -> 1 .. nLine \cup {None}]
  /\ pTarget \in 0 .. MAX_NODES
  /\ nTargetCount \in 0 .. nLine
  /\ nPreviousTarget \in {0, 1}
  /\ result \in {"none", "fail", "success", "overrun"}

(* The pointer and the count are advanced at different lines, and only     *)
(* nPreviousTarget keeps them together: the slots before pTarget hold the  *)
(* targets that are complete, pTarget one that waits for its command, and  *)
(* the slots after nothing (util.c:166-174, 185-203).                      *)
InStep ==
  /\ nTargetCount = pTarget + nPreviousTarget
  /\ \A k \in Nodes : TargetName[k] # None <=> k < nTargetCount
  /\ \A k \in Nodes : Command[k] # None => k < pTarget

(* What the makefile says: which line has the k-th target, and which line  *)
(* the command of the target of line n, the one before the next target.    *)
Upto(n) == {m \in 1 .. n : file[m] = "target"}
CommandsOf(n) ==
  {c \in n + 1 .. nLine : file[c] = "command" /\ Upto(c) = Upto(n)}

(* Every target of the part that has been read is in the array, in order,  *)
(* with the command that follows it, or with none (util.c:163-204).        *)
ParsedAsWritten ==
  result \notin {"fail", "overrun"} =>
    /\ nTargetCount = Cardinality(Upto(nLine))
    /\ \A n \in Upto(nLine) :
         LET k == Cardinality(Upto(n)) - 1 IN
         /\ TargetName[k] = n
         /\ \/ CommandsOf(n) = {} /\ Command[k] = None
            \/ CommandsOf(n) = {Command[k]}

(* A makefile is rejected at its first line that is bad, or a command with *)
(* no target of its own (util.c:166-170, 179-183).                         *)
Stray(c) ==
  /\ file[c] = "command"
  /\ \/ Upto(c) = {}
     \/ \E d \in 1 .. c - 1 : file[d] = "command" /\ Upto(d) = Upto(c)
Malformed(n) == file[n] = "bad" \/ Stray(n)

RejectsMalformed ==
  /\ result = "fail" => Malformed(nLine)
  /\ \A n \in 1 .. nLine - 1 : ~Malformed(n)
  /\ result \notin {"fail", "overrun"} => \A n \in 1 .. nLine : ~Malformed(n)

(* Line n needs a slot that is not there: it has the (MAX_NODES + 1)-th    *)
(* target, or a command when all slots are taken and complete.             *)
NoSlotFor(n) ==
  \/ file[n] = "target" /\ Cardinality(Upto(n)) > MAX_NODES
  \/ Stray(n) /\ Cardinality(Upto(n)) = MAX_NODES

(* However targets with and without commands follow each other, the array  *)
(* has room for MAX_NODES of them: parse() leaves it at the first line     *)
(* that needs one slot more, and there only (util.c:166, 185-193).         *)
OverrunsOnlyWhenFull ==
  /\ result = "overrun" => NoSlotFor(nLine)
  /\ \A n \in 1 .. nLine - 1 : ~NoSlotFor(n)
  /\ result # "overrun" => \A n \in 1 .. nLine : ~NoSlotFor(n)
=============================================================================
