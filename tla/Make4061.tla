----------------------------- MODULE Make4061 ------------------------------
(***************************************************************************)
(* make4061: build(), its recursion over a parsed makefile, and main(),    *)
(* which starts it.  The C stack is a sequence of frames, innermost first; *)
(* a frame knows the target it builds and the dependency it is at.         *)
(*                                                                         *)
(* main() hands build() a copy of the initial target's struct (Root), not  *)
(* the array element that others' dependencies resolve to, so the two have *)
(* a Status each.  What a call returns is seen by its caller in a step of  *)
(* the caller's.                                                           *)
(***************************************************************************)
EXTENDS Integers, Sequences, FiniteSets

CONSTANTS
  Targets,      \* names of the makefile's targets
  Sources,      \* other names that occur as dependencies
  Makefiles,    \* the dependency lists to check: Targets -> Seq(Files)
  Writes,       \* Writes[t]: the files that t's command may write or remove
  Initial,      \* the target asked for
  Root,         \* main()'s copy of it
  MaxTime       \* bound: the latest time that a file may have

Files == Targets \cup Sources
Nodes == Targets \cup {Root}

ASSUME MakeAssumption ==
  /\ Initial \in Targets /\ Root \notin Files
  /\ IsFiniteSet(Targets) /\ Targets \cap Sources = {}
  /\ Makefiles \subseteq [Targets -> Seq(Files)]
  /\ Writes \in [Targets -> SUBSET Files]
  /\ MaxTime \in Nat

VARIABLES
  deps,      \* the parsed makefile
  mtime,     \* mtime[x]: st_mtime of file x, -1 if there is none
  status,    \* Status of each target struct
  stack,     \* the calls of build() in progress
  child,     \* TRUE while build() is in wait()
  returned,  \* what a call has returned and its caller (or main()) not yet seen
  ran,       \* history: names of the targets whose command was started
  left,      \* history: <<n, dep, c>> if n left dep alone as Compare() said c
  ends       \* history: how commands that did not succeed ended

vars == <<deps, mtime, status, stack, child, returned, ran, left, ends>>

Name(n) == IF n = Root THEN Initial ELSE n

\* Seeded fault: a target is built again for each target that needs it.
UndoneUnlessInProgress(n) == status[n] # "NEEDS_BUILDING"

(* Nobody has dealt with target n, nor is about to. *)
Undone(n) == status[n] = "UNFINISHED"

\* Seeded fault: the mark is forgotten.
Unmarked(n) == status

Marked(n) == [status EXCEPT ![n] = "NEEDS_BUILDING"]

(* compare_modification_time() *)
Compare(x, y) ==
  IF mtime[x] = -1 \/ mtime[y] = -1 THEN -1
  ELSE IF mtime[x] = mtime[y] THEN 0
  ELSE IF mtime[x] > mtime[y] THEN 1
  ELSE 2

\* Seeded fault: a file as old as the target's is taken for an older one.
OlderOrSame(x, y) == Compare(x, y) \in {0, 2}

Older(x, y) == Compare(x, y) = 2

Top  == Head(stack)
Me   == Top.node
Dep  == deps[Name(Me)][Top.i]
Goes == stack # <<>> /\ returned = "none" /\ ~child
InLoop == Goes /\ Top.i <= Len(deps[Name(Me)])
AfterLoop == Goes /\ Top.i > Len(deps[Name(Me)])

\* Seeded fault: a dependency is skipped with each step.
AdvanceByTwo(s) == [s EXCEPT ![1].i = @ + 2]

\* Seeded fault: the loop does not go on to the next dependency.
AdvanceNot(s) == s

(* The loop's i++. *)
Advance(s) == [s EXCEPT ![1].i = @ + 1]

-----------------------------------------------------------------------------
(* main() has parsed the makefile, copied the initial target and set all   *)
(* Status fields; the files have the times earlier runs gave them.         *)
Init ==
  /\ deps \in Makefiles
  /\ mtime \in [Files -> -1 .. MaxTime]
  /\ status = [n \in Nodes |-> "UNFINISHED"]
  /\ stack = <<[node |-> Root, i |-> 1]>>
  /\ child = FALSE
  /\ returned = "none"
  /\ ran = <<>> /\ left = {} /\ ends = {}

(* The dependency is a target that has been, or is being, dealt with. *)
SkipDealtWith ==
  /\ InLoop /\ Dep \in Targets /\ ~Undone(Dep)
  /\ stack' = Advance(stack)
  /\ UNCHANGED <<deps, mtime, status, child, returned, ran, left, ends>>

(* It is a target whose file is older than this target's. *)
SkipOlder ==
  /\ InLoop /\ Dep \in Targets /\ Undone(Dep)
  /\ Older(Dep, Name(Me))
  /\ stack' = Advance(stack)
  /\ left' = left \cup {<<Me, Dep, Compare(Dep, Name(Me))>>}
  /\ UNCHANGED <<deps, mtime, status, child, returned, ran, ends>>

(* It is a target to build first. *)
Recurse ==
  /\ InLoop /\ Dep \in Targets /\ Undone(Dep)
  /\ ~Older(Dep, Name(Me))
  /\ status' = Marked(Me)
  /\ stack' = <<[node |-> Dep, i |-> 1]>> \o stack
  /\ UNCHANGED <<deps, mtime, child, returned, ran, left, ends>>

(* It is not a target of the makefile. *)
CheckSource ==
  /\ InLoop /\ Dep \notin Targets
  /\ status' = IF Undone(Me) /\ ~Older(Dep, Name(Me)) THEN Marked(Me) ELSE status
  /\ stack' = Advance(stack)
  /\ UNCHANGED <<deps, mtime, child, returned, ran, left, ends>>

Return(value) == stack' = Tail(stack) /\ returned' = value

(* The call for the dependency did not return -1. *)
CallerGoesOn ==
  /\ returned = "success" /\ stack # <<>>
  /\ stack' = Advance(stack)
  /\ returned' = "none"
  /\ UNCHANGED <<deps, mtime, status, child, ran, left, ends>>

\* Seeded fault: a caller does not look at what a call returned.
CallerForgives ==
  /\ returned = "failure" /\ stack # <<>>
  /\ stack' = Advance(stack)
  /\ returned' = "none"
  /\ UNCHANGED <<deps, mtime, status, child, ran, left, ends>>

(* It did, and so does the caller. *)
CallerFails ==
  /\ returned = "failure" /\ stack # <<>>
  /\ Return("failure")
  /\ UNCHANGED <<deps, mtime, status, child, ran, left, ends>>

NeedsBuilding == deps[Name(Me)] = <<>> \/ status[Me] = "NEEDS_BUILDING"

(* No dependency asked for this target to be built. *)
Finish ==
  /\ AfterLoop /\ ~NeedsBuilding
  /\ status' = [status EXCEPT ![Me] = "FINISHED"]
  /\ Return("success")
  /\ UNCHANGED <<deps, mtime, child, ran, left, ends>>

Fork ==
  /\ AfterLoop /\ NeedsBuilding
  /\ status' = Marked(Me)
  /\ child' = TRUE
  /\ ran' = Append(ran, Name(Me))
  /\ UNCHANGED <<deps, mtime, stack, returned, left, ends>>

ForkFails ==
  /\ AfterLoop /\ NeedsBuilding
  /\ status' = Marked(Me)
  /\ Return("failure")
  /\ ends' = ends \cup {"fork"}
  /\ UNCHANGED <<deps, mtime, child, ran, left>>

(* The command ends.  Of the files that it may write it has left any, with *)
(* any times (as touch and cp -p do), and removed any.                     *)
CommandEnds ==
  /\ child /\ child' = FALSE
  /\ \E new \in [Writes[Name(Me)] -> -1 .. MaxTime] :
       mtime' = [x \in Files |-> IF x \in Writes[Name(Me)] THEN new[x] ELSE mtime[x]]
  /\ UNCHANGED <<deps, ran, left>>

(* WIFEXITED and WEXITSTATUS 0. *)
ChildSucceeds ==
  /\ CommandEnds
  /\ status' = [status EXCEPT ![Me] = "FINISHED"]
  /\ Return("success")
  /\ UNCHANGED ends

(* WIFEXITED and another exit status; so ends a target without a command   *)
(* line, as execvp() fails.                                                *)
ChildFails ==
  /\ CommandEnds
  /\ ends' = ends \cup {"exit"}
  /\ Return("failure")
  /\ UNCHANGED status

(* A signal killed the command: not WIFEXITED. *)
ChildKilled ==
  /\ CommandEnds
  /\ ends' = ends \cup {"signal"}
  /\ status' = [status EXCEPT ![Me] = "FINISHED"]
  /\ Return("success")

-----------------------------------------------------------------------------
Step ==
  \/ SkipDealtWith \/ SkipOlder \/ Recurse \/ CheckSource
  \/ CallerGoesOn \/ CallerFails
  \/ Finish \/ Fork \/ ForkFails
  \/ ChildSucceeds \/ ChildFails \/ ChildKilled

Spec == Init /\ [][Step]_vars

(* make4061 goes on by itself, and every command ends. *)
FairSpec == Spec /\ WF_vars(Step)

-----------------------------------------------------------------------------
(* Every struct has a Status of util.h's, the frames name structs of the   *)
(* makefile and a position in their dependency lists (main.c:90-160).      *)
TypeOK ==
  /\ deps \in Makefiles
  /\ mtime \in [Files -> -1 .. MaxTime]
  /\ status \in [Nodes -> {"UNFINISHED", "NEEDS_BUILDING", "FINISHED"}]
  /\ \A k \in 1 .. Len(stack) :
       /\ stack[k].node \in Nodes
       /\ stack[k].i \in 1 .. Len(deps[Name(stack[k].node)]) + 1
  /\ child \in BOOLEAN
  /\ returned \in {"none", "success", "failure"}
  /\ ran \in Seq(Targets)
  /\ left \subseteq Nodes \X Targets \X {2}
  /\ ends \subseteq {"exit", "signal", "fork"}

(* The targets can be numbered so that each has a higher number than those *)
(* it depends on: the makefile has no cycle.                               *)
Ranks(rank) ==
  \A t \in Targets : \A j \in 1 .. Len(deps[t]) :
    deps[t][j] \in Targets => rank[deps[t][j]] < rank[t]

Acyclic == \E rank \in [Targets -> 1 .. Cardinality(Targets)] : Ranks(rank)

(* A command is run at most once, however many targets depend on its       *)
(* target: the Status fields see to that in makefiles without cycles       *)
(* (main.c:102, 122, 156).                                                 *)
RunsAtMostOnce ==
  \A j, k \in 1 .. Len(ran) : j < k /\ ran[j] = ran[k] => ~Acyclic

(* When a command runs, each target that its target directly depends on is *)
(* finished, or was left alone as its file was older at that time and has  *)
(* not been touched by build() since (main.c:95-118, 126).                 *)
ReadyWhenRun ==
  child /\ Acyclic =>
    \A j \in 1 .. Len(deps[Name(Me)]) :
      LET dep == deps[Name(Me)][j]
      IN dep \in Targets =>
           \/ status[dep] = "FINISHED"
           \/ status[dep] = "UNFINISHED" /\ <<Me, dep, 2>> \in left

(* The calls in progress are a path of the dependency graph, and each      *)
(* caller has been marked, so that its own command is run after what it    *)
(* waits for; without cycles nobody is called twice (main.c:102-105).      *)
CallersMarked ==
  /\ \A k \in 2 .. Len(stack) :
       /\ status[stack[k].node] = "NEEDS_BUILDING"
       /\ deps[Name(stack[k].node)][stack[k].i] = stack[k - 1].node
  /\ \A j, k \in 1 .. Len(stack) : j < k /\ stack[j].node = stack[k].node => ~Acyclic

(* Once a command has exited with an error or a fork has failed, however   *)
(* deep in the recursion, no other command is started, no file changes,    *)
(* and what main() gets is -1: every caller hands it on (main.c:105-107).  *)
StopsAtFailure ==
  [][ends \cap {"exit", "fork"} # {} =>
       /\ UNCHANGED <<ran, mtime>>
       /\ stack' = <<>> => returned' = "failure"]_vars

(* build() returns to main(), for cyclic makefiles too.                    *)
Terminates == <>(stack = <<>>)

(* main.c:103 and 113: "no need to mark target if the target has been      *)
(* modified later than the dependency", otherwise it is marked.  At the    *)
(* turn of each dependency, a target whose dependency has then been        *)
(* modified later is marked.  The code does not mark it for a dependency   *)
(* that another target has had built before in the same run (main.c:102).  *)
LeftAloneOnlyIfNewer ==
  [][InLoop /\ Compare(Dep, Name(Me)) = 1 => status'[Me] = "NEEDS_BUILDING"]_vars
=============================================================================
