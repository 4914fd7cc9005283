--------------------------- MODULE Make4061Proofs ---------------------------
(***************************************************************************)
(* Proofs about Make4061, for any targets, sources and makefiles.          *)
(***************************************************************************)
EXTENDS Make4061, FiniteSetTheorems, SequenceTheorems, TLAPS

Frames == [node : Nodes, i : Nat \ {0}]
Calls  == DOMAIN stack
Node(k) == stack[k].node
Deps(k) == deps[Name(Node(k))]

(* main() calls build() for its copy; all other calls are for dependencies. *)
Rooted ==
  /\ stack \in Seq(Frames)
  /\ \A k \in Calls : Node(k) \in Targets <=> k # Len(stack)

(* The first part of CallersMarked, and more: callers are in their loops.  *)
Chain ==
  \A k \in Calls : k # 1 =>
    /\ status[Node(k)] = "NEEDS_BUILDING"
    /\ stack[k].i <= Len(Deps(k)) /\ Deps(k)[stack[k].i] = Node(k - 1)

(* A target calls itself at most directly. *)
Adjacent == \A j, k \in Calls : j < k /\ Node(j) = Node(k) => k = j + 1

(* What runs is the command of the innermost call, which is past its loop. *)
Running ==
  child =>
    /\ stack # <<>> /\ returned = "none"
    /\ status[Me] = "NEEDS_BUILDING" /\ Top.i > Len(Deps(1))

(* What a call has returned is about the dependency its caller is at.      *)
Reported ==
  returned # "none" => \A k \in Calls : k = 1 =>
    /\ stack[k].i <= Len(Deps(k))
    /\ returned = "success" =>
         LET dep == Deps(k)[stack[k].i]
         IN  dep \in Targets /\ status[dep] = "FINISHED"

(* From a failure on, every call returns -1. *)
Stopped == ends \cap {"exit", "fork"} # {} => returned = "failure"

(* A target that has been marked and not finished is being built. *)
InProgress ==
  returned # "failure" => \A n \in Nodes :
    status[n] = "NEEDS_BUILDING" => \E k \in Calls : Node(k) = n

(* Calls are for targets of ever smaller numbers. *)
Ranking == [Targets -> Int]
Descends ==
  \A rank \in Ranking : Ranks(rank) =>
    \A j, k \in Calls : j < k => rank[Name(Node(j))] < rank[Name(Node(k))]

(* A target whose command was started is not going to be dealt with again. *)
NotAgain ==
  Acyclic =>
    /\ \A j \in DOMAIN ran : ran[j] # Initial => status[ran[j]] # "UNFINISHED"
    /\ \A j \in DOMAIN ran, k \in Calls : ran[j] = Name(Node(k)) => k = 1 /\ child
    /\ \A j, k \in DOMAIN ran : ran[j] = ran[k] => j = k

(* The dependencies that a call has gone past need nothing more, or are    *)
(* being built by a call further in.                                       *)
Past ==
  Acyclic /\ returned # "failure" =>
    \A k \in Calls : \A j \in 1 .. stack[k].i - 1 :
      LET dep == Deps(k)[j]
      IN dep \in Targets =>
           \/ status[dep] = "FINISHED"
           \/ status[dep] = "UNFINISHED" /\ <<Node(k), dep, 2>> \in left
           \/ \E l \in Calls : l < k /\ Node(l) = dep

IInv ==
  /\ TypeOK /\ Rooted /\ Chain /\ Adjacent /\ Running /\ Reported /\ Stopped
  /\ InProgress /\ Descends /\ NotAgain /\ Past

USE MakeAssumption

-----------------------------------------------------------------------------
(* What a step does to the calls in progress.  In the innermost call:      *)

GoesOn ==
  /\ stack # <<>> /\ stack' \in Seq(Frames) /\ DOMAIN stack' = Calls
  /\ \A k \in Calls : /\ stack'[k].node = Node(k)
                      /\ stack'[k].i = IF k = 1 THEN stack[k].i + 1 ELSE stack[k].i

Calling ==
  /\ stack # <<>> /\ stack' \in Seq(Frames) /\ Len(stack') = Len(stack) + 1
  /\ stack'[1].node = Dep /\ stack'[1].i = 1
  /\ \A k \in Calls : stack'[k + 1] = stack[k]

Returning ==
  /\ stack # <<>> /\ stack' \in Seq(Frames) /\ Len(stack') = Len(stack) - 1
  /\ \A k \in DOMAIN stack' : stack'[k] = stack[k + 1]

LEMMA AdvanceIs ==
  ASSUME NEW s \in Seq(Frames), s # <<>>
  PROVE  /\ Advance(s) \in Seq(Frames) /\ DOMAIN Advance(s) = DOMAIN s
         /\ \A k \in DOMAIN s :
              /\ Advance(s)[k].node = s[k].node
              /\ Advance(s)[k].i = IF k = 1 THEN s[k].i + 1 ELSE s[k].i
<1>1. DOMAIN s = 1 .. Len(s) /\ Len(s) \in Nat \ {0} /\ 1 \in DOMAIN s
  OBVIOUS
<1>2. \A k \in DOMAIN s : s[k] \in Frames
  OBVIOUS
<1>3. s[1].i + 1 \in Nat \ {0} /\ s[1] \in Frames
  BY <1>1, <1>2 DEF Frames
<1>4. [s[1] EXCEPT !.i = @ + 1] \in Frames
  BY <1>3 DEF Frames
<1>5. Advance(s) = [s EXCEPT ![1] = [s[1] EXCEPT !.i = @ + 1]]
  BY DEF Advance
<1>6. Advance(s) \in Seq(Frames) /\ DOMAIN Advance(s) = DOMAIN s
  BY <1>1, <1>4, <1>5
<1>7. ASSUME NEW k \in DOMAIN s
      PROVE  /\ Advance(s)[k].node = s[k].node
             /\ Advance(s)[k].i = IF k = 1 THEN s[k].i + 1 ELSE s[k].i
  <2>1. Advance(s)[k] = IF k = 1 THEN [s[1] EXCEPT !.i = @ + 1] ELSE s[k]
    BY <1>5
  <2>2. s[k] \in Frames
    BY <1>2
  <2>3. QED
    BY <2>1, <2>2 DEF Frames
<1>8. QED
  BY <1>6, <1>7

LEMMA StackIs ==
  ASSUME IInv, stack # <<>>
  PROVE  /\ stack \in Seq(Frames) /\ Len(stack) \in Nat \ {0} /\ Calls = 1 .. Len(stack)
         /\ 1 \in Calls /\ Top = stack[1] /\ Me = Node(1) /\ Me \in Nodes /\ Name(Me) \in Targets
         /\ \A k \in Calls : /\ stack[k] \in Frames /\ Node(k) \in Nodes
                             /\ Name(Node(k)) \in Targets /\ stack[k].i \in Nat \ {0}
<1>1. stack \in Seq(Frames)
  BY DEF IInv, Rooted
<1>2. /\ Len(stack) \in Nat \ {0} /\ Calls = 1 .. Len(stack) /\ 1 \in Calls
      /\ Head(stack) = stack[1] /\ \A k \in Calls : stack[k] \in Frames
  BY <1>1 DEF Calls
<1>3. \A k \in Calls : Node(k) \in Nodes /\ stack[k].i \in Nat \ {0}
  BY <1>2 DEF Frames, Node
<1>4. \A n \in Nodes : Name(n) \in Targets
  BY DEF Name, Nodes
<1>5. Top = stack[1] /\ Me = Node(1)
  BY <1>2 DEF Top, Me, Node
<1>6. QED
  BY <1>1, <1>2, <1>3, <1>4, <1>5

LEMMA AdvanceGoesOn == IInv /\ stack # <<>> /\ stack' = Advance(stack) => GoesOn
BY StackIs, AdvanceIs DEF GoesOn, Calls, Node

LEMMA PushIsCalling ==
  ASSUME IInv, stack # <<>>, Dep \in Targets,
         stack' = <<[node |-> Dep, i |-> 1]>> \o stack
  PROVE  Calling
<1>1. PICK f : f = [node |-> Dep, i |-> 1]
  OBVIOUS
<1>2. f \in Frames /\ f.node = Dep /\ f.i = 1
  BY <1>1 DEF Frames, Nodes
<1>3. stack \in Seq(Frames) /\ <<f>> \in Seq(Frames) /\ stack' = <<f>> \o stack
  BY <1>1, <1>2, StackIs
<1>4. /\ stack' \in Seq(Frames) /\ Len(stack') = Len(stack) + 1
      /\ stack'[1] = f /\ \A k \in 1 .. Len(stack) : stack'[k + 1] = stack[k]
  BY <1>3
<1>5. QED
  BY <1>2, <1>4, StackIs DEF Calling

LEMMA TailIsReturning == IInv /\ stack # <<>> /\ stack' = Tail(stack) => Returning
<1> SUFFICES ASSUME IInv, stack # <<>>, stack' = Tail(stack) PROVE Returning
  OBVIOUS
<1>1. stack \in Seq(Frames)
  BY StackIs
<1>2. /\ stack' \in Seq(Frames) /\ Len(stack') = Len(stack) - 1
      /\ \A k \in 1 .. Len(stack) - 1 : stack'[k] = stack[k + 1]
  BY <1>1
<1>3. DOMAIN stack' = 1 .. Len(stack) - 1
  BY <1>2
<1>4. QED
  BY <1>2, <1>3 DEF Returning

-----------------------------------------------------------------------------
(* The kinds of steps. *)

NextDependency ==
  /\ GoesOn /\ ~child /\ Top.i <= Len(Deps(1))
  /\ returned \in {"none", "success"} /\ returned' = "none"
  /\ \/ Dep \notin Targets /\ status' \in {status, Marked(Me)} /\ left' = left
     \/ /\ Dep \in Targets /\ status' = status
        /\ \/ status[Dep] # "UNFINISHED" /\ left' = left
           \/ left' = left \cup {<<Me, Dep, 2>>}
  /\ UNCHANGED <<deps, mtime, child, ran, ends>>

Call ==
  /\ InLoop /\ Calling
  /\ Dep \in Targets /\ status[Dep] = "UNFINISHED" /\ status' = Marked(Me)
  /\ UNCHANGED <<deps, mtime, child, returned, ran, left, ends>>

Success ==
  /\ Returning /\ Top.i > Len(Deps(1))
  /\ returned = "none" /\ returned' = "success" /\ child' = FALSE
  /\ status' = [status EXCEPT ![Me] = "FINISHED"]
  /\ \/ mtime' = mtime
     \/ CommandEnds
  /\ ends' \in {ends, ends \cup {"signal"}}
  /\ UNCHANGED <<deps, ran, left>>

Failure ==
  /\ Returning
  /\ returned # "success" /\ returned' = "failure" /\ child' = FALSE
  /\ status' \in {status, Marked(Me)}
  /\ \/ mtime' = mtime
     \/ returned = "none" /\ CommandEnds
  /\ ends' \in {ends, ends \cup {"exit"}, ends \cup {"fork"}}
  /\ UNCHANGED <<deps, ran, left>>

LEMMA StepIs ==
  IInv /\ [Step]_vars =>
    NextDependency \/ Call \/ Fork \/ Success \/ Failure \/ UNCHANGED vars
<1> SUFFICES ASSUME IInv, [Step]_vars
             PROVE  NextDependency \/ Call \/ Fork \/ Success \/ Failure \/ UNCHANGED vars
  OBVIOUS
<1>1. ASSUME stack # <<>> PROVE Top = stack[1] /\ Me = Node(1) /\ 1 \in Calls
  BY <1>1, StackIs
<1>2. ASSUME child PROVE stack # <<>> /\ returned = "none" /\ Top.i > Len(Deps(1))
  BY <1>2 DEF IInv, Running
<1>3. CASE SkipDealtWith
  BY <1>1, <1>3, AdvanceGoesOn DEF SkipDealtWith, NextDependency, Undone, InLoop, Goes, Deps
<1>4. CASE SkipOlder
  <2>1. Compare(Dep, Name(Me)) = 2
    BY <1>4 DEF SkipOlder, Older
  <2>2. left' = left \cup {<<Me, Dep, 2>>}
    BY <1>4, <2>1 DEF SkipOlder
  <2>3. QED
    BY <1>1, <1>4, <2>2, AdvanceGoesOn DEF SkipOlder, NextDependency, InLoop, Goes, Deps
<1>5. CASE CheckSource
  BY <1>1, <1>5, AdvanceGoesOn DEF CheckSource, NextDependency, InLoop, Goes, Deps
<1>6. CASE CallerGoesOn
  <2>1. /\ Top.i <= Len(Deps(1)) /\ Dep = Deps(1)[stack[1].i]
        /\ Dep \in Targets /\ status[Dep] = "FINISHED"
    BY <1>1, <1>6 DEF CallerGoesOn, IInv, Reported, Dep, Deps
  <2>2. GoesOn /\ ~child
    BY <1>2, <1>6, AdvanceGoesOn DEF CallerGoesOn
  <2>3. QED
    BY <1>6, <2>1, <2>2 DEF CallerGoesOn, NextDependency
<1>7. CASE CallerFails
  <2>1. Returning /\ child = FALSE
    BY <1>2, <1>7, TailIsReturning DEF CallerFails, Return, IInv, TypeOK
  <2>2. QED
    BY <1>7, <2>1 DEF CallerFails, Return, Failure
<1>8. CASE Recurse
  BY <1>1, <1>8, PushIsCalling DEF Recurse, Call, Undone, InLoop, Goes
<1>9. CASE Finish
  <2>1. Returning /\ child = FALSE /\ Top.i > Len(Deps(1)) /\ returned = "none"
    BY <1>1, <1>9, TailIsReturning DEF Finish, AfterLoop, Goes, Return, Deps, IInv, TypeOK
  <2>2. QED
    BY <1>9, <2>1 DEF Finish, Return, Success
<1>10. CASE ForkFails
  <2>1. Returning /\ child = FALSE /\ returned = "none"
    BY <1>10, TailIsReturning DEF ForkFails, AfterLoop, Goes, Return, IInv, TypeOK
  <2>2. QED
    BY <1>10, <2>1 DEF ForkFails, Return, Failure
<1>11. CASE ChildSucceeds \/ ChildKilled
  <2>1. child /\ CommandEnds /\ Return("success")
    BY <1>11 DEF ChildSucceeds, ChildKilled, CommandEnds
  <2>2. Returning /\ returned = "none" /\ Top.i > Len(Deps(1))
    BY <1>2, <2>1, TailIsReturning DEF Return
  <2>3. QED
    BY <1>11, <2>1, <2>2 DEF ChildSucceeds, ChildKilled, CommandEnds, Return, Success
<1>12. CASE ChildFails
  <2>1. child /\ CommandEnds /\ Return("failure")
    BY <1>12 DEF ChildFails, CommandEnds
  <2>2. Returning /\ returned = "none"
    BY <1>2, <2>1, TailIsReturning DEF Return
  <2>3. QED
    BY <1>12, <2>1, <2>2 DEF ChildFails, CommandEnds, Return, Failure
<1>13. QED
  BY <1>3, <1>4, <1>5, <1>6, <1>7, <1>8, <1>9, <1>10, <1>11, <1>12 DEF Step

-----------------------------------------------------------------------------
(* The invariant is inductive. *)

LEMMA InitIInv == Init => IInv
<1> SUFFICES ASSUME Init PROVE IInv
  OBVIOUS
<1> USE DEF Init
<1>1. [node |-> Root, i |-> 1] \in Frames
  BY DEF Frames, Nodes
<1>2. /\ stack \in Seq(Frames) /\ Len(stack) = 1 /\ Calls = {1}
      /\ Node(1) = Root /\ stack[1].i = 1
  BY <1>1 DEF Calls, Node
<1>3. TypeOK
  <2>1. deps[Initial] \in Seq(Files) /\ Len(deps[Initial]) \in Nat
    BY DEF Nodes
  <2>2. \A k \in 1 .. Len(stack) :
          stack[k].node \in Nodes /\ stack[k].i \in 1 .. Len(deps[Name(stack[k].node)]) + 1
    BY <1>2, <2>1 DEF Node, Nodes, Name
  <2>3. mtime \in [Files -> -1 .. MaxTime]
    OBVIOUS
  <2>4. ran \in Seq(Targets)
    BY SMT
  <2>5. status \in [Nodes -> {"UNFINISHED", "NEEDS_BUILDING", "FINISHED"}]
    OBVIOUS
  <2>6. /\ deps \in Makefiles /\ child \in BOOLEAN
        /\ returned \in {"none", "success", "failure"}
        /\ left \subseteq Nodes \X Targets \X {2} /\ ends \subseteq {"exit", "signal", "fork"}
    BY Zenon
  <2>7. QED
    BY <2>2, <2>3, <2>4, <2>5, <2>6, Zenon DEF TypeOK
<1>4. Rooted
  BY <1>2 DEF Rooted, Files
<1>5. Chain /\ Adjacent /\ Running /\ Reported /\ Stopped /\ Descends
  BY <1>2 DEF Chain, Adjacent, Running, Reported, Stopped, Descends
<1>6. InProgress
  BY DEF InProgress
<1>7. NotAgain /\ Past
  BY <1>2 DEF NotAgain, Past
<1>8. QED
  BY <1>3, <1>4, <1>5, <1>6, <1>7 DEF IInv

(* What is true of every call while there is one. *)
LEMMA CallIs ==
  ASSUME IInv, NEW k \in Calls
  PROVE  /\ Node(k) \in Nodes /\ Name(Node(k)) \in Targets
         /\ Deps(k) \in Seq(Files) /\ Len(Deps(k)) \in Nat
         /\ stack[k].i \in 1 .. Len(Deps(k)) + 1
<1>1. stack # <<>>
  BY DEF Calls
<1>2. Node(k) \in Nodes /\ Name(Node(k)) \in Targets
  BY <1>1, StackIs
<1>3. deps \in [Targets -> Seq(Files)]
  BY DEF IInv, TypeOK
<1>4. Deps(k) \in Seq(Files) /\ Len(Deps(k)) \in Nat
  BY <1>2, <1>3 DEF Deps
<1>5. k \in 1 .. Len(stack)
  BY <1>1, StackIs
<1>6. stack[k].i \in 1 .. Len(Deps(k)) + 1
  BY <1>5 DEF IInv, TypeOK, Deps, Node
<1>7. QED
  BY <1>2, <1>4, <1>6

LEMMA TypeStep == IInv /\ [Step]_vars => TypeOK'
<1> SUFFICES ASSUME IInv, [Step]_vars PROVE TypeOK'
  OBVIOUS
<1>0. TypeOK
  BY DEF IInv
<1>1. CASE UNCHANGED vars
  BY <1>0, <1>1 DEF vars, TypeOK, Name
<1> DEFINE Placed ==
      \A k \in 1 .. Len(stack) :
        stack[k].node \in Nodes /\ stack[k].i \in 1 .. Len(deps[Name(stack[k].node)]) + 1
<1>2. ASSUME stack # <<>>, status' \in {status, Marked(Me), [status EXCEPT ![Me] = "FINISHED"]}
      PROVE  status' \in [Nodes -> {"UNFINISHED", "NEEDS_BUILDING", "FINISHED"}]
  BY <1>0, <1>2, StackIs DEF TypeOK, Marked
<1>3. ASSUME mtime' = mtime \/ CommandEnds, stack # <<>>
      PROVE  mtime' \in [Files -> -1 .. MaxTime]
  <2>1. CASE mtime' = mtime
    BY <1>0, <2>1 DEF TypeOK
  <2>2. CASE CommandEnds
    <3>1. PICK new \in [Writes[Name(Me)] -> -1 .. MaxTime] :
            mtime' = [x \in Files |-> IF x \in Writes[Name(Me)] THEN new[x] ELSE mtime[x]]
      BY <2>2 DEF CommandEnds
    <3>2. \A x \in Files :
            (IF x \in Writes[Name(Me)] THEN new[x] ELSE mtime[x]) \in -1 .. MaxTime
      BY <1>0 DEF TypeOK
    <3>3. QED
      BY <3>1, <3>2
  <2>3. QED
    BY <1>3, <2>1, <2>2
<1>4. CASE NextDependency
  <2>1. stack # <<>> /\ Top.i <= Len(Deps(1)) /\ Top = stack[1] /\ Me \in Nodes
    BY <1>4, StackIs DEF NextDependency, GoesOn
  <2>2. Placed'
    <3>1. SUFFICES ASSUME NEW k \in 1 .. Len(stack')
                   PROVE  stack'[k].node \in Nodes
                          /\ stack'[k].i \in 1 .. Len(deps[Name(stack'[k].node)]) + 1
      BY <1>4 DEF NextDependency, Name
    <3>2. k \in Calls
      BY <1>4 DEF NextDependency, GoesOn
    <3>3. stack'[k].node = Node(k) /\ stack'[k].i = IF k = 1 THEN stack[k].i + 1 ELSE stack[k].i
      BY <1>4, <3>2 DEF NextDependency, GoesOn
    <3>4. QED
      BY <2>1, <3>2, <3>3, CallIs DEF Deps
  <2>3. status' \in [Nodes -> {"UNFINISHED", "NEEDS_BUILDING", "FINISHED"}]
    BY <1>2, <1>4, <2>1 DEF NextDependency
  <2>4. left' \subseteq Nodes \X Targets \X {2}
    <3>1. CASE left' = left
      BY <1>0, <3>1 DEF TypeOK
    <3>2. CASE Dep \in Targets /\ left' = left \cup {<<Me, Dep, 2>>}
      <4>1. <<Me, Dep, 2>> \in Nodes \X Targets \X {2}
        BY <2>1, <3>2
      <4>2. QED
        BY <1>0, <3>2, <4>1 DEF TypeOK
    <3>3. QED
      BY <1>4, <3>1, <3>2 DEF NextDependency
  <2>5. QED
    BY <1>0, <1>4, <2>2, <2>3, <2>4 DEF NextDependency, TypeOK
<1>5. CASE Call
  <2>1. stack # <<>> /\ Len(stack) \in Nat /\ Calls = 1 .. Len(stack)
    BY <1>5, StackIs DEF Call, Calling
  <2>2. Placed'
    <3>1. SUFFICES ASSUME NEW k \in 1 .. Len(stack')
                   PROVE  stack'[k].node \in Nodes
                          /\ stack'[k].i \in 1 .. Len(deps[Name(stack'[k].node)]) + 1
      BY <1>5 DEF Call, Name
    <3>2. CASE k = 1
      <4>1. stack'[k].node \in Targets /\ stack'[k].i = 1
        BY <1>5, <3>2 DEF Call, Calling
      <4>2. Name(stack'[k].node) \in Targets
        BY <4>1 DEF Name
      <4>3. Len(deps[Name(stack'[k].node)]) \in Nat
        BY <1>0, <4>2 DEF TypeOK
      <4>4. QED
        BY <4>1, <4>3 DEF Nodes
    <3>3. CASE k # 1
      <4>1. k - 1 \in Calls /\ stack'[k] = stack[k - 1]
        <5>1. k - 1 \in Calls /\ (k - 1) + 1 = k
          BY <1>5, <2>1, <3>3 DEF Call, Calling
        <5>2. QED
          BY <1>5, <5>1 DEF Call, Calling
      <4>2. QED
        BY <4>1, CallIs DEF Deps, Node
    <3>4. QED
      BY <3>2, <3>3
  <2>3. status' \in [Nodes -> {"UNFINISHED", "NEEDS_BUILDING", "FINISHED"}]
    BY <1>2, <1>5, <2>1 DEF Call
  <2>4. QED
    BY <1>0, <1>5, <2>2, <2>3 DEF Call, TypeOK
<1>6. CASE Fork
  <2>1. stack # <<>> /\ Name(Me) \in Targets
    BY <1>6, StackIs DEF Fork, AfterLoop, Goes
  <2>2. ran' \in Seq(Targets)
    BY <1>0, <1>6, <2>1 DEF Fork, TypeOK
  <2>3. status' \in [Nodes -> {"UNFINISHED", "NEEDS_BUILDING", "FINISHED"}]
    BY <1>2, <1>6, <2>1 DEF Fork
  <2>4. QED
    BY <1>0, <1>6, <2>2, <2>3 DEF Fork, TypeOK, Name
<1>7. CASE Success \/ Failure
  <2>1. stack # <<>> /\ Len(stack) \in Nat /\ Calls = 1 .. Len(stack) /\ Returning /\ deps' = deps
    BY <1>7, StackIs DEF Success, Failure, Returning
  <2>2. Placed'
    <3>1. SUFFICES ASSUME NEW k \in 1 .. Len(stack')
                   PROVE  stack'[k].node \in Nodes
                          /\ stack'[k].i \in 1 .. Len(deps[Name(stack'[k].node)]) + 1
      BY <2>1 DEF Name
    <3>2. k + 1 \in Calls /\ k \in DOMAIN stack'
      BY <2>1 DEF Returning
    <3>3. stack'[k] = stack[k + 1]
      BY <2>1, <3>2 DEF Returning
    <3>4. QED
      BY <3>2, <3>3, CallIs DEF Deps, Node
  <2>3. status' \in [Nodes -> {"UNFINISHED", "NEEDS_BUILDING", "FINISHED"}]
    BY <1>2, <1>7, <2>1 DEF Success, Failure
  <2>4. mtime' \in [Files -> -1 .. MaxTime]
    BY <1>3, <1>7, <2>1 DEF Success, Failure
  <2>5. /\ returned' \in {"none", "success", "failure"} /\ child' \in BOOLEAN
        /\ ends' \subseteq {"exit", "signal", "fork"}
    BY <1>0, <1>7 DEF Success, Failure, TypeOK
  <2>6. ran' = ran /\ left' = left
    BY <1>7 DEF Success, Failure
  <2>7. QED
    BY <1>0, <2>1, <2>2, <2>3, <2>4, <2>5, <2>6 DEF TypeOK
<1>8. QED
  BY <1>1, <1>4, <1>5, <1>6, <1>7, StepIs

(* The new places of the calls. *)
LEMMA NextCalls ==
  ASSUME IInv, GoesOn
  PROVE  /\ Calls' = Calls /\ Len(stack') = Len(stack)
         /\ \A k \in Calls : Node(k)' = Node(k)
         /\ stack # <<>> /\ stack' # <<>> /\ stack'[1].i = stack[1].i + 1
         /\ \A k \in Calls : k # 1 => stack'[k].i = stack[k].i
<1>1. /\ stack \in Seq(Frames) /\ Len(stack) \in Nat \ {0} /\ Calls = 1 .. Len(stack)
      /\ stack' \in Seq(Frames) /\ Calls' = Calls
  BY StackIs DEF GoesOn, Calls
<1>2. Len(stack') = Len(stack)
  <2>1. PICK m, n \in Nat : m = Len(stack') /\ n = Len(stack)
    BY <1>1
  <2>2. 1 .. m = 1 .. n
    BY <1>1, <2>1 DEF Calls
  <2>3. QED
    BY <2>1, <2>2
<1>3. stack # <<>> /\ stack' # <<>> /\ 1 \in Calls
  BY <1>1, <1>2 DEF GoesOn
<1>4. /\ \A k \in Calls : Node(k)' = Node(k)
      /\ stack'[1].i = stack[1].i + 1
      /\ \A k \in Calls : k # 1 => stack'[k].i = stack[k].i
  BY <1>3 DEF GoesOn, Calls, Node
<1>5. QED
  BY <1>1, <1>2, <1>3, <1>4

LEMMA NewCall ==
  ASSUME IInv, Calling
  PROVE  /\ 1 \in Calls' /\ Node(1)' = Dep /\ stack'[1].i = 1
         /\ \A k \in Calls : k + 1 \in Calls' /\ k + 1 # 1 /\ stack'[k + 1] = stack[k]
         /\ \A k \in Calls' : k = 1 \/ (k - 1 \in Calls /\ (k - 1) + 1 = k)
         /\ Calls \subseteq Nat \ {0} /\ Calls' \subseteq Nat \ {0}
         /\ Len(stack') = Len(stack) + 1 /\ stack' # <<>>
<1>1. /\ Len(stack) \in Nat \ {0} /\ Calls = 1 .. Len(stack)
      /\ Len(stack') = Len(stack) + 1 /\ Calls' = 1 .. Len(stack) + 1
  BY StackIs DEF Calling, Calls
<1>2. /\ 1 \in Calls' /\ \A k \in Calls : k + 1 \in Calls' /\ k + 1 # 1
      /\ \A k \in Calls' : k = 1 \/ (k - 1 \in Calls /\ (k - 1) + 1 = k)
      /\ Calls \subseteq Nat \ {0} /\ Calls' \subseteq Nat \ {0}
  BY <1>1
<1>3. stack' # <<>>
  BY <1>1
<1>4. QED
  BY <1>1, <1>2, <1>3 DEF Calling, Node

LEMMA CallBefore ==
  ASSUME IInv, Calling, NEW k \in Calls', k # 1
  PROVE  \E l \in Calls : k = l + 1 /\ Node(k)' = Node(l)
<1>1. PICK l \in Calls : k = l + 1
  BY NewCall
<1>2. stack'[l + 1] = stack[l]
  BY NewCall
<1>3. QED
  BY <1>1, <1>2 DEF Node

LEMMA OneCallLess ==
  ASSUME IInv, Returning
  PROVE  /\ \A k \in Calls' : /\ k + 1 \in Calls /\ k + 1 # 1
                              /\ stack'[k] = stack[k + 1] /\ Node(k)' = Node(k + 1)
         /\ \A k \in Calls : k = 1 \/ (k - 1 \in Calls' /\ (k - 1) + 1 = k)
         /\ Calls \subseteq Nat \ {0} /\ Calls' \subseteq Nat \ {0}
         /\ 1 \in Calls /\ Len(stack') = Len(stack) - 1 /\ Len(stack) \in Nat
<1>1. /\ Len(stack) \in Nat \ {0} /\ Calls = 1 .. Len(stack)
      /\ Len(stack') = Len(stack) - 1 /\ Calls' = 1 .. Len(stack) - 1
  BY StackIs DEF Returning, Calls
<1>2. /\ 1 \in Calls /\ \A k \in Calls' : k + 1 \in Calls /\ k + 1 # 1
      /\ \A k \in Calls : k = 1 \/ (k - 1 \in Calls' /\ (k - 1) + 1 = k)
      /\ Calls \subseteq Nat \ {0} /\ Calls' \subseteq Nat \ {0}
  BY <1>1
<1>3. \A k \in Calls' : stack'[k] = stack[k + 1] /\ Node(k)' = Node(k + 1)
  BY DEF Returning, Calls, Node
<1>4. QED
  BY <1>1, <1>2, <1>3

LEMMA RootedStep == IInv /\ [Step]_vars => Rooted'
<1> SUFFICES ASSUME IInv, [Step]_vars PROVE Rooted'
  OBVIOUS
<1>0. Rooted
  BY DEF IInv
<1>1. CASE UNCHANGED vars \/ Fork
  BY <1>0, <1>1 DEF Rooted, vars, Fork, Calls, Node
<1>2. CASE NextDependency
  BY <1>0, <1>2, NextCalls DEF NextDependency, GoesOn, Rooted
<1>3. CASE Call
  <2>1. Dep \in Targets /\ Calling /\ stack # <<>> /\ Len(stack) \in Nat \ {0}
    BY <1>3, StackIs DEF Call, Calling
  <2>2. ASSUME NEW k \in Calls' PROVE (Node(k) \in Targets)' <=> k # Len(stack')
    <3>1. CASE k = 1
      BY <2>1, <3>1, NewCall
    <3>2. CASE k # 1
      <4>1. k - 1 \in Calls /\ (k - 1) + 1 = k /\ k \in Nat
        BY <2>1, <2>2, <3>2, NewCall
      <4>2. Node(k)' = Node(k - 1)
        BY <2>1, <4>1, NewCall DEF Node
      <4>3. k # Len(stack') <=> k - 1 # Len(stack)
        BY <2>1, <4>1, NewCall
      <4>4. QED
        BY <1>0, <4>1, <4>2, <4>3 DEF Rooted
    <3>3. QED
      BY <3>1, <3>2
  <2>3. QED
    BY <2>1, <2>2 DEF Rooted, Calling
<1>4. CASE Success \/ Failure
  <2>1. Returning
    BY <1>4 DEF Success, Failure
  <2>2. ASSUME NEW k \in Calls' PROVE (Node(k) \in Targets)' <=> k # Len(stack')
    <3>1. k + 1 \in Calls /\ Node(k)' = Node(k + 1) /\ k \in Nat
      BY <2>1, <2>2, OneCallLess
    <3>2. k # Len(stack') <=> k + 1 # Len(stack)
      BY <2>1, <3>1, OneCallLess
    <3>3. QED
      BY <1>0, <3>1, <3>2 DEF Rooted
  <2>3. QED
    BY <2>1, <2>2 DEF Rooted, Returning
<1>5. QED
  BY <1>1, <1>2, <1>3, <1>4, StepIs

LEMMA ChainStep == IInv /\ [Step]_vars => Chain'
<1> SUFFICES ASSUME IInv, [Step]_vars PROVE Chain'
  OBVIOUS
<1>0. Chain /\ TypeOK
  BY DEF IInv
<1>1. ASSUME NEW n \in Nodes, status[n] = "NEEDS_BUILDING",
             status' \in {status, Marked(Me)}
      PROVE  status'[n] = "NEEDS_BUILDING"
  BY <1>0, <1>1 DEF TypeOK, Marked
<1>2. CASE UNCHANGED vars
  BY <1>0, <1>2 DEF Chain, vars, Calls, Node, Deps, Name
<1>3. CASE Fork
  BY <1>0, <1>1, <1>3, CallIs DEF Chain, Fork, Calls, Node, Deps, Name
<1>4. CASE NextDependency
  <2>1. GoesOn /\ deps' = deps /\ status' \in {status, Marked(Me)}
    BY <1>4 DEF NextDependency
  <2>2. ASSUME NEW k \in Calls', k # 1
        PROVE  /\ status'[Node(k)'] = "NEEDS_BUILDING"
               /\ stack'[k].i <= Len(Deps(k)') /\ Deps(k)'[stack'[k].i] = Node(k - 1)'
    <3>1. k \in Calls /\ k - 1 \in Calls
      BY <2>1, <2>2, NextCalls, StackIs
    <3>2. Node(k)' = Node(k) /\ Node(k - 1)' = Node(k - 1) /\ stack'[k].i = stack[k].i
      BY <2>1, <2>2, <3>1, NextCalls
    <3>3. QED
      BY <1>0, <1>1, <2>1, <2>2, <3>1, <3>2, CallIs DEF Chain, Deps, Name
  <2>3. QED
    BY <2>2 DEF Chain
<1>5. CASE Call
  <2>1. /\ Calling /\ deps' = deps /\ status' = Marked(Me)
        /\ Me = Node(1) /\ 1 \in Calls /\ Dep = Deps(1)[stack[1].i]
        /\ stack[1].i <= Len(Deps(1))
    BY <1>5, StackIs DEF Call, InLoop, Goes, Dep, Deps
  <2>2. ASSUME NEW k \in Calls', k # 1
        PROVE  /\ status'[Node(k)'] = "NEEDS_BUILDING"
               /\ stack'[k].i <= Len(Deps(k)') /\ Deps(k)'[stack'[k].i] = Node(k - 1)'
    <3>1. PICK j \in Calls : k = j + 1 /\ j = k - 1
      BY <2>1, <2>2, NewCall
    <3>2. stack'[k] = stack[j] /\ Node(k)' = Node(j) /\ Deps(k)' = Deps(j)
      BY <2>1, <3>1, NewCall DEF Node, Deps, Name
    <3>3. CASE j = 1
      <4>1. status'[Me] = "NEEDS_BUILDING"
        BY <1>0, <2>1, CallIs DEF TypeOK, Marked
      <4>2. QED
        BY <2>1, <3>1, <3>2, <3>3, <4>1, NewCall
    <3>4. CASE j # 1
      <4>1. j - 1 \in Calls /\ (j - 1) + 1 = j
        BY <2>1, <3>4, StackIs DEF Calling
      <4>2. Node(k - 1)' = Node(j - 1)
        BY <2>1, <3>1, <4>1, NewCall DEF Node
      <4>3. /\ status[Node(j)] = "NEEDS_BUILDING"
            /\ stack[j].i <= Len(Deps(j)) /\ Deps(j)[stack[j].i] = Node(j - 1)
        BY <1>0, <3>4 DEF Chain
      <4>4. QED
        BY <1>1, <2>1, <3>2, <4>2, <4>3, CallIs
    <3>5. QED
      BY <3>3, <3>4
  <2>3. QED
    BY <2>2 DEF Chain
<1>6. CASE Success \/ Failure
  <2>1. /\ Returning /\ deps' = deps /\ Me = Node(1)
        /\ status' \in {status, Marked(Me), [status EXCEPT ![Me] = "FINISHED"]}
    BY <1>6, StackIs DEF Success, Failure, Returning
  <2>2. ASSUME NEW k \in Calls', k # 1
        PROVE  /\ status'[Node(k)'] = "NEEDS_BUILDING"
               /\ stack'[k].i <= Len(Deps(k)') /\ Deps(k)'[stack'[k].i] = Node(k - 1)'
    <3>1. /\ k + 1 \in Calls /\ k + 1 # 1 /\ Node(k)' = Node(k + 1)
          /\ stack'[k] = stack[k + 1] /\ k \in Nat \ {0} /\ 1 \in Calls
      BY <2>1, <2>2, OneCallLess
    <3>2. k - 1 \in Calls' /\ Node(k - 1)' = Node(k) /\ (k + 1) - 1 = k
      <4>1. k - 1 \in Calls' /\ (k - 1) + 1 = k
        BY <2>1, <2>2, <3>1 DEF Returning, Calls
      <4>2. Node(k - 1)' = Node((k - 1) + 1)
        BY <2>1, <4>1, OneCallLess
      <4>3. QED
        BY <3>1, <4>1, <4>2
    <3>3. Node(k + 1) # Me
      BY <2>1, <2>2, <3>1 DEF IInv, Adjacent
    <3>4. status'[Node(k + 1)] = status[Node(k + 1)]
      BY <1>0, <2>1, <3>1, <3>3, CallIs DEF TypeOK, Marked
    <3>5. Deps(k)' = Deps(k + 1)
      BY <2>1, <3>1 DEF Deps, Name
    <3>6. QED
      BY <1>0, <3>1, <3>2, <3>4, <3>5 DEF Chain
  <2>3. QED
    BY <2>2 DEF Chain
<1>7. QED
  BY <1>2, <1>3, <1>4, <1>5, <1>6, StepIs

LEMMA AdjacentStep == IInv /\ [Step]_vars => Adjacent'
<1> SUFFICES ASSUME IInv, [Step]_vars PROVE Adjacent'
  OBVIOUS
<1>0. Adjacent /\ Chain
  BY DEF IInv
<1>1. CASE UNCHANGED vars \/ Fork
  BY <1>0, <1>1 DEF Adjacent, vars, Fork, Calls, Node
<1>2. CASE NextDependency
  BY <1>0, <1>2, NextCalls DEF NextDependency, Adjacent
<1>3. CASE Call
  <2>1. Calling /\ status[Dep] = "UNFINISHED"
    BY <1>3 DEF Call
  <2>2. ASSUME NEW j \in Calls', NEW k \in Calls', j < k, Node(j)' = Node(k)'
        PROVE  k = j + 1
    <3>1. k # 1 /\ j \in Nat \ {0} /\ k \in Nat \ {0}
      BY <2>1, <2>2, NewCall
    <3>2. PICK l \in Calls : k = l + 1 /\ Node(k)' = Node(l)
      BY <2>1, <3>1, NewCall DEF Node
    <3>3. CASE j = 1
      <4>1. Node(l) = Dep
        BY <2>1, <2>2, <3>2, <3>3, NewCall
      <4>2. l = 1
        BY <1>0, <2>1, <4>1 DEF Chain
      <4>3. QED
        BY <3>2, <3>3, <4>2
    <3>4. CASE j # 1
      <4>1. PICK m \in Calls : j = m + 1 /\ Node(j)' = Node(m)
        BY <2>1, <3>4, NewCall DEF Node
      <4>2. m \in Nat /\ l \in Nat
        BY <2>1, NewCall
      <4>3. m < l /\ Node(m) = Node(l)
        BY <2>2, <3>2, <4>1, <4>2
      <4>4. QED
        BY <1>0, <3>2, <4>1, <4>2, <4>3 DEF Adjacent
    <3>5. QED
      BY <3>3, <3>4
  <2>3. QED
    BY <2>2 DEF Adjacent
<1>4. CASE Success \/ Failure
  <2>1. Returning
    BY <1>4 DEF Success, Failure
  <2>2. ASSUME NEW j \in Calls', NEW k \in Calls', j < k, Node(j)' = Node(k)'
        PROVE  k = j + 1
    <3>1. /\ j + 1 \in Calls /\ k + 1 \in Calls /\ Node(j + 1) = Node(k + 1)
          /\ j \in Nat /\ k \in Nat
      BY <2>1, <2>2, OneCallLess
    <3>2. k + 1 = (j + 1) + 1
      BY <1>0, <2>2, <3>1 DEF Adjacent
    <3>3. QED
      BY <3>1, <3>2
  <2>3. QED
    BY <2>2 DEF Adjacent
<1>5. QED
  BY <1>1, <1>2, <1>3, <1>4, StepIs

LEMMA RunningStep == IInv /\ [Step]_vars => Running'
<1> SUFFICES ASSUME IInv, [Step]_vars PROVE Running'
  OBVIOUS
<1>0. Running /\ TypeOK
  BY DEF IInv
<1>1. CASE UNCHANGED vars
  BY <1>0, <1>1 DEF Running, vars, Deps, Node, Me, Top, Name
<1>2. CASE Fork
  <2>1. /\ stack # <<>> /\ returned' = "none"
        /\ Top.i > Len(deps[Name(Me)]) /\ Me = Node(1) /\ Me \in Nodes
    BY <1>2, StackIs DEF Fork, AfterLoop, Goes
  <2>2. status'[Me] = "NEEDS_BUILDING"
    BY <1>0, <1>2, <2>1 DEF Fork, Marked, TypeOK
  <2>3. QED
    BY <1>2, <2>1, <2>2 DEF Running, Fork, Deps, Node, Me, Top, Name
<1>3. CASE NextDependency \/ Call
  BY <1>3 DEF NextDependency, Call, InLoop, Goes, Running
<1>4. CASE Success \/ Failure
  BY <1>4 DEF Success, Failure, Running
<1>5. QED
  BY <1>1, <1>2, <1>3, <1>4, StepIs

LEMMA ReportedStep == IInv /\ [Step]_vars => Reported'
<1> SUFFICES ASSUME IInv, [Step]_vars PROVE Reported'
  OBVIOUS
<1>0. Reported /\ TypeOK /\ Rooted /\ Chain
  BY DEF IInv
<1>1. CASE UNCHANGED vars
  BY <1>0, <1>1 DEF Reported, vars, Deps, Node, Name, Calls
<1>2. CASE NextDependency \/ Call \/ Fork
  BY <1>2 DEF NextDependency, Call, Fork, InLoop, AfterLoop, Goes, Reported
<1>3. CASE Success \/ Failure
  <2>1. /\ Returning /\ deps' = deps /\ stack # <<>> /\ Me = Node(1) /\ Me \in Nodes
        /\ returned' = "success" => status' = [status EXCEPT ![Me] = "FINISHED"]
    BY <1>3, StackIs DEF Success, Failure, Returning
  <2>2. SUFFICES ASSUME NEW k \in Calls', k = 1
                 PROVE  /\ stack'[k].i <= Len(Deps(k)')
                        /\ returned' = "success" =>
                             /\ Deps(k)'[stack'[k].i] \in Targets
                             /\ status'[Deps(k)'[stack'[k].i]] = "FINISHED"
    BY DEF Reported
  <2>3. 2 \in Calls /\ stack'[1] = stack[2] /\ 1 \in Calls /\ 1 + 1 = 2
    BY <2>1, <2>2, OneCallLess
  <2>4. Deps(k)' = Deps(2)
    BY <2>1, <2>2, <2>3 DEF Deps, Node, Name
  <2>5. stack[2].i <= Len(Deps(2)) /\ Deps(2)[stack[2].i] = Node(2 - 1) /\ 2 - 1 = 1
    BY <1>0, <2>3 DEF Chain
  <2>6. Len(stack) # 1
    BY <2>1, <2>3, StackIs
  <2>7. Me \in Targets
    BY <1>0, <2>1, <2>3, <2>6 DEF Rooted
  <2>8. returned' = "success" => status'[Me] = "FINISHED"
    BY <1>0, <2>1 DEF TypeOK
  <2>9. QED
    BY <2>1, <2>2, <2>3, <2>4, <2>5, <2>7, <2>8
<1>4. QED
  BY <1>1, <1>2, <1>3, StepIs

LEMMA StoppedStep == IInv /\ [Step]_vars => Stopped'
<1> SUFFICES ASSUME IInv, [Step]_vars PROVE Stopped'
  OBVIOUS
<1>0. Stopped
  BY DEF IInv
<1>1. CASE UNCHANGED vars
  BY <1>0, <1>1 DEF Stopped, vars
<1>2. CASE NextDependency \/ Call \/ Fork
  BY <1>0, <1>2 DEF Stopped, NextDependency, Call, Fork, InLoop, AfterLoop, Goes
<1>3. CASE Success
  BY <1>0, <1>3 DEF Stopped, Success
<1>4. CASE Failure
  BY <1>4 DEF Failure, Stopped
<1>5. QED
  BY <1>1, <1>2, <1>3, <1>4, StepIs

LEMMA InProgressStep == IInv /\ [Step]_vars => InProgress'
<1> SUFFICES ASSUME IInv, [Step]_vars PROVE InProgress'
  OBVIOUS
<1>0. InProgress /\ TypeOK
  BY DEF IInv
<1>1. CASE UNCHANGED vars
  BY <1>0, <1>1 DEF InProgress, vars, Calls, Node
<1> DEFINE Built(n) == \E k \in Calls : Node(k) = n
<1>2. ASSUME stack # <<>>, returned # "failure", NEW n \in Nodes, status'[n] = "NEEDS_BUILDING",
             status' \in {status, Marked(Me), [status EXCEPT ![Me] = "FINISHED"]}
      PROVE  Built(n)
  <2>1. 1 \in Calls /\ Me = Node(1) /\ Me \in Nodes
    BY <1>2, StackIs
  <2>2. n = Me \/ status[n] = "NEEDS_BUILDING"
    BY <1>0, <1>2, <2>1 DEF TypeOK, Marked
  <2>3. QED
    BY <1>0, <1>2, <2>1, <2>2 DEF InProgress
<1>3. CASE Fork
  <2>1. stack # <<>> /\ returned # "failure"
    BY <1>3 DEF Fork, AfterLoop, Goes
  <2>2. QED
    BY <1>2, <1>3, <2>1 DEF Fork, InProgress, Calls, Node
<1>4. CASE NextDependency
  <2>1. stack # <<>> /\ GoesOn /\ returned # "failure"
    BY <1>4 DEF NextDependency, GoesOn
  <2>2. status' \in {status, Marked(Me)}
    BY <1>4 DEF NextDependency
  <2>3. QED
    BY <1>2, <2>1, <2>2, NextCalls DEF InProgress
<1>5. CASE Call
  <2>1. stack # <<>> /\ returned # "failure" /\ Calling /\ status' = Marked(Me)
    BY <1>5 DEF Call, InLoop, Goes
  <2>2. ASSUME NEW n \in Nodes, status'[n] = "NEEDS_BUILDING"
        PROVE  \E k \in Calls' : Node(k)' = n
    <3>1. PICK k \in Calls : Node(k) = n
      BY <1>2, <2>1, <2>2
    <3>2. k + 1 \in Calls' /\ Node(k + 1)' = n
      BY <2>1, <3>1, NewCall DEF Node
    <3>3. QED
      BY <3>2
  <2>3. QED
    BY <2>2 DEF InProgress
<1>6. CASE Success
  <2>1. /\ stack # <<>> /\ returned # "failure" /\ Returning
        /\ status' = [status EXCEPT ![Me] = "FINISHED"]
    BY <1>6 DEF Success, Returning
  <2>2. ASSUME NEW n \in Nodes, status'[n] = "NEEDS_BUILDING"
        PROVE  \E k \in Calls' : Node(k)' = n
    <3>1. PICK k \in Calls : Node(k) = n
      BY <1>2, <2>1, <2>2
    <3>2. k # 1
      BY <1>0, <2>1, <2>2, <3>1, StackIs DEF TypeOK
    <3>3. k - 1 \in Calls' /\ (k - 1) + 1 = k
      BY <2>1, <3>1, <3>2, OneCallLess
    <3>4. Node(k - 1)' = n
      BY <2>1, <3>1, <3>3, OneCallLess
    <3>5. QED
      BY <3>3, <3>4
  <2>3. QED
    BY <2>2 DEF InProgress
<1>7. CASE Failure
  BY <1>7 DEF Failure, InProgress
<1>8. QED
  BY <1>1, <1>3, <1>4, <1>5, <1>6, <1>7, StepIs

LEMMA AcyclicIs == Acyclic => \E rank \in Ranking : Ranks(rank)
<1>1. Cardinality(Targets) \in Nat
  BY FS_CardinalityType
<1>2. 1 .. Cardinality(Targets) \subseteq Int
  BY <1>1
<1>3. QED
  BY <1>2 DEF Acyclic, Ranking

(* What a call waits for, or is about to call, has a smaller number. *)
LEMMA DependencyIsSmaller ==
  ASSUME IInv, NEW rank \in Ranking, Ranks(rank),
         NEW k \in Calls, NEW j \in 1 .. Len(Deps(k)), Deps(k)[j] \in Targets
  PROVE  /\ Name(Deps(k)[j]) = Deps(k)[j] /\ rank[Deps(k)[j]] < rank[Name(Node(k))]
         /\ rank[Deps(k)[j]] \in Int /\ rank[Name(Node(k))] \in Int
BY CallIs DEF Ranks, Deps, Name, Files, Ranking

LEMMA DescendsStep == IInv /\ [Step]_vars => Descends'
<1> SUFFICES ASSUME IInv, [Step]_vars PROVE Descends'
  OBVIOUS
<1>0. Descends
  BY DEF IInv
<1>1. CASE UNCHANGED vars \/ Fork
  BY <1>0, <1>1 DEF Descends, Ranks, vars, Fork, Calls, Node
<1>2. CASE NextDependency
  BY <1>0, <1>2, NextCalls DEF NextDependency, Descends, Ranks
<1>3. CASE Call
  <2>1. /\ Calling /\ deps' = deps /\ Dep \in Targets
        /\ 1 \in Calls /\ Dep = Deps(1)[stack[1].i] /\ stack[1].i \in 1 .. Len(Deps(1))
    <3>1. stack # <<>> /\ Top.i <= Len(deps[Name(Me)])
      BY <1>3 DEF Call, InLoop, Goes
    <3>2. 1 \in Calls /\ Dep = Deps(1)[stack[1].i] /\ stack[1].i <= Len(Deps(1))
      BY <3>1, StackIs DEF Dep, Deps
    <3>3. QED
      BY <1>3, <3>2, CallIs DEF Call
  <2>2. ASSUME NEW rank \in Ranking, Ranks(rank),
               NEW j \in Calls', NEW k \in Calls', j < k
        PROVE  rank[Name(Node(j)')] < rank[Name(Node(k)')]
    <3>1. k # 1 /\ j \in Nat \ {0} /\ k \in Nat \ {0}
      BY <2>1, <2>2, NewCall
    <3>2. PICK l \in Calls : k = l + 1 /\ Node(k)' = Node(l)
      BY <2>1, <2>2, <3>1, CallBefore
    <3>3. l \in Nat \ {0} /\ rank[Name(Node(l))] \in Int
      BY <2>1, NewCall, CallIs DEF Ranking
    <3>4. CASE j = 1
      <4>1. Name(Node(j)') = Dep
        BY <2>1, <2>2, <3>4, NewCall, DependencyIsSmaller
      <4>2. /\ rank[Dep] < rank[Name(Node(1))]
            /\ rank[Dep] \in Int /\ rank[Name(Node(1))] \in Int
        BY <2>1, <2>2, DependencyIsSmaller
      <4>3. l = 1 \/ rank[Name(Node(1))] < rank[Name(Node(l))]
        BY <1>0, <2>1, <2>2, <3>3 DEF Descends
      <4>4. QED
        BY <3>2, <3>3, <4>1, <4>2, <4>3
    <3>5. CASE j # 1
      <4>1. PICK m \in Calls : j = m + 1 /\ Node(j)' = Node(m)
        BY <2>1, <2>2, <3>5, CallBefore
      <4>2. m \in Nat /\ m < l
        BY <2>1, <2>2, <3>2, <3>3, <4>1, NewCall
      <4>3. QED
        BY <1>0, <2>2, <3>2, <4>1, <4>2 DEF Descends
    <3>6. QED
      BY <3>4, <3>5
  <2>3. QED
    BY <2>1, <2>2 DEF Descends, Ranks, Name
<1>4. CASE Success \/ Failure
  <2>1. Returning /\ deps' = deps
    BY <1>4 DEF Success, Failure
  <2>2. ASSUME NEW rank \in Ranking, Ranks(rank),
               NEW j \in Calls', NEW k \in Calls', j < k
        PROVE  rank[Name(Node(j)')] < rank[Name(Node(k)')]
    <3>1. /\ j + 1 \in Calls /\ k + 1 \in Calls /\ j \in Nat /\ k \in Nat
          /\ Node(j)' = Node(j + 1) /\ Node(k)' = Node(k + 1)
      BY <2>1, <2>2, OneCallLess
    <3>2. QED
      BY <1>0, <2>2, <3>1 DEF Descends
  <2>3. QED
    BY <2>1, <2>2 DEF Descends, Ranks, Name
<1>5. QED
  BY <1>1, <1>2, <1>3, <1>4, StepIs

LEMMA NotAgainStep == IInv /\ [Step]_vars => NotAgain'
<1> SUFFICES ASSUME IInv, [Step]_vars, Acyclic' PROVE NotAgain'
  BY DEF NotAgain
<1>1. deps' = deps
  BY StepIs DEF NextDependency, Call, Fork, Success, Failure, vars
<1>2. PICK rank \in Ranking : Ranks(rank)
  BY <1>1, AcyclicIs DEF Acyclic, Ranks
<1>3. NotAgain /\ TypeOK /\ Rooted /\ Acyclic
  BY <1>1 DEF IInv, Acyclic, Ranks
<1>4. ran \in Seq(Targets) /\ \A j \in DOMAIN ran : ran[j] \in Nodes
  BY <1>3 DEF TypeOK, Nodes
<1> DEFINE Dealt  == \A j \in DOMAIN ran : ran[j] # Initial => status[ran[j]] # "UNFINISHED"
           Gone   == \A j \in DOMAIN ran, k \in Calls :
                       ran[j] = Name(Node(k)) => k = 1 /\ child
           Single == \A j, k \in DOMAIN ran : ran[j] = ran[k] => j = k
<1>5. Dealt /\ Gone /\ Single
  BY <1>3 DEF NotAgain
<1>6. ASSUME stack # <<>>,
             status' \in {status, Marked(Me), [status EXCEPT ![Me] = "FINISHED"]},
             NEW n \in Nodes, status[n] # "UNFINISHED"
      PROVE  status'[n] # "UNFINISHED"
  BY <1>3, <1>6, StackIs DEF TypeOK, Marked
<1>7. ASSUME stack # <<>>, ran' = ran,
             status' \in {status, Marked(Me), [status EXCEPT ![Me] = "FINISHED"]}
      PROVE  Dealt' /\ Single'
  BY <1>4, <1>5, <1>6, <1>7
<1>8. CASE UNCHANGED vars
  BY <1>5, <1>8 DEF vars, NotAgain, Calls, Node
<1>9. CASE NextDependency
  <2>1. stack # <<>> /\ ran' = ran /\ status' \in {status, Marked(Me)} /\ GoesOn /\ ~child
    BY <1>9 DEF NextDependency, GoesOn
  <2>2. Gone'
    BY <1>5, <2>1, NextCalls
  <2>3. QED
    BY <1>7, <2>1, <2>2 DEF NotAgain
<1>10. CASE Call
  <2>1. /\ stack # <<>> /\ ran' = ran /\ status' = Marked(Me) /\ Calling /\ ~child
        /\ Dep \in Targets /\ status[Dep] = "UNFINISHED"
    BY <1>10 DEF Call, InLoop, Goes
  <2>2. ASSUME NEW j \in DOMAIN ran, NEW k \in Calls', ran[j] = Name(Node(k)')
        PROVE  FALSE
    <3>1. CASE k = 1
      <4>1. ran[j] = Dep
        BY <2>1, <2>2, <3>1, NewCall DEF Name, Files
      <4>2. ran[j] = Initial
        BY <1>5, <2>1, <4>1
      <4>3. PICK l \in Calls : l = Len(stack)
        BY <2>1, StackIs
      <4>4. Node(l) = Root
        BY <1>3, <4>3, CallIs DEF Rooted, Nodes
      <4>5. QED
        BY <1>5, <2>1, <4>2, <4>4 DEF Name
    <3>2. CASE k # 1
      <4>1. PICK l \in Calls : Node(k)' = Node(l)
        BY <2>1, <2>2, <3>2, NewCall DEF Node
      <4>2. QED
        BY <1>5, <2>1, <2>2, <4>1
    <3>3. QED
      BY <3>1, <3>2
  <2>3. Gone'
    BY <2>1, <2>2 DEF Name
  <2>4. QED
    BY <1>7, <2>1, <2>3 DEF NotAgain
<1>11. CASE Fork
  <2>1. /\ stack # <<>> /\ ~child /\ child' /\ stack' = stack
        /\ status' = Marked(Me) /\ ran' = Append(ran, Name(Me))
    BY <1>11 DEF Fork, AfterLoop, Goes
  <2>2. Me = Node(1) /\ 1 \in Calls /\ Calls = 1 .. Len(stack) /\ Name(Me) \in Targets
    BY <2>1, StackIs
  <2>3. /\ DOMAIN ran = 1 .. Len(ran) /\ Len(ran) \in Nat
        /\ DOMAIN ran' = 1 .. Len(ran) + 1 /\ ran'[Len(ran) + 1] = Name(Me)
        /\ \A j \in DOMAIN ran : ran'[j] = ran[j]
    BY <1>4, <2>1, <2>2
  <2>4. \A j \in DOMAIN ran, k \in Calls : ran[j] # Name(Node(k))
    BY <1>5, <2>1
  <2>5. \A j \in DOMAIN ran' : j \in DOMAIN ran \/ j = Len(ran) + 1
    BY <2>3
  <2>6. Dealt'
    <3>1. Name(Me) # Initial => status'[Name(Me)] # "UNFINISHED"
      BY <1>3, <2>1, <2>2, CallIs DEF Name, Marked, TypeOK
    <3>2. \A j \in DOMAIN ran : ran[j] # Initial => status'[ran[j]] # "UNFINISHED"
      BY <1>4, <1>5, <1>6, <2>1
    <3>3. QED
      BY <2>3, <2>5, <3>1, <3>2
  <2>7. Gone'
    <3>1. ASSUME NEW k \in Calls, Name(Me) = Name(Node(k)) PROVE k = 1
      <4>1. k = 1 \/ 1 < k
        BY <2>2
      <4>2. ~ 1 < k
        <5>1. rank[Name(Me)] \in Int
          BY <2>2 DEF Ranking
        <5>2. 1 < k => rank[Name(Me)] < rank[Name(Node(k))]
          BY <1>2, <2>2 DEF IInv, Descends
        <5>3. QED
          BY <3>1, <5>1, <5>2
      <4>3. QED
        BY <4>1, <4>2
    <3>2. Calls' = Calls /\ \A k \in Calls : Name(Node(k))' = Name(Node(k))
      BY <2>1 DEF Calls, Node, Name
    <3>3. QED
      BY <2>1, <2>3, <2>4, <2>5, <3>1, <3>2
  <2>8. Single'
    <3>1. \A j \in DOMAIN ran : ran[j] # Name(Me)
      BY <2>2, <2>4
    <3>2. QED
      BY <1>5, <2>3, <2>5, <3>1
  <2>9. QED
    BY <2>6, <2>7, <2>8 DEF NotAgain
<1>12. CASE Success \/ Failure
  <2>1. /\ stack # <<>> /\ ran' = ran /\ Returning
        /\ status' \in {status, Marked(Me), [status EXCEPT ![Me] = "FINISHED"]}
    BY <1>12 DEF Success, Failure, Returning
  <2>2. \A k \in Calls' : k + 1 \in Calls /\ k + 1 # 1 /\ Name(Node(k))' = Name(Node(k + 1))
    BY <2>1, OneCallLess DEF Name
  <2>3. Gone'
    BY <1>5, <2>1, <2>2
  <2>4. QED
    BY <1>7, <2>1, <2>3 DEF NotAgain
<1>13. QED
  BY <1>8, <1>9, <1>10, <1>11, <1>12, StepIs

LEMMA PastStep == IInv /\ [Step]_vars => Past'
<1> SUFFICES ASSUME IInv, [Step]_vars, Acyclic', returned' # "failure" PROVE Past'
  BY DEF Past
<1>1. deps' = deps
  BY StepIs DEF NextDependency, Call, Fork, Success, Failure, vars
<1>2. PICK rank \in Ranking : Ranks(rank)
  BY <1>1, AcyclicIs DEF Acyclic, Ranks
<1>3. TypeOK /\ Past /\ Descends /\ Acyclic /\ returned # "failure"
  <2>1. returned # "failure"
    BY StepIs DEF NextDependency, Call, Fork, Success, Failure, vars, InLoop, AfterLoop, Goes
  <2>2. QED
    BY <1>1, <2>1 DEF IInv, Acyclic, Ranks
<1> DEFINE Needless(dep, k) ==
             \/ status[dep] = "FINISHED"
             \/ status[dep] = "UNFINISHED" /\ <<Node(k), dep, 2>> \in left
             \/ \E l \in Calls : l < k /\ Node(l) = dep
<1>4. ASSUME NEW k \in Calls, NEW j \in 1 .. stack[k].i - 1, Deps(k)[j] \in Targets
      PROVE  Needless(Deps(k)[j], k)
  BY <1>3, <1>4 DEF Past
<1>5. ASSUME NEW k \in Calls, NEW j \in 1 .. stack[k].i - 1
      PROVE  j \in 1 .. Len(Deps(k))
  BY CallIs
<1>6. ASSUME NEW j \in Calls, NEW k \in Calls, j <= k,
             NEW i \in 1 .. Len(Deps(j)), Deps(j)[i] \in Targets
      PROVE  Deps(j)[i] # Node(k)
  <2>1. /\ Name(Deps(j)[i]) = Deps(j)[i] /\ rank[Deps(j)[i]] < rank[Name(Node(j))]
        /\ rank[Deps(j)[i]] \in Int /\ rank[Name(Node(j))] \in Int
    BY <1>2, <1>6, DependencyIsSmaller
  <2>2. j = k \/ rank[Name(Node(j))] < rank[Name(Node(k))]
    <3>1. j \in Nat /\ k \in Nat
      BY StackIs DEF Calls
    <3>2. j = k \/ j < k
      BY <1>6, <3>1
    <3>3. QED
      BY <1>2, <1>3, <3>2 DEF Descends
  <2>3. rank[Name(Node(k))] \in Int
    BY <1>2, CallIs DEF Ranking
  <2>4. QED
    BY <2>1, <2>2, <2>3
(* Marking the target of the innermost call takes nothing from the others. *)
<1>7. ASSUME status' \in {status, Marked(Me)}, left \subseteq left',
             NEW k \in Calls, NEW j \in 1 .. stack[k].i - 1, Deps(k)[j] \in Targets
      PROVE  \/ status'[Deps(k)[j]] = "FINISHED"
             \/ status'[Deps(k)[j]] = "UNFINISHED" /\ <<Node(k), Deps(k)[j], 2>> \in left'
             \/ \E l \in Calls : l < k /\ Node(l) = Deps(k)[j]
  <2>1. Me = Node(1) /\ 1 \in Calls /\ Calls \subseteq Nat \ {0}
    <3>1. stack # <<>>
      BY DEF Calls
    <3>2. QED
      BY <3>1, StackIs
  <2>2. CASE Deps(k)[j] = Me
    <3>1. k # 1
      BY <1>5, <1>6, <1>7, <2>1, <2>2
    <3>2. 1 < k
      BY <2>1, <3>1
    <3>3. QED
      BY <2>1, <2>2, <3>2
  <2>3. CASE Deps(k)[j] # Me
    <3>1. status'[Deps(k)[j]] = status[Deps(k)[j]]
      BY <1>3, <1>7, <2>3 DEF TypeOK, Marked, Nodes
    <3>2. QED
      BY <1>4, <1>7, <3>1
  <2>4. QED
    BY <2>2, <2>3
<1>8. CASE UNCHANGED vars
  BY <1>3, <1>8 DEF Past, vars, Calls, Node, Deps, Name
<1>9. CASE Fork
  <2>1. stack' = stack /\ left \subseteq left' /\ status' = Marked(Me)
    BY <1>9 DEF Fork
  <2>2. Calls' = Calls /\ \A k \in Calls : Deps(k)' = Deps(k) /\ Node(k)' = Node(k)
    BY <1>1, <2>1 DEF Calls, Deps, Node, Name
  <2>3. ASSUME NEW k \in Calls, NEW j \in 1 .. stack[k].i - 1, Deps(k)[j] \in Targets
        PROVE  \/ status'[Deps(k)[j]] = "FINISHED"
               \/ status'[Deps(k)[j]] = "UNFINISHED" /\ <<Node(k), Deps(k)[j], 2>> \in left'
               \/ \E l \in Calls : l < k /\ Node(l) = Deps(k)[j]
    BY <1>7, <2>1, <2>3
  <2>4. ASSUME NEW k \in Calls', NEW j \in 1 .. stack'[k].i - 1, (Deps(k)[j] \in Targets)'
        PROVE  Needless(Deps(k)[j], k)'
    <3>1. k \in Calls /\ Deps(k)' = Deps(k) /\ Node(k)' = Node(k) /\ j \in 1 .. stack[k].i - 1
      BY <2>1, <2>2, <2>4
    <3>2. Deps(k)[j] \in Targets
      BY <2>4, <3>1
    <3>3. ASSUME NEW l \in Calls PROVE l \in Calls' /\ Node(l)' = Node(l)
      BY <2>2
    <3>4. QED
      BY <2>3, <2>4, <3>1, <3>2, <3>3
  <2>5. QED
    BY <2>4 DEF Past
<1>10. CASE NextDependency
  <2>1. /\ GoesOn /\ left \subseteq left' /\ status' \in {status, Marked(Me)}
        /\ stack # <<>> /\ Dep = Deps(1)[stack[1].i] /\ stack[1].i \in 1 .. Len(Deps(1))
        /\ 1 \in Calls /\ Me = Node(1) /\ Calls \subseteq Nat \ {0}
    <3>1. stack # <<>> /\ Top.i <= Len(Deps(1))
      BY <1>10 DEF NextDependency, GoesOn
    <3>2. /\ 1 \in Calls /\ Dep = Deps(1)[stack[1].i] /\ stack[1].i <= Len(Deps(1))
          /\ Me = Node(1) /\ Calls \subseteq Nat \ {0}
      BY <3>1, StackIs DEF Dep, Deps
    <3>3. QED
      BY <1>10, <3>1, <3>2, CallIs DEF NextDependency
  <2>2. Calls' = Calls /\ \A k \in Calls : Deps(k)' = Deps(k) /\ Node(k)' = Node(k)
    BY <1>1, <2>1, NextCalls DEF Deps, Name
  <2>3. ASSUME NEW k \in Calls, NEW j \in 1 .. stack'[k].i - 1, Deps(k)[j] \in Targets
        PROVE  \/ status'[Deps(k)[j]] = "FINISHED"
               \/ status'[Deps(k)[j]] = "UNFINISHED" /\ <<Node(k), Deps(k)[j], 2>> \in left'
               \/ \E l \in Calls : l < k /\ Node(l) = Deps(k)[j]
    <3>1. CASE j \in 1 .. stack[k].i - 1
      BY <1>7, <2>1, <2>3, <3>1
    <3>2. CASE j \notin 1 .. stack[k].i - 1
      <4>1. k = 1 /\ j = stack[1].i
        <5>1. k # 1 => stack'[k].i = stack[k].i
          BY <2>1, NextCalls
        <5>2. stack'[1].i = stack[1].i + 1 /\ stack[1].i \in Nat \ {0}
          BY <2>1, NextCalls, StackIs
        <5>3. QED
          BY <2>3, <3>2, <5>1, <5>2
      <4>2. Deps(k)[j] = Dep /\ Dep \in Targets /\ Me = Node(k)
        BY <2>1, <2>3, <4>1
      <4>3. status' = status /\ (status[Dep] # "UNFINISHED" \/ <<Me, Dep, 2>> \in left')
        BY <1>10, <4>2 DEF NextDependency
      <4>4. status[Dep] # "NEEDS_BUILDING"
        <5>1. \A l \in Calls : 1 <= l /\ Node(l) # Dep
          BY <1>6, <2>1, <4>2
        <5>2. QED
          BY <1>3, <2>1, <4>2, <5>1 DEF IInv, InProgress, Nodes
      <4>5. status[Dep] \in {"UNFINISHED", "FINISHED"}
        BY <1>3, <4>2, <4>4 DEF TypeOK, Nodes
      <4>6. QED
        BY <4>2, <4>3, <4>5
    <3>3. QED
      BY <3>1, <3>2
  <2>4. ASSUME NEW k \in Calls', NEW j \in 1 .. stack'[k].i - 1, (Deps(k)[j] \in Targets)'
        PROVE  Needless(Deps(k)[j], k)'
    <3>1. k \in Calls /\ Deps(k)' = Deps(k) /\ Node(k)' = Node(k)
      BY <2>2, <2>4
    <3>2. Deps(k)[j] \in Targets
      BY <2>4, <3>1
    <3>3. ASSUME NEW l \in Calls PROVE l \in Calls' /\ Node(l)' = Node(l)
      BY <2>2
    <3>4. QED
      BY <2>3, <2>4, <3>1, <3>2, <3>3
  <2>5. QED
    BY <2>4 DEF Past
<1>11. CASE Call
  <2>1. Calling /\ left \subseteq left' /\ status' = Marked(Me)
    BY <1>11 DEF Call
  <2>2. ASSUME NEW k \in Calls', NEW j \in 1 .. stack'[k].i - 1, (Deps(k)[j] \in Targets)'
        PROVE  Needless(Deps(k)[j], k)'
    <3>1. k # 1
      BY <2>1, <2>2, NewCall
    <3>2. PICK m \in Calls : k = m + 1 /\ Node(k)' = Node(m)
      BY <2>1, <3>1, CallBefore
    <3>3. stack'[k] = stack[m] /\ m \in Nat
      BY <2>1, <3>2, NewCall
    <3>4. Deps(k)' = Deps(m)
      BY <1>1, <3>2 DEF Deps, Name
    <3>5. j \in 1 .. stack[m].i - 1 /\ Deps(m)[j] \in Targets
      BY <2>2, <3>3, <3>4
    <3>6. \/ status'[Deps(m)[j]] = "FINISHED"
          \/ status'[Deps(m)[j]] = "UNFINISHED" /\ <<Node(m), Deps(m)[j], 2>> \in left'
          \/ \E l \in Calls : l < m /\ Node(l) = Deps(m)[j]
      BY <1>7, <2>1, <3>5
    <3>7. ASSUME NEW l \in Calls, l < m, Node(l) = Deps(m)[j]
          PROVE  l + 1 \in Calls' /\ l + 1 < k /\ Node(l + 1)' = Deps(m)[j]
      <4>1. l + 1 \in Calls' /\ stack'[l + 1] = stack[l] /\ l \in Nat
        BY <2>1, NewCall
      <4>2. QED
        BY <3>2, <3>3, <3>7, <4>1 DEF Node
    <3>8. QED
      BY <3>2, <3>4, <3>6, <3>7
  <2>3. QED
    BY <2>2 DEF Past
<1>12. CASE Success
  <2>1. /\ Returning /\ stack # <<>> /\ status' = [status EXCEPT ![Me] = "FINISHED"]
        /\ Me = Node(1) /\ left' = left
    BY <1>12, StackIs DEF Success, Returning
  <2>2. ASSUME NEW k \in Calls', NEW j \in 1 .. stack'[k].i - 1, (Deps(k)[j] \in Targets)'
        PROVE  Needless(Deps(k)[j], k)'
    <3>1. /\ k + 1 \in Calls /\ Node(k)' = Node(k + 1) /\ stack'[k] = stack[k + 1]
          /\ k \in Nat \ {0}
      BY <2>1, OneCallLess
    <3>2. Deps(k)' = Deps(k + 1)
      BY <1>1, <3>1 DEF Deps, Name
    <3>3. PICK dep \in Targets : dep = Deps(k + 1)[j]
      BY <2>2, <3>2
    <3>4. CASE dep = Me
      <4>1. status'[dep] = "FINISHED"
        BY <1>3, <2>1, <3>4 DEF TypeOK, Nodes
      <4>2. QED
        BY <3>2, <3>3, <4>1
    <3>5. CASE dep # Me
      <4>1. status'[dep] = status[dep]
        BY <1>3, <2>1, <3>5 DEF TypeOK, Nodes
      <4>2. Needless(dep, k + 1)
        BY <1>4, <2>2, <3>1, <3>3
      <4>3. ASSUME NEW l \in Calls, l < k + 1, Node(l) = dep
            PROVE  \E m \in Calls' : m < k /\ Node(m)' = dep
        <5>1. l # 1
          BY <2>1, <3>5, <4>3
        <5>2. l - 1 \in Calls' /\ (l - 1) + 1 = l /\ l \in Nat
          BY <2>1, <5>1, OneCallLess
        <5>3. Node(l - 1)' = dep /\ l - 1 < k
          BY <2>1, <3>1, <4>3, <5>2, OneCallLess
        <5>4. QED
          BY <5>2, <5>3
      <4>4. QED
        BY <2>1, <3>1, <3>2, <3>3, <4>1, <4>2, <4>3
    <3>6. QED
      BY <3>4, <3>5
  <2>3. QED
    BY <2>2 DEF Past
<1>13. QED
  BY <1>8, <1>9, <1>10, <1>11, <1>12, StepIs DEF Failure

-----------------------------------------------------------------------------
(* The invariant of the proofs: besides the types, the shape of the stack, *)
(* what is running, and what the marks of the targets say (main.c:90-160). *)
THEOREM MakeInvariant == Spec => []IInv
<1>1. IInv /\ [Step]_vars => IInv'
  BY TypeStep, RootedStep, ChainStep, AdjacentStep, RunningStep, ReportedStep,
     StoppedStep, InProgressStep, DescendsStep, NotAgainStep, PastStep DEF IInv
<1>2. QED
  BY InitIInv, <1>1, PTL DEF Spec

(* Frames and Status fields have their types, for every makefile, with or  *)
(* without cycles (main.c:90-160).                                         *)
THEOREM MakeTypeCorrect == Spec => []TypeOK
<1>1. IInv => TypeOK
  BY DEF IInv
<1>2. QED
  BY MakeInvariant, <1>1, PTL

(* Without cycles no command is started twice, whatever the times of the   *)
(* files, the shared dependencies and the ends of commands (main.c:102,    *)
(* 122, 156).                                                              *)
THEOREM CommandsRunOnce == Spec => []RunsAtMostOnce
<1>1. IInv => RunsAtMostOnce
  <2>1. SUFFICES ASSUME IInv, Acyclic PROVE \A j, k \in DOMAIN ran : ran[j] = ran[k] => j = k
    <3>1. IInv => DOMAIN ran = 1 .. Len(ran) /\ Len(ran) \in Nat
      BY DEF IInv, TypeOK
    <3>2. QED
      BY <3>1 DEF RunsAtMostOnce
  <2>2. QED
    BY <2>1 DEF IInv, NotAgain
<1>2. QED
  BY MakeInvariant, <1>1, PTL

(* When a command runs, its target's dependencies are finished, or were    *)
(* left alone as older than the target and not touched since, whatever     *)
(* commands do to the files of others (main.c:95-118, 126).                *)
THEOREM DependenciesAreReady == Spec => []ReadyWhenRun
<1>1. IInv => ReadyWhenRun
  <2>1. SUFFICES ASSUME IInv, child, Acyclic,
                        NEW j \in 1 .. Len(deps[Name(Me)]), deps[Name(Me)][j] \in Targets
                 PROVE  \/ status[deps[Name(Me)][j]] = "FINISHED"
                        \/ /\ status[deps[Name(Me)][j]] = "UNFINISHED"
                           /\ <<Me, deps[Name(Me)][j], 2>> \in left
    BY DEF ReadyWhenRun
  <2>2. /\ stack # <<>> /\ stack[1].i > Len(Deps(1)) /\ Me = Node(1) /\ 1 \in Calls
        /\ Calls \subseteq Nat \ {0} /\ returned # "failure"
    BY <2>1, StackIs DEF IInv, Running
  <2>3. j \in 1 .. stack[1].i - 1 /\ deps[Name(Me)][j] = Deps(1)[j]
    BY <2>1, <2>2, CallIs DEF Deps
  <2>4. ~ \E l \in Calls : l < 1
    BY <2>2
  <2>5. QED
    BY <2>1, <2>2, <2>3, <2>4 DEF IInv, Past
<1>2. QED
  BY MakeInvariant, <1>1, PTL

(* The calls of build() are a path of the dependency graph whose callers   *)
(* are all marked; without cycles no target is on it twice                 *)
(* (main.c:102-105).                                                       *)
THEOREM CallersAreMarked == Spec => []CallersMarked
<1>1. IInv => CallersMarked
  <2>1. SUFFICES ASSUME IInv PROVE CallersMarked
    OBVIOUS
  <2>2. Calls = 1 .. Len(stack) /\ Len(stack) \in Nat
    BY <2>1 DEF IInv, Rooted, Calls
  <2>3. ASSUME NEW k \in 2 .. Len(stack)
        PROVE  /\ status[stack[k].node] = "NEEDS_BUILDING"
               /\ deps[Name(stack[k].node)][stack[k].i] = stack[k - 1].node
    <3>1. k \in Calls /\ k # 1
      BY <2>2
    <3>2. QED
      BY <2>1, <3>1 DEF IInv, Chain, Deps, Node
  <2>4. ASSUME NEW j \in 1 .. Len(stack), NEW k \in 1 .. Len(stack), j < k,
               stack[j].node = stack[k].node, Acyclic
        PROVE  FALSE
    <3>1. PICK rank \in Ranking : Ranks(rank)
      BY <2>4, AcyclicIs
    <3>2. rank[Name(Node(j))] < rank[Name(Node(k))] /\ rank[Name(Node(j))] \in Int
      BY <2>1, <2>2, <2>4, <3>1, CallIs DEF IInv, Descends, Ranking
    <3>3. QED
      BY <2>4, <3>2 DEF Node
  <2>5. QED
    BY <2>3, <2>4 DEF CallersMarked
<1>2. QED
  BY MakeInvariant, <1>1, PTL

(* After a command that exited with an error, or a failed fork, each       *)
(* caller gets -1, starts nothing and returns -1 in its turn, until main() *)
(* has it: however deep the recursion (main.c:105-107).                    *)
THEOREM NothingAfterFailure == Spec => StopsAtFailure
<1>1. IInv /\ [Step]_vars =>
        [ends \cap {"exit", "fork"} # {} =>
           /\ UNCHANGED <<ran, mtime>>
           /\ stack' = <<>> => returned' = "failure"]_vars
  <2>1. SUFFICES ASSUME IInv, [Step]_vars, ends \cap {"exit", "fork"} # {}
                 PROVE  /\ UNCHANGED <<ran, mtime>>
                        /\ stack' = <<>> => returned' = "failure"
    OBVIOUS
  <2>2. returned = "failure"
    BY <2>1 DEF IInv, Stopped
  <2>3. Failure \/ UNCHANGED vars
    BY <2>1, <2>2, StepIs
       DEF NextDependency, Call, Fork, Success, InLoop, AfterLoop, Goes
  <2>4. QED
    BY <2>2, <2>3 DEF Failure, vars
<1>2. QED
  BY MakeInvariant, <1>1, PTL DEF Spec, StopsAtFailure
=============================================================================
