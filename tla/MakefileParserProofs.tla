------------------------ MODULE MakefileParserProofs ------------------------
(***************************************************************************)
(* Proofs about MakefileParser, for all makefiles, those with more targets *)
(* than the array has slots included.                                      *)
(***************************************************************************)
EXTENDS MakefileParser, FiniteSetTheorems, TLAPS

Counted == result # "overrun" => nTargetCount = Cardinality(Upto(nLine))

(* A target that waits for its command has a slot, and what follows it has *)
(* at most the one after the last.                                         *)
Waiting == nPreviousTarget = 1 => pTarget \in Nodes

IInv == TypeOK /\ InStep /\ Counted /\ Waiting

USE ParserAssumption

(* The makefile is a sequence of lines. *)
LEMMA FileType ==
  ASSUME TypeOK
  PROVE  /\ file \in Seq(Kinds) /\ Len(file) \in Nat
         /\ \A n \in 1 .. Len(file) : file[n] \in Kinds
BY DEF TypeOK

(* The target lines among the first n can be counted. *)
LEMMA UptoFinite ==
  ASSUME NEW n \in Nat
  PROVE  IsFiniteSet(Upto(n)) /\ Cardinality(Upto(n)) \in Nat
<1>1. IsFiniteSet(1 .. n)
  BY FS_Interval
<1>2. Upto(n) \subseteq 1 .. n
  BY DEF Upto
<1>3. QED
  BY <1>1, <1>2, FS_Subset, FS_CardinalityType

(* Reading on never makes them fewer. *)
LEMMA UptoMonotone ==
  ASSUME NEW n \in Nat, NEW m \in 0 .. n
  PROVE  /\ Upto(m) \subseteq Upto(n)
         /\ Cardinality(Upto(m)) <= Cardinality(Upto(n))
         /\ Cardinality(Upto(m)) = Cardinality(Upto(n)) => Upto(m) = Upto(n)
<1>1. Upto(m) \subseteq Upto(n)
  BY DEF Upto
<1>2. QED
  BY <1>1, UptoFinite, FS_Subset

(* What one more line adds. *)
LEMMA UptoNext ==
  ASSUME NEW n \in Nat
  PROVE  /\ file[n + 1] = "target" =>
              /\ Upto(n + 1) = Upto(n) \cup {n + 1}
              /\ Cardinality(Upto(n + 1)) = Cardinality(Upto(n)) + 1
         /\ file[n + 1] # "target" => Upto(n + 1) = Upto(n)
<1>1. ASSUME file[n + 1] = "target"
      PROVE  /\ Upto(n + 1) = Upto(n) \cup {n + 1}
             /\ Cardinality(Upto(n + 1)) = Cardinality(Upto(n)) + 1
  <2>1. Upto(n + 1) = Upto(n) \cup {n + 1}
    BY <1>1 DEF Upto
  <2>2. n + 1 \notin Upto(n)
    BY DEF Upto
  <2>3. QED
    BY <2>1, <2>2, UptoFinite, FS_AddElement
<1>2. ASSUME file[n + 1] # "target" PROVE Upto(n + 1) = Upto(n)
  BY <1>2 DEF Upto
<1>3. QED
  BY <1>1, <1>2

(* The cleared array satisfies the invariant. *)
LEMMA InitIInv == Init => IInv
<1> SUFFICES ASSUME Init PROVE IInv
  OBVIOUS
<1>1. Upto(0) = {}
  BY DEF Upto
<1>2. Counted
  BY <1>1, FS_EmptySet DEF Init, Counted
<1>3. TypeOK
  BY DEF Init, TypeOK, Nodes
<1>4. InStep /\ Waiting
  BY DEF Init, InStep, Waiting, Nodes
<1>5. QED
  BY <1>2, <1>3, <1>4 DEF IInv

(* The count after a line. *)
LEMMA CountNext ==
  ASSUME IInv, nLine < Len(file), result = "none"
  PROVE  /\ nLine + 1 \in 1 .. Len(file)
         /\ nTargetCount = Cardinality(Upto(nLine)) /\ nTargetCount \in 0 .. MAX_NODES
         /\ file[nLine + 1] = "target" =>
              Cardinality(Upto(nLine + 1)) = nTargetCount + 1
         /\ file[nLine + 1] # "target" => Upto(nLine + 1) = Upto(nLine)
<1>1. nLine \in Nat /\ nLine + 1 \in 0 .. Len(file) /\ Len(file) \in Nat
  BY FileType DEF IInv, TypeOK
<1>2. nTargetCount = Cardinality(Upto(nLine))
  BY DEF IInv, Counted
<1>3. nTargetCount \in 0 .. MAX_NODES
  BY DEF IInv, TypeOK, InStep, Waiting, Nodes
<1>4. QED
  BY <1>1, <1>2, <1>3, UptoNext

(* Every line keeps the invariant. *)
LEMMA NextIInv == IInv /\ [Next]_vars => IInv'
<1> SUFFICES ASSUME IInv, [Next]_vars PROVE IInv'
  OBVIOUS
<1>t. TypeOK /\ InStep /\ Counted /\ Waiting /\ MAX_NODES \in Nat
  BY DEF IInv
<1>n. ASSUME NEW kind, GetLine(kind)
      PROVE  /\ nLine \in Nat /\ nLine < Len(file) /\ nLine' = nLine + 1
             /\ nLine' \in 0 .. Len(file) /\ file' = file /\ file[nLine + 1] = kind
             /\ 1 .. nLine \subseteq 1 .. nLine' /\ nLine' \in 1 .. nLine'
             /\ result = "none"
             /\ Upto(nLine)' = Upto(nLine + 1)
  BY <1>t, <1>n, FileType DEF GetLine, TypeOK, Upto
<1>u. ASSUME NEW kind, GetLine(kind), kind # "target",
             UNCHANGED <<TargetName, pTarget, nTargetCount, nPreviousTarget, Command>>,
             result' \in {"none", "fail", "overrun"}
      PROVE  IInv'
  <2>1. Counted'
    BY <1>t, <1>u, <1>n, CountNext DEF Counted
  <2>2. TypeOK'
    BY <1>t, <1>u, <1>n DEF TypeOK
  <2>3. InStep'
    BY <1>t, <1>u DEF InStep
  <2>4. Waiting'
    BY <1>t, <1>u DEF Waiting, Nodes
  <2>5. QED
    BY <2>1, <2>2, <2>3, <2>4 DEF IInv
<1>1. CASE SkipLine
  <2>1. result' = "none"
    BY <1>1 DEF SkipLine, GetLine
  <2>2. QED
    BY <1>1, <1>u, <2>1 DEF SkipLine
<1>2. CASE StrayCommand
  BY <1>2, <1>u DEF StrayCommand, Fail
<1>3. CASE BadLine
  BY <1>3, <1>u DEF BadLine, Fail
<1>4. CASE CommandLine
  <2>1. GetLine("command") /\ TargetName[pTarget] # None
    BY <1>4 DEF CommandLine
  <2>2. pTarget \in Nodes /\ nPreviousTarget = 1 /\ nTargetCount = pTarget + 1
    BY <1>4, <1>t, <2>1 DEF CommandLine, InStep, TypeOK, Nodes
  <2>3. pTarget + 1 \in 0 .. MAX_NODES /\ nPreviousTarget' = 0
    BY <1>4, <2>2 DEF CommandLine, Nodes
  <2>4. Counted'
    BY <1>4, <1>n, <1>t, <2>1, CountNext DEF Counted, CommandLine
  <2>5. TypeOK'
    <3>1. Command' \in [Nodes -> 1 .. nLine' \cup {None}]
      BY <1>4, <1>t, <2>1, <1>n DEF CommandLine, TypeOK
    <3>2. TargetName' \in [Nodes -> 1 .. nLine' \cup {None}]
      BY <1>4, <1>t, <2>1, <1>n DEF CommandLine, TypeOK
    <3>3. QED
      BY <1>4, <1>t, <2>1, <1>n, <2>3, <3>1, <3>2 DEF CommandLine, TypeOK
  <2>6. InStep'
    BY <1>4, <1>t, <2>2, <2>3 DEF CommandLine, TypeOK, InStep, Nodes
  <2>7. Waiting'
    BY <2>3 DEF Waiting
  <2>8. QED
    BY <2>4, <2>5, <2>6, <2>7 DEF IInv
<1>5. CASE TargetLine
  <2>1. GetLine("target")
    BY <1>5 DEF TargetLine
  <2>2. pTarget' = nTargetCount /\ nTargetCount' = nTargetCount + 1 /\ nPreviousTarget' = 1
    BY <1>5, <1>t DEF TargetLine, NextTarget, InStep, TypeOK, Nodes
  <2>3. nTargetCount \in Nat /\ nTargetCount \in Nodes
    BY <1>5, <1>t, <2>2 DEF TargetLine, TypeOK, Nodes
  <2>4. Counted'
    BY <1>n, <1>t, <2>1, <2>2, CountNext DEF Counted
  <2>5. TargetName' = [TargetName EXCEPT ![nTargetCount] = nLine'] /\ Command' = Command
    BY <1>5, <2>2 DEF TargetLine
  <2>6. TypeOK'
    <3>1. TargetName' \in [Nodes -> 1 .. nLine' \cup {None}]
      BY <1>t, <2>1, <1>n, <2>3, <2>5 DEF TypeOK
    <3>2. Command' \in [Nodes -> 1 .. nLine' \cup {None}]
      BY <1>t, <2>1, <1>n, <2>5 DEF TypeOK
    <3>3. nTargetCount' \in 0 .. nLine'
      BY <1>t, <2>1, <1>n, <2>2, <2>3 DEF TypeOK
    <3>4. result' = "none"
      BY <1>5, <1>n, <2>1 DEF TargetLine
    <3>5. pTarget' \in 0 .. MAX_NODES
      BY <1>t, <2>2, <2>3 DEF Nodes
    <3>6. QED
      BY <1>t, <2>1, <1>n, <2>2, <2>3, <3>1, <3>2, <3>3, <3>4, <3>5 DEF TypeOK
  <2>7. InStep'
    <3>1. nLine' # None
      BY <1>n, <2>1
    <3>2. \A k \in Nodes : TargetName'[k] # None <=> k < nTargetCount'
      BY <1>t, <2>2, <2>3, <2>5, <3>1 DEF InStep, TypeOK, Nodes
    <3>3. \A k \in Nodes : Command'[k] # None => k < pTarget'
      BY <1>t, <2>2, <2>3, <2>5 DEF InStep, TypeOK, Nodes
    <3>4. QED
      BY <2>2, <2>3, <3>2, <3>3 DEF InStep
  <2>8. Waiting'
    BY <2>2, <2>3 DEF Waiting, Nodes
  <2>9. QED
    BY <2>4, <2>6, <2>7, <2>8 DEF IInv
<1>6. CASE EndOfFile \/ UNCHANGED vars
  <2>1. UNCHANGED <<file, nLine, TargetName, Command, pTarget, nTargetCount, nPreviousTarget>>
    BY <1>6 DEF EndOfFile, vars
  <2>2. result' = "success" \/ result' = result
    BY <1>6 DEF EndOfFile, vars
  <2>3. Counted' /\ InStep'
    <3>1. result # "overrun" <=> result' # "overrun"
      BY <1>6 DEF EndOfFile, vars
    <3>2. QED
      BY <1>t, <2>1, <3>1 DEF Counted, InStep, Upto
  <2>4. TypeOK' /\ Waiting'
    BY <1>t, <2>1, <2>2 DEF TypeOK, Waiting, Nodes
  <2>5. QED
    BY <2>3, <2>4 DEF IInv
<1>7. CASE Overrun
  <2>1. PICK kind \in {"target", "command"} : GetLine(kind)
    BY <1>7 DEF Overrun
  <2>2. /\ UNCHANGED <<TargetName, Command, pTarget, nTargetCount, nPreviousTarget>>
        /\ result' = "overrun"
    BY <1>7 DEF Overrun
  <2>3. Counted'
    BY <2>2 DEF Counted
  <2>4. TypeOK'
    BY <1>t, <1>n, <2>1, <2>2 DEF TypeOK
  <2>5. InStep' /\ Waiting'
    BY <1>t, <2>2 DEF InStep, Waiting, Nodes
  <2>6. QED
    BY <2>3, <2>4, <2>5 DEF IInv
<1>8. QED
  BY <1>1, <1>2, <1>3, <1>4, <1>5, <1>6, <1>7 DEF Next

(* The inductive invariant holds: pTarget and nTargetCount agree with each *)
(* other and with the target lines read so far (util.c:144-213).           *)
THEOREM ParserInvariant == Spec => []IInv
<1>1. Init => IInv
  BY InitIInv
<1>2. IInv /\ [Next]_vars => IInv'
  BY NextIInv
<1>3. QED
  BY <1>1, <1>2, PTL DEF Spec

(* The pointer of parse() never goes further than one past the array, for  *)
(* makefiles of any number of targets (util.c:131-139, 174, 186).          *)
THEOREM ParserTypeCorrect == Spec => []TypeOK
<1>1. IInv => TypeOK
  BY DEF IInv
<1>2. QED
  BY <1>1, ParserInvariant, PTL

(* The pointer and the count of parse() stay together (util.c:166-203). *)
THEOREM ParserStaysInStep == Spec => []InStep
<1>1. IInv => InStep
  BY DEF IInv
<1>2. QED
  BY <1>1, ParserInvariant, PTL

-----------------------------------------------------------------------------
(* What the array says about the lines that have been read.                *)

(* Slot k holds the line of the (k + 1)-th target. *)
Placed ==
  \A k \in Nodes : k < nTargetCount =>
    TargetName[k] \in Upto(nLine) /\ Cardinality(Upto(TargetName[k])) = k + 1

(* A last target that does not wait for its command has one. *)
Complete ==
  nPreviousTarget = 0 /\ nTargetCount > 0 => Command[nTargetCount - 1] # None

WInv ==
  IInv /\ Placed /\ Complete /\ ParsedAsWritten /\ RejectsMalformed /\ OverrunsOnlyWhenFull

LEMMA InitWInv == Init => WInv
<1> SUFFICES ASSUME Init PROVE WInv
  OBVIOUS
<1>1. Upto(0) = {}
  BY DEF Upto
<1>2. Placed /\ Complete
  BY DEF Init, Placed, Complete, Nodes
<1>3. ParsedAsWritten
  BY <1>1, FS_EmptySet DEF Init, ParsedAsWritten
<1>4. RejectsMalformed /\ OverrunsOnlyWhenFull
  BY DEF Init, RejectsMalformed, OverrunsOnlyWhenFull
<1>5. QED
  BY <1>2, <1>3, <1>4, InitIInv DEF WInv

(* What reading a line does, whatever it is. *)
LEMMA LineRead ==
  ASSUME IInv, NEW kind, GetLine(kind)
  PROVE  /\ nLine \in Nat /\ nLine < Len(file) /\ nLine' = nLine + 1
         /\ file' = file /\ file[nLine + 1] = kind /\ result = "none"
         /\ \A n : /\ Upto(n)' = Upto(n) /\ Malformed(n)' = Malformed(n)
                  /\ NoSlotFor(n)' = NoSlotFor(n)
<1>1. file' = file /\ nLine' = nLine + 1 /\ file[nLine'] = kind /\ result = "none"
  BY DEF GetLine
<1>2. nLine \in Nat /\ nLine < Len(file)
  BY FileType DEF IInv, TypeOK, GetLine
<1>3. \A n : Upto(n)' = Upto(n) /\ Malformed(n)' = Malformed(n)
  BY <1>1 DEF Upto, Malformed, Stray
<1>4. \A n : NoSlotFor(n)' = NoSlotFor(n)
  BY <1>1 DEF Upto, NoSlotFor, Stray
<1>5. QED
  BY <1>1, <1>2, <1>3, <1>4

(* The last target is the one of the slot before nTargetCount. *)
LEMMA LastTarget ==
  ASSUME IInv, Placed, nTargetCount > 0, result # "overrun"
  PROVE  /\ nTargetCount - 1 \in Nodes /\ TargetName[nTargetCount - 1] \in Upto(nLine)
         /\ Cardinality(Upto(TargetName[nTargetCount - 1])) = nTargetCount
         /\ Upto(TargetName[nTargetCount - 1]) = Upto(nLine)
<1>1. /\ nLine \in Nat /\ nTargetCount \in Nat /\ nLine \in 0 .. Len(file)
      /\ Len(file) \in Nat /\ nTargetCount = Cardinality(Upto(nLine))
  BY FileType DEF IInv, TypeOK, Counted
<1>2. nTargetCount - 1 \in Nodes
  BY DEF IInv, TypeOK, InStep, Waiting, Nodes
<1>3. PICK n : n = TargetName[nTargetCount - 1]
  OBVIOUS
<1>4. n \in Upto(nLine) /\ Cardinality(Upto(n)) = nTargetCount
  BY <1>1, <1>2, <1>3 DEF Placed
<1>5. n \in 0 .. nLine
  BY <1>1, <1>4 DEF Upto
<1>6. Upto(n) = Upto(nLine)
  BY <1>1, <1>4, <1>5, UptoMonotone
<1>7. QED
  BY <1>2, <1>3, <1>4, <1>6

(* parse() takes a command line for a stray one exactly when it is.        *)
LEMMA StrayIs ==
  ASSUME WInv, GetLine("command")
  PROVE  /\ pTarget \in Nodes => (TargetName[pTarget] = None <=> nPreviousTarget = 0)
         /\ pTarget \notin Nodes => nPreviousTarget = 0
         /\ Stray(nLine + 1) <=> nPreviousTarget = 0
<1>1. /\ IInv /\ Placed /\ Complete /\ ParsedAsWritten
      /\ TypeOK /\ InStep /\ Counted /\ Waiting
  BY DEF WInv, IInv
<1>2. /\ nLine \in Nat /\ file[nLine + 1] = "command" /\ result = "none"
      /\ Upto(nLine + 1) = Upto(nLine)
  BY <1>1, LineRead, UptoNext
<1>3. /\ nTargetCount \in Nat /\ pTarget \in Nat
      /\ nPreviousTarget \in {0, 1} /\ nTargetCount = pTarget + nPreviousTarget
      /\ nTargetCount = Cardinality(Upto(nLine))
  BY <1>1, <1>2 DEF TypeOK, InStep, Counted, Nodes
<1>4. /\ pTarget \in Nodes => (TargetName[pTarget] = None <=> nPreviousTarget = 0)
      /\ pTarget \notin Nodes => nPreviousTarget = 0
  BY <1>1, <1>3 DEF InStep, Waiting
<1> DEFINE last == TargetName[nTargetCount - 1]
<1>5. ASSUME nTargetCount > 0
      PROVE  /\ last \in Upto(nLine) /\ Upto(last) = Upto(nLine) /\ last \in 1 .. nLine
             /\ file[last] = "target"
             /\ \/ CommandsOf(last) = {} /\ Command[nTargetCount - 1] = None
                \/ CommandsOf(last) = {Command[nTargetCount - 1]}
  <2>1. /\ last \in Upto(nLine) /\ Upto(last) = Upto(nLine)
        /\ Cardinality(Upto(last)) = nTargetCount
    BY <1>1, <1>2, <1>5, LastTarget
  <2>2. last \in 1 .. nLine /\ file[last] = "target"
    BY <2>1 DEF Upto
  <2>3. \/ CommandsOf(last) = {} /\ Command[nTargetCount - 1] = None
        \/ CommandsOf(last) = {Command[nTargetCount - 1]}
    <3>1. \A n \in Upto(nLine) :
            \/ CommandsOf(n) = {} /\ Command[Cardinality(Upto(n)) - 1] = None
            \/ CommandsOf(n) = {Command[Cardinality(Upto(n)) - 1]}
      BY <1>1, <1>2 DEF ParsedAsWritten
    <3>2. QED
      BY <2>1, <3>1
  <2>4. QED
    BY <2>1, <2>2, <2>3
<1>6. ASSUME nPreviousTarget = 0 PROVE Stray(nLine + 1)
  <2>1. CASE nTargetCount = 0
    <3>1. Upto(nLine) = {}
      BY <1>2, <1>3, <2>1, UptoFinite, FS_EmptySet
    <3>2. QED
      BY <1>2, <3>1 DEF Stray
  <2>2. CASE nTargetCount > 0
    <3>1. Command[nTargetCount - 1] # None
      BY <1>1, <1>6, <2>2 DEF Complete
    <3>2. PICK d : d \in CommandsOf(last)
      BY <1>5, <2>2, <3>1
    <3>3. /\ d \in 1 .. (nLine + 1) - 1 /\ file[d] = "command" /\ Upto(d) = Upto(last)
      BY <1>2, <1>5, <2>2, <3>2 DEF CommandsOf
    <3>4. Upto(d) = Upto(nLine + 1)
      BY <1>2, <1>5, <2>2, <3>3
    <3>5. QED
      BY <1>2, <3>3, <3>4 DEF Stray
  <2>3. QED
    BY <1>3, <2>1, <2>2
<1>7. ASSUME nPreviousTarget = 1 PROVE ~Stray(nLine + 1)
  <2>1. nTargetCount > 0 /\ nTargetCount - 1 = pTarget
    BY <1>3, <1>7
  <2>2. Command[nTargetCount - 1] = None
    BY <1>1, <1>3, <1>7, <2>1 DEF InStep, Waiting
  <2>3. CommandsOf(last) = {}
    <3>1. CommandsOf(last) \subseteq Nat
      BY <1>5, <2>1, <1>2 DEF CommandsOf
    <3>2. QED
      BY <1>5, <2>1, <2>2, <3>1
  <2>4. ASSUME NEW d \in 1 .. (nLine + 1) - 1,
               file[d] = "command", Upto(d) = Upto(nLine + 1)
        PROVE  FALSE
    <3>1. last \in Upto(d) /\ Upto(d) = Upto(last)
      BY <1>2, <1>5, <2>1, <2>4
    <3>2. last \in 1 .. d /\ last # d
      BY <1>5, <2>1, <2>4, <3>1 DEF Upto
    <3>3. d \in last + 1 .. nLine
      BY <1>2, <1>5, <2>1, <3>2
    <3>4. d \in CommandsOf(last)
      BY <2>4, <3>1, <3>3 DEF CommandsOf
    <3>5. QED
      BY <2>3, <3>4
  <2>5. Upto(nLine + 1) # {}
    BY <1>2, <1>5, <2>1
  <2>6. QED
    BY <2>4, <2>5 DEF Stray
<1>8. QED
  BY <1>3, <1>4, <1>6, <1>7

LEMMA RejectsStep == WInv /\ [Next]_vars => RejectsMalformed'
<1> SUFFICES ASSUME WInv, [Next]_vars PROVE RejectsMalformed'
  OBVIOUS
<1>0. IInv /\ RejectsMalformed
  BY DEF WInv
<1>1. ASSUME NEW kind, GetLine(kind), result' # "overrun" => (result' = "fail" <=> Malformed(nLine + 1))
      PROVE  RejectsMalformed'
  <2>1. /\ nLine \in Nat /\ nLine' = nLine + 1 /\ result = "none"
        /\ \A n : Malformed(n)' = Malformed(n)
    BY <1>0, <1>1, LineRead
  <2>2. \A n \in 1 .. nLine : ~Malformed(n)
    BY <1>0, <2>1 DEF RejectsMalformed
  <2>3. \A n \in 1 .. nLine + 1 : n \in 1 .. nLine \/ n = nLine + 1
    BY <2>1
  <2>4. (nLine + 1) - 1 = nLine
    BY <2>1
  <2>5. QED
    BY <1>1, <2>1, <2>2, <2>3, <2>4 DEF RejectsMalformed
<1>2. CASE SkipLine \/ TargetLine
  <2>1. PICK kind \in {"skip", "target"} : GetLine(kind)
    BY <1>2 DEF SkipLine, TargetLine
  <2>2. ~Malformed(nLine + 1)
    BY <1>0, <2>1, LineRead DEF Malformed, Stray
  <2>3. result' = "none"
    BY <1>0, <1>2, <2>1, LineRead DEF SkipLine, TargetLine
  <2>4. QED
    BY <1>1, <2>1, <2>2, <2>3
<1>3. CASE StrayCommand
  BY <1>1, <1>3, StrayIs DEF StrayCommand, Fail, Malformed
<1>4. CASE CommandLine
  <2>1. /\ GetLine("command") /\ pTarget \in Nodes /\ TargetName[pTarget] # None
        /\ result' = result
    BY <1>4 DEF CommandLine
  <2>2. result = "none" /\ file[nLine + 1] = "command"
    BY <1>0, <2>1, LineRead
  <2>3. ~Malformed(nLine + 1)
    BY <2>1, <2>2, StrayIs DEF Malformed
  <2>4. QED
    BY <1>1, <2>1, <2>2, <2>3
<1>5. CASE BadLine
  <2>1. GetLine("bad") /\ result' = "fail"
    BY <1>5 DEF BadLine, Fail
  <2>2. Malformed(nLine + 1)
    BY <1>0, <2>1, LineRead DEF Malformed
  <2>3. QED
    BY <1>1, <2>1, <2>2
<1>6. CASE Overrun
  BY <1>1, <1>6 DEF Overrun
<1>7. CASE EndOfFile \/ UNCHANGED vars
  BY <1>0, <1>7 DEF EndOfFile, vars, RejectsMalformed, Malformed, Stray, Upto
<1>8. QED
  BY <1>2, <1>3, <1>4, <1>5, <1>6, <1>7 DEF Next

LEMMA OverrunsStep == WInv /\ [Next]_vars => OverrunsOnlyWhenFull'
<1> SUFFICES ASSUME WInv, [Next]_vars PROVE OverrunsOnlyWhenFull'
  OBVIOUS
<1>0. IInv /\ OverrunsOnlyWhenFull
  BY DEF WInv
<1>1. ASSUME NEW kind, GetLine(kind), result' = "overrun" <=> NoSlotFor(nLine + 1)
      PROVE  OverrunsOnlyWhenFull'
  <2>1. /\ nLine \in Nat /\ nLine' = nLine + 1 /\ result = "none"
        /\ \A n : NoSlotFor(n)' = NoSlotFor(n)
    BY <1>0, <1>1, LineRead
  <2>2. \A n \in 1 .. nLine : ~NoSlotFor(n)
    BY <1>0, <2>1 DEF OverrunsOnlyWhenFull
  <2>3. \A n \in 1 .. nLine + 1 : n \in 1 .. nLine \/ n = nLine + 1
    BY <2>1
  <2>4. (nLine + 1) - 1 = nLine
    BY <2>1
  <2>5. QED
    BY <1>1, <2>1, <2>2, <2>3, <2>4 DEF OverrunsOnlyWhenFull
<1>2. ASSUME NEW kind, GetLine(kind)
      PROVE  /\ file[nLine + 1] = kind /\ result = "none"
             /\ nTargetCount = pTarget + nPreviousTarget /\ pTarget \in 0 .. MAX_NODES
             /\ nPreviousTarget \in {0, 1} /\ MAX_NODES \in Nat /\ nTargetCount \in Nat
             /\ nTargetCount = Cardinality(Upto(nLine))
             /\ kind = "target" => Cardinality(Upto(nLine + 1)) = nTargetCount + 1
             /\ kind # "target" => Upto(nLine + 1) = Upto(nLine)
  BY <1>0, <1>2, LineRead, CountNext DEF IInv, InStep, TypeOK
<1>3. ASSUME GetLine("target")
      PROVE  NoSlotFor(nLine + 1) <=> NextTarget \notin Nodes
  <2>1. NextTarget = nTargetCount
    BY <1>2, <1>3 DEF NextTarget
  <2>2. NoSlotFor(nLine + 1) <=> nTargetCount + 1 > MAX_NODES
    BY <1>2, <1>3 DEF NoSlotFor, Stray
  <2>3. QED
    BY <1>2, <1>3, <2>1, <2>2 DEF Nodes
<1>4. ASSUME GetLine("command")
      PROVE  NoSlotFor(nLine + 1) <=> pTarget \notin Nodes
  <2>1. NoSlotFor(nLine + 1) <=> nPreviousTarget = 0 /\ nTargetCount = MAX_NODES
    BY <1>2, <1>4, StrayIs DEF NoSlotFor
  <2>2. pTarget \notin Nodes => nPreviousTarget = 0
    BY <1>4, StrayIs
  <2>3. QED
    BY <1>2, <1>4, <2>1, <2>2 DEF Nodes
<1>5. CASE SkipLine \/ BadLine
  <2>1. PICK kind \in {"skip", "bad"} : GetLine(kind)
    BY <1>5 DEF SkipLine, BadLine
  <2>2. ~NoSlotFor(nLine + 1) /\ result' # "overrun"
    BY <1>2, <1>5, <2>1 DEF NoSlotFor, Stray, SkipLine, BadLine, Fail
  <2>3. QED
    BY <1>1, <2>1, <2>2
<1>6. CASE TargetLine
  BY <1>1, <1>2, <1>3, <1>6 DEF TargetLine
<1>7. CASE StrayCommand \/ CommandLine
  BY <1>1, <1>2, <1>4, <1>7 DEF StrayCommand, CommandLine, Fail
<1>8. CASE Overrun
  BY <1>1, <1>3, <1>4, <1>8 DEF Overrun
<1>9. CASE EndOfFile \/ UNCHANGED vars
  <2>1. /\ file' = file /\ nLine' = nLine
        /\ result' = "overrun" <=> result = "overrun"
    BY <1>9 DEF EndOfFile, vars
  <2>2. \A n : NoSlotFor(n)' = NoSlotFor(n)
    BY <2>1 DEF NoSlotFor, Stray, Upto
  <2>3. QED
    BY <1>0, <2>1, <2>2 DEF OverrunsOnlyWhenFull
<1>10. QED
  BY <1>5, <1>6, <1>7, <1>8, <1>9 DEF Next

(* The commands of a target after one more line. *)
LEMMA CommandsNext ==
  ASSUME IInv, NEW kind, GetLine(kind), NEW n \in Upto(nLine)
  PROVE  /\ n \in 1 .. nLine
         /\ kind = "command" /\ Upto(n) = Upto(nLine) =>
              CommandsOf(n)' = CommandsOf(n) \cup {nLine + 1}
         /\ kind # "command" \/ Upto(n) # Upto(nLine) => CommandsOf(n)' = CommandsOf(n)
<1>1. n \in 1 .. nLine /\ nLine \in Nat
  BY LineRead DEF Upto
<1>2. \A c \in n + 1 .. nLine + 1 : c \in n + 1 .. nLine \/ c = nLine + 1
  BY <1>1
<1>3. nLine + 1 \in n + 1 .. nLine + 1 /\ n + 1 .. nLine \subseteq n + 1 .. nLine + 1
  BY <1>1
<1>4. CommandsOf(n)' =
        {c \in n + 1 .. nLine + 1 : file[c] = "command" /\ Upto(c) = Upto(n)}
  BY LineRead DEF CommandsOf
<1>5. nLine + 1 \in CommandsOf(n)' <=> kind = "command" /\ Upto(nLine + 1) = Upto(n)
  BY <1>3, <1>4, LineRead
<1>6. CommandsOf(n)' = CommandsOf(n) \/ CommandsOf(n)' = CommandsOf(n) \cup {nLine + 1}
  BY <1>2, <1>3, <1>4 DEF CommandsOf
<1>7. nLine + 1 \notin CommandsOf(n)
  BY <1>1 DEF CommandsOf
<1>8. kind = "command" => Upto(nLine + 1) = Upto(nLine)
  BY <1>1, LineRead, UptoNext
<1>9. QED
  BY <1>1, <1>5, <1>6, <1>7, <1>8

LEMMA WrittenStep == WInv /\ [Next]_vars => Placed' /\ Complete' /\ ParsedAsWritten'
<1> SUFFICES ASSUME WInv, [Next]_vars PROVE Placed' /\ Complete' /\ ParsedAsWritten'
  OBVIOUS
<1>0. /\ IInv /\ Placed /\ Complete /\ ParsedAsWritten
      /\ TypeOK /\ InStep /\ Counted /\ Waiting /\ IInv'
  BY NextIInv DEF WInv, IInv
<1> DEFINE Slot(n) == Cardinality(Upto(n)) - 1
           Right(n) == /\ TargetName[Slot(n)] = n
                       /\ \/ CommandsOf(n) = {} /\ Command[Slot(n)] = None
                          \/ CommandsOf(n) = {Command[Slot(n)]}
<1>1. /\ nTargetCount \in Nat /\ pTarget \in Nat
      /\ nPreviousTarget \in {0, 1} /\ nTargetCount = pTarget + nPreviousTarget
      /\ nLine \in Nat
      /\ result # "overrun" => nTargetCount = Cardinality(Upto(nLine))
  BY <1>0 DEF TypeOK, InStep, Counted, Nodes
<1>2. ASSUME NEW n \in Upto(nLine), result # "overrun"
      PROVE  n \in 1 .. nLine /\ file[n] = "target" /\ Slot(n) \in 0 .. nTargetCount - 1
  <2>1. n \in 1 .. nLine /\ file[n] = "target" /\ n \in Upto(n)
    BY DEF Upto
  <2>2. Cardinality(Upto(n)) \in Nat /\ Cardinality(Upto(n)) <= nTargetCount
    BY <1>1, <1>2, <2>1, UptoMonotone, UptoFinite
  <2>3. Cardinality(Upto(n)) # 0
    BY <2>1, UptoFinite, FS_EmptySet
  <2>4. QED
    BY <1>1, <2>1, <2>2, <2>3
<1>3. result = "none" => \A n \in Upto(nLine) : Right(n)
  BY <1>0 DEF ParsedAsWritten
<1>4. ASSUME Counted', result' \notin {"fail", "overrun"} => \A n \in Upto(nLine)' : Right(n)'
      PROVE  ParsedAsWritten'
  BY <1>4 DEF ParsedAsWritten, Counted
<1>5. Counted'
  BY <1>0 DEF IInv
<1>6. ASSUME NEW kind, GetLine(kind), kind # "target",
             UNCHANGED <<TargetName, Command, pTarget, nTargetCount, nPreviousTarget>>,
             result' \in {"fail", "overrun"} \/ kind # "command"
      PROVE  Placed' /\ Complete' /\ ParsedAsWritten'
  <2>1. /\ Upto(nLine)' = Upto(nLine) /\ \A n : Upto(n)' = Upto(n)
        /\ result = "none"
    BY <1>0, <1>1, <1>6, LineRead, UptoNext DEF Upto
  <2>2. Placed' /\ Complete'
    BY <1>0, <1>6, <2>1 DEF Placed, Complete
  <2>3. ASSUME result' \notin {"fail", "overrun"}, NEW n \in Upto(nLine) PROVE Right(n)'
    BY <1>0, <1>3, <1>6, <2>1, <2>3, CommandsNext
  <2>4. QED
    BY <1>4, <1>5, <2>1, <2>2, <2>3
<1>7. CASE SkipLine
  BY <1>6, <1>7 DEF SkipLine
<1>8. CASE StrayCommand \/ BadLine
  BY <1>6, <1>8 DEF StrayCommand, BadLine, Fail
<1>9. CASE CommandLine
  <2>1. /\ GetLine("command") /\ pTarget \in Nodes /\ nPreviousTarget' = 0 /\ pTarget' = pTarget + 1
        /\ Command' = [Command EXCEPT ![pTarget] = nLine + 1]
        /\ TargetName' = TargetName /\ nTargetCount' = nTargetCount
    BY <1>9 DEF CommandLine, GetLine
  <2>2. nPreviousTarget = 1 /\ nTargetCount - 1 = pTarget /\ nTargetCount > 0
    BY <1>1, <1>9, <2>1, StrayIs DEF CommandLine
  <2>3. /\ Upto(nLine)' = Upto(nLine) /\ \A n : Upto(n)' = Upto(n)
        /\ result = "none" /\ nLine + 1 # None
    BY <1>0, <1>1, <2>1, LineRead, UptoNext DEF Upto
  <2>4. /\ Command'[pTarget] = nLine + 1
        /\ \A k \in Nodes : k # pTarget => Command'[k] = Command[k]
    BY <1>0, <2>1 DEF TypeOK
  <2>5. Placed' /\ Complete'
    BY <1>0, <2>1, <2>2, <2>3, <2>4 DEF Placed, Complete
  <2>6. ASSUME NEW n \in Upto(nLine) PROVE Right(n)'
    <3>1. Slot(n)' = Slot(n) /\ TargetName'[Slot(n)] = n /\ Right(n) /\ Slot(n) \in 0 .. pTarget
      BY <1>2, <1>3, <2>1, <2>2, <2>3
    <3>0. n \in 1 .. nLine /\ nTargetCount = Cardinality(Upto(nLine)) /\ n \in Nat
      BY <1>1, <1>2, <2>3
    <3>2. CASE Slot(n) = pTarget
      <4>1. Command[pTarget] = None
        BY <1>0, <1>1, <2>1 DEF InStep
      <4>2. CommandsOf(n) = {}
        <5>1. CommandsOf(n) \subseteq Nat
          BY <1>1, <3>0 DEF CommandsOf
        <5>2. QED
          BY <3>1, <3>2, <4>1, <5>1
      <4>3. Upto(n) = Upto(nLine)
        <5>1. Cardinality(Upto(n)) = nTargetCount
          <6>1. Cardinality(Upto(n)) \in Nat
            BY <3>0, UptoFinite
          <6>2. QED
            BY <1>1, <2>2, <3>2, <6>1
        <5>2. n \in 0 .. nLine
          BY <1>1, <3>0
        <5>3. QED
          BY <1>1, <3>0, <5>1, <5>2, UptoMonotone
      <4>4. CommandsOf(n)' = {nLine + 1}
        BY <1>0, <2>1, <4>2, <4>3, CommandsNext
      <4>5. QED
        BY <2>4, <3>1, <3>2, <4>4
    <3>3. CASE Slot(n) # pTarget
      <4>1. Upto(n) # Upto(nLine)
        BY <1>1, <2>2, <3>0, <3>3
      <4>2. CommandsOf(n)' = CommandsOf(n)
        BY <1>0, <2>1, <4>1, CommandsNext
      <4>3. Command'[Slot(n)] = Command[Slot(n)]
        <5>1. Slot(n) \in Nodes
          BY <1>1, <2>1, <3>1 DEF Nodes
        <5>2. QED
          BY <2>4, <3>3, <5>1
      <4>4. QED
        BY <3>1, <4>2, <4>3
    <3>4. QED
      BY <3>2, <3>3
  <2>7. QED
    BY <1>4, <1>5, <2>3, <2>5, <2>6
<1>10. CASE TargetLine
  <2>1. /\ GetLine("target") /\ nPreviousTarget' = 1 /\ nTargetCount' = nTargetCount + 1
        /\ TargetName' = [TargetName EXCEPT ![nTargetCount] = nLine + 1]
        /\ Command' = Command
    <3>1. pTarget' = nTargetCount
      BY <1>1, <1>10 DEF TargetLine, NextTarget
    <3>2. QED
      BY <1>10, <3>1 DEF TargetLine, GetLine
  <2>2. /\ Upto(nLine)' = Upto(nLine) \cup {nLine + 1} /\ \A n : Upto(n)' = Upto(n)
        /\ Cardinality(Upto(nLine + 1)) = nTargetCount + 1 /\ result = "none"
        /\ nLine < Len(file)
    BY <1>0, <1>1, <2>1, LineRead, UptoNext DEF Upto
  <2>3. nTargetCount \in Nodes
    BY <1>1, <1>10 DEF TargetLine, NextTarget
  <2>4. /\ TargetName'[nTargetCount] = nLine + 1
        /\ \A k \in Nodes : k # nTargetCount => TargetName'[k] = TargetName[k]
    BY <1>0, <2>1, <2>3 DEF TypeOK
  <2>5. Placed'
    <3>1. ASSUME NEW k \in Nodes, k < nTargetCount + 1
          PROVE  /\ TargetName'[k] \in Upto(nLine)'
                 /\ Cardinality(Upto(TargetName'[k])) = k + 1
      <4>1. k < nTargetCount \/ k = nTargetCount
        BY <1>1, <3>1 DEF Nodes
      <4>2. QED
        BY <1>0, <1>1, <2>2, <2>4, <4>1 DEF Placed
    <3>2. QED
      BY <2>1, <2>2, <3>1 DEF Placed
  <2>6. Complete'
    BY <2>1 DEF Complete
  <2>7. ASSUME NEW n \in Upto(nLine) PROVE Right(n)'
    <3>1. CommandsOf(n)' = CommandsOf(n)
      BY <1>0, <2>1, CommandsNext
    <3>2. Slot(n)' = Slot(n) /\ Right(n) /\ Slot(n) \in 0 .. nTargetCount - 1
      BY <1>2, <1>3, <2>2
    <3>3. Slot(n) \in Nodes /\ Slot(n) # nTargetCount
      BY <1>1, <2>3, <3>2 DEF Nodes
    <3>4. QED
      BY <2>1, <2>4, <3>1, <3>2, <3>3
  <2>8. ASSUME NEW m, m = nLine + 1 PROVE Right(m)'
    <3>1. Slot(m)' = nTargetCount
      BY <1>1, <2>2, <2>8
    <3>2. CommandsOf(m)' = {}
      BY <1>0, <1>1, <2>1, <2>8, LineRead DEF CommandsOf
    <3>3. Command[nTargetCount] = None
      BY <1>0, <1>1, <2>3 DEF InStep
    <3>4. QED
      BY <2>1, <2>4, <2>8, <3>1, <3>2, <3>3
  <2>9. QED
    BY <1>4, <1>5, <2>2, <2>5, <2>6, <2>7, <2>8
<1>11. CASE Overrun
  <2>1. PICK kind \in {"target", "command"} : GetLine(kind)
    BY <1>11 DEF Overrun
  <2>2. /\ UNCHANGED <<TargetName, Command, pTarget, nTargetCount, nPreviousTarget>>
        /\ result' = "overrun"
    BY <1>11 DEF Overrun
  <2>3. Upto(nLine) \subseteq Upto(nLine)' /\ \A n : Upto(n)' = Upto(n)
    <3>1. nLine' = nLine + 1 /\ file' = file
      BY <1>0, <2>1, LineRead
    <3>2. QED
      BY <1>1, <3>1 DEF Upto
  <2>4. Placed' /\ Complete'
    BY <1>0, <2>2, <2>3 DEF Placed, Complete
  <2>5. ParsedAsWritten'
    BY <2>2 DEF ParsedAsWritten
  <2>6. QED
    BY <2>4, <2>5
<1>12. CASE EndOfFile \/ UNCHANGED vars
  <2>1. /\ UNCHANGED <<file, nLine, TargetName, Command, pTarget, nTargetCount, nPreviousTarget>>
        /\ result' = result \/ result = "none"
    BY <1>12 DEF EndOfFile, vars
  <2>2. (\A n : Upto(n)' = Upto(n) /\ CommandsOf(n)' = CommandsOf(n)) /\ Upto(nLine)' = Upto(nLine)
    BY <2>1 DEF Upto, CommandsOf
  <2>3. Placed' /\ Complete'
    BY <1>0, <2>1, <2>2 DEF Placed, Complete
  <2>4. ParsedAsWritten'
    BY <1>0, <2>1, <2>2 DEF ParsedAsWritten
  <2>5. QED
    BY <2>3, <2>4
<1>13. QED
  BY <1>7, <1>8, <1>9, <1>10, <1>11, <1>12 DEF Next

(* Slots and lines correspond, target by target. *)
THEOREM WrittenInvariant == Spec => []WInv
<1>1. WInv /\ [Next]_vars => WInv'
  BY NextIInv, RejectsStep, WrittenStep, OverrunsStep DEF WInv
<1>2. QED
  BY InitWInv, <1>1, PTL DEF Spec

(* The array holds the targets of every accepted makefile in their order,  *)
(* each with its command (util.c:163-204).                                 *)
THEOREM ArrayIsTheMakefile == Spec => []ParsedAsWritten
<1>1. WInv => ParsedAsWritten
  BY DEF WInv
<1>2. QED
  BY WrittenInvariant, <1>1, PTL

(* parse() fails at the first line that is malformed, and only there       *)
(* (util.c:166-170, 179-183).                                              *)
THEOREM MalformedIsRejected == Spec => []RejectsMalformed
<1>1. WInv => RejectsMalformed
  BY DEF WInv
<1>2. QED
  BY WrittenInvariant, <1>1, PTL

(* parse() leaves the array at the first line that needs one slot more     *)
(* than MAX_NODES, and only there: for every makefile, targets with and    *)
(* without commands in any order (util.c:166, 185-193).                    *)
THEOREM ArrayHoldsMaxNodes == Spec => []OverrunsOnlyWhenFull
<1>1. WInv => OverrunsOnlyWhenFull
  BY DEF WInv
<1>2. QED
  BY WrittenInvariant, <1>1, PTL
=============================================================================
