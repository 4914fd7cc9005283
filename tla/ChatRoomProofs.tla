--------------------------- MODULE ChatRoomProofs ---------------------------
(***************************************************************************)
(* Proofs about ChatRoom, for any users: whatever is lost, users are shown *)
(* lines at most once, and in one order.                                   *)
(***************************************************************************)
EXTENDS ChatRoom, TLAPS

(* x is in s; x is somewhere in s before y. *)
In(s, x) == \E p \in 1 .. Len(s) : s[p] = x
Prec(s, x, y) == \E p, q \in 1 .. Len(s) : p < q /\ s[p] = x /\ s[q] = y

(* t is what is left of s, in the same order. *)
Within(t, s) ==
  /\ \A x : In(t, x) => In(s, x)
  /\ \A x, y : Prec(t, x, y) => Prec(s, x, y)

Types ==
  /\ typed \in Nat
  /\ said \in [Users -> Seq(Lines)]
  /\ pending \in [Users -> Seq(Lines)]
  /\ shown \in [Users -> Seq(Lines)]

(* Who types a line sends it under its own name and the latest number. *)
Own ==
  \A k \in Users : /\ \A x : In(said[k], x) => x.from = k /\ x.n <= typed
                   /\ \A x : In(Heard(k), x) => x.n <= typed

(* Lines are numbered in the order in which they were typed, before the one *)
(* place and behind it, and those behind it are older.                      *)
SaidAscends == \A k \in Users : \A x, y : Prec(said[k], x, y) => x.n < y.n
HeardAscends ==
  \A k \in Users : \A x, y : Prec(Heard(k), x, y) /\ x.from = y.from => x.n < y.n
HeardBeforeSaid ==
  \A j, k \in Users : \A x, y :
    In(Heard(j), x) /\ In(said[k], y) /\ x.from = k => x.n < y.n

(* No two users hear two lines in opposite orders. *)
Agreed ==
  \A k, l \in Users : \A x, y : Prec(Heard(k), x, y) => ~Prec(Heard(l), y, x)

IInv == Types /\ Own /\ SaidAscends /\ HeardAscends /\ HeardBeforeSaid /\ Agreed

-----------------------------------------------------------------------------
(* Sequences. *)

LEMMA PrecIn ==
  ASSUME NEW s, NEW x, NEW y, Prec(s, x, y)
  PROVE  In(s, x) /\ In(s, y)
BY DEF In, Prec

LEMMA SameSeq ==
  ASSUME NEW S, NEW s \in Seq(S), NEW t \in Seq(S), Len(s) = Len(t),
         \A p \in 1 .. Len(s) : s[p] = t[p]
  PROVE  s = t
OBVIOUS

LEMMA ConcatAssociates ==
  ASSUME NEW S, NEW s \in Seq(S), NEW t \in Seq(S), NEW u \in Seq(S)
  PROVE  s \o (t \o u) = (s \o t) \o u /\ t \o u \in Seq(S) /\ s \o t \in Seq(S)
OBVIOUS

LEMMA ConcatIs ==
  ASSUME NEW S, NEW s \in Seq(S), NEW t \in Seq(S)
  PROVE  /\ s \o t \in Seq(S)
         /\ \A x : In(s \o t, x) <=> In(s, x) \/ In(t, x)
         /\ \A x, y : Prec(s \o t, x, y) <=>
              \/ Prec(s, x, y) \/ Prec(t, x, y)
              \/ In(s, x) /\ In(t, y)
<1>1. /\ s \o t \in Seq(S) /\ Len(s) \in Nat /\ Len(t) \in Nat
      /\ Len(s \o t) = Len(s) + Len(t)
  OBVIOUS
<1>2. /\ \A p \in 1 .. Len(s) : (s \o t)[p] = s[p]
      /\ \A p \in 1 .. Len(t) : (s \o t)[Len(s) + p] = t[p]
  OBVIOUS
<1>3. \A p \in 1 .. Len(s \o t) : p \in 1 .. Len(s) \/ p - Len(s) \in 1 .. Len(t)
  BY <1>1
<1>4. ASSUME NEW x PROVE In(s \o t, x) <=> In(s, x) \/ In(t, x)
  <2>1. ASSUME In(s \o t, x) PROVE In(s, x) \/ In(t, x)
    BY <1>1, <1>2, <1>3, <2>1 DEF In
  <2>2. ASSUME In(s, x) PROVE In(s \o t, x)
    BY <1>1, <1>2, <2>2 DEF In
  <2>3. ASSUME In(t, x) PROVE In(s \o t, x)
    <3>1. PICK p \in 1 .. Len(t) : t[p] = x
      BY <2>3 DEF In
    <3>2. Len(s) + p \in 1 .. Len(s \o t) /\ (s \o t)[Len(s) + p] = x
      BY <1>1, <1>2, <3>1
    <3>3. QED
      BY <3>2 DEF In
  <2>4. QED
    BY <2>1, <2>2, <2>3
<1>5. ASSUME NEW x, NEW y
      PROVE  Prec(s \o t, x, y) <=> \/ Prec(s, x, y) \/ Prec(t, x, y)
                                    \/ In(s, x) /\ In(t, y)
  <2>1. ASSUME Prec(s \o t, x, y)
        PROVE  Prec(s, x, y) \/ Prec(t, x, y) \/ (In(s, x) /\ In(t, y))
    <3>1. PICK p, q \in 1 .. Len(s \o t) :
            p < q /\ (s \o t)[p] = x /\ (s \o t)[q] = y
      BY <2>1 DEF Prec
    <3>2. CASE q \in 1 .. Len(s)
      <4>1. p \in 1 .. Len(s)
        BY <1>1, <3>1, <3>2
      <4>2. s[p] = x /\ s[q] = y
        BY <1>2, <3>1, <3>2, <4>1
      <4>3. QED
        BY <3>1, <3>2, <4>1, <4>2 DEF Prec
    <3>3. CASE p \in 1 .. Len(s) /\ q - Len(s) \in 1 .. Len(t)
      <4>1. s[p] = x /\ t[q - Len(s)] = y
        BY <1>1, <1>2, <3>1, <3>3
      <4>2. QED
        BY <3>3, <4>1 DEF In
    <3>4. CASE p - Len(s) \in 1 .. Len(t) /\ q - Len(s) \in 1 .. Len(t)
      <4>1. t[p - Len(s)] = x /\ t[q - Len(s)] = y /\ p - Len(s) < q - Len(s)
        BY <1>1, <1>2, <3>1, <3>4
      <4>2. \E u, v \in 1 .. Len(t) : u < v /\ t[u] = x /\ t[v] = y
        BY <3>4, <4>1
      <4>3. QED
        BY <4>2 DEF Prec
    <3>5. QED
      BY <1>1, <1>3, <3>1, <3>2, <3>3, <3>4
  <2>2. ASSUME Prec(s, x, y) PROVE Prec(s \o t, x, y)
    BY <1>1, <1>2, <2>2 DEF Prec
  <2>3. ASSUME Prec(t, x, y) PROVE Prec(s \o t, x, y)
    <3>1. PICK p, q \in 1 .. Len(t) : p < q /\ t[p] = x /\ t[q] = y
      BY <2>3 DEF Prec
    <3>2. /\ Len(s) + p \in 1 .. Len(s \o t) /\ Len(s) + q \in 1 .. Len(s \o t)
          /\ (s \o t)[Len(s) + p] = x /\ (s \o t)[Len(s) + q] = y
          /\ Len(s) + p < Len(s) + q
      BY <1>1, <1>2, <3>1
    <3>3. QED
      BY <3>2 DEF Prec
  <2>4. ASSUME In(s, x), In(t, y) PROVE Prec(s \o t, x, y)
    <3>1. PICK p \in 1 .. Len(s) : s[p] = x
      BY <2>4 DEF In
    <3>2. PICK q \in 1 .. Len(t) : t[q] = y
      BY <2>4 DEF In
    <3>3. /\ p \in 1 .. Len(s \o t) /\ Len(s) + q \in 1 .. Len(s \o t)
          /\ (s \o t)[p] = x /\ (s \o t)[Len(s) + q] = y
          /\ p < Len(s) + q
      BY <1>1, <1>2, <3>1, <3>2
    <3>4. QED
      BY <3>3 DEF Prec
  <2>5. QED
    BY <2>1, <2>2, <2>3, <2>4
<1>6. QED
  BY <1>1, <1>4, <1>5

LEMMA PieceWithin ==
  ASSUME NEW S, NEW s \in Seq(S), NEW a \in 1 .. Len(s) + 1, NEW b \in 0 .. Len(s)
  PROVE  SubSeq(s, a, b) \in Seq(S) /\ Within(SubSeq(s, a, b), s)
<1> DEFINE t == SubSeq(s, a, b)
<1>1. /\ t \in Seq(S)
      /\ Len(t) = IF a <= b THEN b - a + 1 ELSE 0
      /\ \A p \in 1 .. Len(t) : t[p] = s[a + p - 1]
  OBVIOUS
<1>2. \A p \in 1 .. Len(t) : a + p - 1 \in 1 .. Len(s)
  BY <1>1
<1>3. ASSUME NEW x, In(t, x) PROVE In(s, x)
  BY <1>1, <1>2, <1>3 DEF In
<1>4. ASSUME NEW x, NEW y, Prec(t, x, y) PROVE Prec(s, x, y)
  <2>1. PICK p, q \in 1 .. Len(t) : p < q /\ t[p] = x /\ t[q] = y
    BY <1>4 DEF Prec
  <2>2. a + p - 1 < a + q - 1 /\ s[a + p - 1] = x /\ s[a + q - 1] = y
    BY <1>1, <2>1
  <2>3. QED
    BY <1>2, <2>1, <2>2 DEF Prec
<1>5. QED
  BY <1>1, <1>3, <1>4 DEF Within

LEMMA FirstAndRest ==
  ASSUME NEW S, NEW s \in Seq(S), NEW m \in 0 .. Len(s)
  PROVE  /\ First(s, m) \in Seq(S) /\ Rest(s, m) \in Seq(S)
         /\ Within(First(s, m), s) /\ Within(Rest(s, m), s)
         /\ First(s, m) \o Rest(s, m) = s
<1>1. First(s, m) \in Seq(S) /\ Within(First(s, m), s)
  BY PieceWithin DEF First
<1>2. Rest(s, m) \in Seq(S) /\ Within(Rest(s, m), s)
  BY PieceWithin DEF Rest
<1>3. First(s, m) \o Rest(s, m) = s
  <2> DEFINE F == SubSeq(s, 1, m)
             G == SubSeq(s, m + 1, Len(s))
  <2>1. /\ F \in Seq(S) /\ Len(F) = m
        /\ \A p \in 1 .. m : F[p] = s[p]
    OBVIOUS
  <2>2. /\ G \in Seq(S) /\ Len(G) = Len(s) - m
        /\ \A p \in 1 .. Len(s) - m : G[p] = s[m + p]
    OBVIOUS
  <2> HIDE DEF F, G
  <2>3. /\ F \o G \in Seq(S) /\ Len(F \o G) = Len(s)
        /\ \A p \in 1 .. m : (F \o G)[p] = F[p]
        /\ \A p \in 1 .. Len(s) : p > m => (F \o G)[p] = G[p - m]
    BY <2>1, <2>2
  <2>4. ASSUME NEW p \in 1 .. Len(s) PROVE (F \o G)[p] = s[p]
    <3>1. p \in Int /\ m \in Int
      OBVIOUS
    <3>2. CASE p <= m
      BY <2>1, <2>3, <3>1, <3>2
    <3>3. CASE p > m
      BY <2>2, <2>3, <3>1, <3>3
    <3>4. p <= m \/ p > m
      BY <3>1
    <3>5. QED
      BY <3>2, <3>3, <3>4
  <2>5. F \o G = s
    BY <2>3, <2>4, SameSeq
  <2>6. QED
    BY <2>5 DEF F, G, First, Rest
<1>4. QED
  BY <1>1, <1>2, <1>3

LEMMA LeftWithin ==
  ASSUME NEW S, NEW s \in Seq(S), NEW t, Left(s, t)
  PROVE  t \in Seq(S) /\ Within(t, s)
<1>0. PICK m \in 0 .. Len(s) : \E n \in m .. Len(s) : t = First(s, m) \o Rest(s, n)
  BY DEF Left
<1>1. PICK n \in m .. Len(s) : t = First(s, m) \o Rest(s, n)
  BY <1>0
<1>2. Len(s) \in Nat /\ m \in Nat /\ n \in 0 .. Len(s)
  OBVIOUS
<1> DEFINE F == First(s, m)
           G == Rest(s, n)
<1>3. F \in Seq(S) /\ Within(F, s) /\ G \in Seq(S) /\ Within(G, s)
  BY <1>2, FirstAndRest
<1>4. /\ Len(F) = m /\ \A p \in 1 .. m : F[p] = s[p]
      /\ Len(G) = Len(s) - n /\ \A p \in 1 .. Len(s) - n : G[p] = s[n + p]
  BY <1>2 DEF First, Rest
<1> HIDE DEF F, G
<1>5. ASSUME NEW x, NEW y, In(F, x), In(G, y) PROVE Prec(s, x, y)
  <2>1. PICK p \in 1 .. m : s[p] = x
    BY <1>4, <1>5 DEF In
  <2>2. PICK q \in 1 .. Len(s) - n : s[n + q] = y
    BY <1>4, <1>5 DEF In
  <2>3. p \in 1 .. Len(s) /\ n + q \in 1 .. Len(s) /\ p < n + q
    BY <1>2
  <2>4. QED
    BY <2>1, <2>2, <2>3 DEF Prec
<1>6. t = F \o G
  BY <1>1 DEF F, G
<1>7. t \in Seq(S)
  BY <1>3, <1>6
<1>8. ASSUME NEW x, In(t, x) PROVE In(s, x)
  BY <1>3, <1>6, <1>8, ConcatIs DEF Within
<1>9. ASSUME NEW x, NEW y, Prec(t, x, y) PROVE Prec(s, x, y)
  BY <1>3, <1>5, <1>6, <1>9, ConcatIs DEF Within
<1>10. QED
  BY <1>7, <1>8, <1>9 DEF Within

LEMMA AppendIs ==
  ASSUME NEW S, NEW s \in Seq(S), NEW e \in S
  PROVE  /\ Append(s, e) \in Seq(S)
         /\ \A x : In(Append(s, e), x) <=> In(s, x) \/ x = e
         /\ \A x, y : Prec(Append(s, e), x, y) <=> Prec(s, x, y) \/ (In(s, x) /\ y = e)
<1>1. <<e>> \in Seq(S) /\ Append(s, e) = s \o <<e>>
  OBVIOUS
<1>2. \A x : In(<<e>>, x) <=> x = e
  BY DEF In
<1>3. \A x, y : ~Prec(<<e>>, x, y)
  BY DEF Prec
<1>4. PICK t : t = <<e>>
  OBVIOUS
<1>5. t \in Seq(S) /\ Append(s, e) = s \o t
  BY <1>1, <1>4
<1>6. (\A x : In(t, x) <=> x = e) /\ \A x, y : ~Prec(t, x, y)
  BY <1>2, <1>3, <1>4
<1>7. s \o t \in Seq(S)
  BY <1>5, ConcatIs
<1>8. \A x : In(s \o t, x) <=> In(s, x) \/ x = e
  BY <1>5, <1>6, ConcatIs
<1>9. \A x, y : Prec(s \o t, x, y) <=> Prec(s, x, y) \/ (In(s, x) /\ y = e)
  BY <1>5, <1>6, ConcatIs
<1>10. QED
  BY <1>5, <1>7, <1>8, <1>9

LEMMA LineIs == \A x \in Lines : x.n \in Nat /\ x.n > 0 /\ x.from \in Users
BY DEF Lines

LEMMA InLines ==
  ASSUME NEW s \in Seq(Lines), NEW x, In(s, x)
  PROVE  x \in Lines /\ x.n \in Nat /\ x.from \in Users
<1>1. x \in Lines
  BY DEF In
<1>2. QED
  BY <1>1, LineIs

LEMMA HeardType ==
  ASSUME Types, NEW k \in Users
  PROVE  Heard(k) \in Seq(Lines) /\ Len(Heard(k)) \in Nat
<1>1. Heard(k) \in Seq(Lines)
  BY DEF Types, Heard
<1>2. QED
  BY <1>1

-----------------------------------------------------------------------------
(* The invariant is inductive. *)

LEMMA InitIInv == Init => IInv
<1> SUFFICES ASSUME Init PROVE IInv
  OBVIOUS
<1>1. \A k \in Users : said[k] = <<>> /\ Heard(k) = <<>>
  <2>1. \A k \in Users : said[k] = <<>> /\ shown[k] = <<>> /\ pending[k] = <<>>
    BY DEF Init
  <2>2. <<>> \o <<>> = <<>>
    OBVIOUS
  <2>3. QED
    BY <2>1, <2>2, Zenon DEF Heard
<1>2. \A x : ~In(<<>>, x)
  BY DEF In
<1>3. \A x, y : ~Prec(<<>>, x, y)
  BY DEF Prec
<1>4. Types
  BY DEF Init, Types
<1>5. QED
  BY <1>1, <1>2, <1>3, <1>4
     DEF IInv, Own, SaidAscends, HeardAscends, HeardBeforeSaid, Agreed

LEMMA SayStep ==
  ASSUME IInv, NEW k \in Users, Say(k)
  PROVE  IInv'
<1>1. /\ typed \in Nat /\ typed' = typed + 1
      /\ \A j \in Users : Heard(j)' = Heard(j)
      /\ \A j \in Users : said[j] \in Seq(Lines)
  BY DEF Say, IInv, Types, Heard
<1>2. PICK kind \in Kinds, to \in Addressees :
        said' \in {said, [said EXCEPT ![k] = Append(@,
                     [from |-> k, n |-> typed + 1, kind |-> kind, to |-> to])]}
  BY DEF Say
<1> DEFINE e == [from |-> k, n |-> typed + 1, kind |-> kind, to |-> to]
<1>3. e \in Lines /\ e.from = k /\ e.n = typed + 1
  BY <1>1 DEF Lines
<1> HIDE DEF e
<1>4. \A j \in Users : \/ said'[j] = said[j]
                       \/ j = k /\ said'[j] = Append(said[j], e)
  BY <1>2 DEF IInv, Types, e
<1>5. ASSUME NEW j \in Users
      PROVE  /\ said'[j] \in Seq(Lines)
             /\ \A x : In(said'[j], x) => In(said[j], x) \/ (j = k /\ x = e)
             /\ \A x, y : Prec(said'[j], x, y) =>
                           Prec(said[j], x, y) \/ (j = k /\ In(said[j], x) /\ y = e)
  <2>1. CASE said'[j] = said[j]
    BY <1>1, <2>1
  <2>2. CASE j = k /\ said'[j] = Append(said[j], e)
    BY <1>1, <1>3, <2>2, AppendIs
  <2>3. QED
    BY <1>4, <2>1, <2>2
<1>6. Types'
  <2>1. \A j \in Users : said'[j] \in Seq(Lines)
    BY <1>5
  <2>2. \E f : said' = [j \in Users |-> f[j]]
    BY <1>2 DEF IInv, Types
  <2>3. said' \in [Users -> Seq(Lines)]
    BY <2>1, <2>2
  <2>4. QED
    BY <1>1, <2>3 DEF Say, IInv, Types
<1>7. Own'
  <2>1. /\ \A j \in Users : \A x : In(said[j], x) => x.from = j /\ x.n <= typed
        /\ \A j \in Users : \A x : In(Heard(j), x) => x.n <= typed
    BY DEF IInv, Own
  <2>2. /\ \A j \in Users : \A x : In(said[j], x) => x.n \in Nat
        /\ \A j \in Users : \A x : In(Heard(j), x) => x.n \in Nat
    BY <1>1, InLines, HeardType DEF IInv
  <2>3. ASSUME NEW j \in Users, NEW x, In(said'[j], x) PROVE x.from = j /\ x.n <= typed + 1
    <3>1. CASE In(said[j], x)
      BY <1>1, <2>1, <2>2, <3>1
    <3>2. CASE j = k /\ x = e
      BY <1>1, <1>3, <3>2
    <3>3. QED
      BY <1>5, <2>3, <3>1, <3>2
  <2>4. ASSUME NEW j \in Users, NEW x, In(Heard(j), x) PROVE x.n <= typed + 1
    BY <1>1, <2>1, <2>2, <2>4
  <2>5. QED
    BY <1>1, <2>3, <2>4 DEF Own
<1>8. SaidAscends'
  <2>1. \A j \in Users : \A x : In(said[j], x) => x.n <= typed /\ x.n \in Nat
    BY <1>1, InLines DEF IInv, Own
  <2>2. ASSUME NEW j \in Users, NEW x, NEW y, Prec(said'[j], x, y) PROVE x.n < y.n
    <3>1. CASE Prec(said[j], x, y)
      BY <3>1 DEF IInv, SaidAscends
    <3>2. CASE j = k /\ In(said[j], x) /\ y = e
      BY <1>1, <1>3, <2>1, <3>2
    <3>3. QED
      BY <1>5, <2>2, <3>1, <3>2
  <2>3. QED
    BY <2>2 DEF SaidAscends
<1>9. HeardAscends' /\ Agreed'
  BY <1>1 DEF IInv, HeardAscends, Agreed
<1>10. HeardBeforeSaid'
  <2>1. \A j \in Users : \A x : In(Heard(j), x) => x.n <= typed /\ x.n \in Nat
    BY <1>1, InLines, HeardType DEF IInv, Own
  <2>2. ASSUME NEW j \in Users, NEW l \in Users, NEW x, NEW y,
               In(Heard(j), x), In(said'[l], y), x.from = l
        PROVE  x.n < y.n
    <3>1. CASE In(said[l], y)
      BY <2>2, <3>1 DEF IInv, HeardBeforeSaid
    <3>2. CASE y = e
      BY <1>1, <1>3, <2>1, <2>2, <3>2
    <3>3. QED
      BY <1>5, <2>2, <3>1, <3>2
  <2>3. QED
    BY <1>1, <2>2 DEF HeardBeforeSaid
<1>11. QED
  BY <1>6, <1>7, <1>8, <1>9, <1>10 DEF IInv

LEMMA DeliverStep ==
  ASSUME IInv, NEW k \in Users, Deliver(k)
  PROVE  IInv'
<1>1. PICK m \in 0 .. Len(said[k]), K \in SUBSET (Users \ {k}) :
        /\ said' = [said EXCEPT ![k] = Rest(@, m)]
        /\ pending' = [l \in Users |->
                         IF l \in K THEN pending[l] \o First(said[k], m) ELSE pending[l]]
        /\ UNCHANGED <<typed, shown>>
  BY DEF Deliver
<1>2. Types /\ said[k] \in Seq(Lines) /\ \A j \in Users : pending[j] \in Seq(Lines) /\ shown[j] \in Seq(Lines)
  BY DEF IInv, Types
<1>3. PICK F, G : F = First(said[k], m) /\ G = Rest(said[k], m)
  OBVIOUS
<1>4. /\ F \in Seq(Lines) /\ G \in Seq(Lines) /\ F \o G = said[k]
      /\ Within(F, said[k]) /\ Within(G, said[k])
  BY <1>2, <1>3, FirstAndRest
<1>5. ASSUME NEW x, NEW y, In(F, x), In(G, y) PROVE Prec(said[k], x, y)
  <2>1. Prec(F \o G, x, y)
    BY <1>4, <1>5, ConcatIs
  <2>2. QED
    BY <1>4, <2>1
<1>6. said'[k] = G /\ \A j \in Users : j # k => said'[j] = said[j]
  BY <1>1, <1>2, <1>3 DEF Types
<1>7. ASSUME NEW j \in Users
      PROVE  /\ pending'[j] \in Seq(Lines)
             /\ Heard(j)' = Heard(j) \/ Heard(j)' = Heard(j) \o F
  <2>1. CASE pending'[j] = pending[j]
    BY <1>1, <1>2, <2>1 DEF Heard
  <2>2. CASE pending'[j] = pending[j] \o F
    <3>1. PICK a, b : a = shown[j] /\ b = pending[j]
      OBVIOUS
    <3>2. a \in Seq(Lines) /\ b \in Seq(Lines) /\ b \o F \in Seq(Lines)
      BY <1>2, <1>4, <3>1
    <3>3. a \o (b \o F) = (a \o b) \o F
      BY <1>4, <3>2, ConcatAssociates
    <3>4. QED
      BY <1>1, <2>2, <3>1, <3>2, <3>3 DEF Heard
  <2>3. QED
    BY <1>1, <1>3, <2>1, <2>2
<1>8. Types'
  <2>1. \A j \in Users : said'[j] \in Seq(Lines) /\ pending'[j] \in Seq(Lines)
    BY <1>2, <1>4, <1>6, <1>7 DEF Types
  <2>2. QED
    BY <1>1, <1>2, <2>1 DEF Types
<1>9. ASSUME NEW j \in Users
      PROVE  /\ \A x : In(Heard(j)', x) => In(Heard(j), x) \/ In(F, x)
             /\ \A x, y : Prec(Heard(j)', x, y) =>
                  \/ Prec(Heard(j), x, y) \/ Prec(F, x, y)
                  \/ (In(Heard(j), x) /\ In(F, y))
  <2>1. Heard(j) \in Seq(Lines)
    BY <1>2, HeardType
  <2>2. PICK h : h = Heard(j)
    OBVIOUS
  <2>3. h \in Seq(Lines) /\ Heard(j)' \in {h, h \o F}
    BY <1>7, <2>1, <2>2
  <2>4. \A x : In(h \o F, x) => In(h, x) \/ In(F, x)
    BY <1>4, <2>3, ConcatIs
  <2>5. \A x, y : Prec(h \o F, x, y) =>
                Prec(h, x, y) \/ Prec(F, x, y) \/ (In(h, x) /\ In(F, y))
    BY <1>4, <2>3, ConcatIs
  <2>6. QED
    BY <2>2, <2>3, <2>4, <2>5
<1>10. /\ \A j \in Users : \A x : In(said'[j], x) => In(said[j], x)
       /\ \A j \in Users : \A x, y : Prec(said'[j], x, y) => Prec(said[j], x, y)
  BY <1>4, <1>6 DEF Within
<1>11. \A x : In(F, x) => In(said[k], x) /\ x.from = k /\ x.n <= typed
  BY <1>4 DEF Within, IInv, Own
<1>12. \A x, y : Prec(F, x, y) => x.n < y.n
  BY <1>4 DEF Within, IInv, SaidAscends
<1>13. \A j \in Users : \A x : In(Heard(j), x) /\ x.from = k =>
          \A y : In(said[k], y) => x.n < y.n
  BY DEF IInv, HeardBeforeSaid
<1>14. Own'
  BY <1>1, <1>9, <1>10, <1>11 DEF IInv, Own
<1>15. SaidAscends'
  BY <1>10 DEF IInv, SaidAscends
<1>16. HeardAscends'
  BY <1>9, <1>11, <1>12, <1>13 DEF IInv, HeardAscends
<1>17. HeardBeforeSaid'
  <2>1. \A x, y : In(F, x) /\ In(said'[k], y) => x.n < y.n
    BY <1>5, <1>6 DEF IInv, SaidAscends
  <2>2. QED
    BY <1>9, <1>10, <1>11, <2>1 DEF IInv, HeardBeforeSaid
<1>18. Agreed'
  <2>1. ASSUME NEW j \in Users, NEW l \in Users, NEW x, NEW y,
               Prec(Heard(j)', x, y), Prec(Heard(l)', y, x)
        PROVE  FALSE
    <3>1. \A z : In(F, z) => z.n \in Nat
      BY <1>4, InLines
    <3>2. \A g \in Users : \A z : In(Heard(g), z) => ~In(F, z)
      BY <1>11, <1>13, <3>1
    <3>3. ~(Prec(F, x, y) /\ Prec(F, y, x))
      BY <1>12, <3>1, PrecIn
    <3>4. ~(Prec(Heard(j), x, y) /\ Prec(Heard(l), y, x))
      BY DEF IInv, Agreed
    <3>5. \A g \in Users : \A u, v : /\ Prec(Heard(g), u, v) => In(Heard(g), u) /\ In(Heard(g), v)
                                     /\ Prec(F, u, v) => In(F, u) /\ In(F, v)
      BY PrecIn
    <3>6. QED
      BY <1>9, <2>1, <3>2, <3>3, <3>4, <3>5
  <2>2. QED
    BY <2>1 DEF Agreed
<1>19. QED
  BY <1>8, <1>14, <1>15, <1>16, <1>17, <1>18 DEF IInv

(* What is lost leaves the rest in its order. *)
LEMMA FewerStep ==
  ASSUME IInv, Types', typed' = typed,
         \A k \in Users : Within(said'[k], said[k]) /\ Within(Heard(k)', Heard(k))
  PROVE  IInv'
<1>1. Own'
  BY DEF Within, IInv, Own
<1>2. SaidAscends' /\ HeardAscends'
  BY DEF Within, IInv, SaidAscends, HeardAscends
<1>3. HeardBeforeSaid' /\ Agreed'
  BY DEF Within, IInv, HeardBeforeSaid, Agreed
<1>4. QED
  BY <1>1, <1>2, <1>3 DEF IInv

LEMMA SameWithin == \A s : Within(s, s)
BY DEF Within

LEMMA ShowStep ==
  ASSUME IInv, NEW k \in Users, Show(k)
  PROVE  IInv'
<1>1. PICK m \in 0 .. Len(pending[k]) :
        /\ shown' = [shown EXCEPT ![k] = @ \o First(pending[k], m)]
        /\ pending' = [pending EXCEPT ![k] = Rest(@, m)]
        /\ UNCHANGED <<typed, said>>
  BY DEF Show
<1>2. Types
  BY DEF IInv
<1>3. PICK F, G : F = First(pending[k], m) /\ G = Rest(pending[k], m)
  OBVIOUS
<1>4. F \in Seq(Lines) /\ G \in Seq(Lines) /\ F \o G = pending[k]
  BY <1>2, <1>3, FirstAndRest DEF Types
<1>5. /\ shown' = [shown EXCEPT ![k] = @ \o F]
      /\ pending' = [pending EXCEPT ![k] = G]
  BY <1>1, <1>3
<1>6. Types'
  <2>1. shown[k] \o F \in Seq(Lines)
    BY <1>2, <1>4 DEF Types
  <2>2. shown' \in [Users -> Seq(Lines)] /\ pending' \in [Users -> Seq(Lines)]
    BY <1>2, <1>4, <1>5, <2>1 DEF Types
  <2>3. QED
    BY <1>1, <1>2, <2>2 DEF Types
<1>7. \A j \in Users : Heard(j)' = Heard(j)
  <2>1. (shown[k] \o F) \o G = shown[k] \o pending[k]
    <3>1. PICK a : a = shown[k]
      OBVIOUS
    <3>2. a \in Seq(Lines) /\ F \in Seq(Lines) /\ G \in Seq(Lines)
      BY <1>2, <1>4, <3>1 DEF Types
    <3>3. a \o (F \o G) = (a \o F) \o G
      BY <3>2, ConcatAssociates
    <3>4. QED
      BY <1>4, <3>1, <3>3
  <2>2. QED
    BY <1>2, <1>5, <2>1 DEF Heard, Types
<1>8. QED
  BY <1>1, <1>6, <1>7, FewerStep, SameWithin

LEMMA LoseStep ==
  ASSUME IInv, Lose
  PROVE  IInv'
<1>1. Types
  BY DEF IInv
<1>2. \A k \in Users : /\ said'[k] \in Seq(Lines) /\ Within(said'[k], said[k])
                       /\ pending'[k] \in Seq(Lines) /\ Within(pending'[k], pending[k])
  BY <1>1, LeftWithin DEF Lose, Types
<1>3. Types'
  <2>1. /\ said' = [k \in Users |-> said'[k]]
        /\ pending' = [k \in Users |-> pending'[k]]
    BY DEF Lose
  <2>2. QED
    BY <1>1, <1>2, <2>1 DEF Types, Lose
<1>4. ASSUME NEW k \in Users PROVE Within(Heard(k)', Heard(k))
  <2>1. shown'[k] = shown[k] /\ shown[k] \in Seq(Lines) /\ pending[k] \in Seq(Lines)
    BY <1>1 DEF Lose, Types
  <2>2. QED
    BY <1>2, <2>1, ConcatIs DEF Within, Heard
<1>5. QED
  BY <1>2, <1>3, <1>4, FewerStep DEF Lose

LEMMA NextStep == IInv /\ [Next]_vars => IInv'
<1> SUFFICES ASSUME IInv, [Next]_vars PROVE IInv'
  OBVIOUS
<1>1. CASE Next
  BY <1>1, SayStep, DeliverStep, ShowStep, LoseStep DEF Next
<1>2. CASE UNCHANGED vars
  BY <1>2 DEF vars, IInv, Types, Own, SaidAscends, HeardAscends, HeardBeforeSaid,
              Agreed, Heard
<1>3. QED
  BY <1>1, <1>2

(* The invariant of the proofs: lines are numbered in the order in which   *)
(* they were typed, on both sides of the place that they all pass, and any *)
(* two users hear any two lines in the same order.                         *)
THEOREM RoomInvariant == Spec => []IInv
BY InitIInv, NextStep, PTL DEF Spec

-----------------------------------------------------------------------------
LEMMA InvOrder == IInv => EachOnceInOrder /\ SameOrderForAll
<1> SUFFICES ASSUME IInv PROVE EachOnceInOrder /\ SameOrderForAll
  OBVIOUS
<1>1. \A k \in Users : \A p, q \in 1 .. Len(Heard(k)) :
        p < q => Prec(Heard(k), Heard(k)[p], Heard(k)[q])
  BY DEF Prec
<1>2. EachOnceInOrder
  BY <1>1 DEF IInv, HeardAscends, EachOnceInOrder
<1>3. \A k \in Users : Heard(k) \in Seq(Lines) /\ Len(Heard(k)) \in Nat
  BY HeardType DEF IInv
<1>4. ASSUME NEW k \in Users, NEW p \in 1 .. Len(Heard(k)) PROVE Heard(k)[p].n \in Nat
  <2>1. In(Heard(k), Heard(k)[p])
    BY DEF In
  <2>2. QED
    BY <1>3, <2>1, InLines
<1>5. ASSUME NEW k \in Users, NEW l \in Users,
             NEW p \in 1 .. Len(Heard(k)), NEW q \in 1 .. Len(Heard(k)),
             NEW u \in 1 .. Len(Heard(l)), NEW v \in 1 .. Len(Heard(l)),
             Heard(k)[p] = Heard(l)[u], Heard(k)[q] = Heard(l)[v], p < q
      PROVE  u < v
  <2>1. ~(v < u)
    BY <1>1, <1>5 DEF IInv, Agreed
  <2>2. u # v
    BY <1>2, <1>4, <1>5 DEF EachOnceInOrder
  <2>3. QED
    BY <1>3, <2>1, <2>2
<1>6. SameOrderForAll
  BY <1>5 DEF SameOrderForAll
<1>7. QED
  BY <1>2, <1>6

(* Nobody hears a line twice, nor two lines of one user in the wrong order. *)
THEOREM LinesInOrder == Spec => []EachOnceInOrder
BY RoomInvariant, InvOrder, PTL

(* Any two users hear the lines that both hear in the same order. *)
THEOREM SameOrder == Spec => []SameOrderForAll
BY RoomInvariant, InvOrder, PTL
=============================================================================
