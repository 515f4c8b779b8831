---------------------------- MODULE ListsProofs -----------------------------
(***************************************************************************)
(* What the operators of module Lists compute, for lists of any length.    *)
(* The induction is the library's on well-founded sets, in its form for a  *)
(* set: what holds of the numbers up to n is a set of numbers.             *)
(***************************************************************************)
EXTENDS Lists, Integers, WellFoundedInduction, TLAPS

(* The naturals in a set that is closed under successors are all there.     *)
LEMMA InductionOn ==
  ASSUME NEW T, 0 \in T, \A n \in Nat : n \in T => n + 1 \in T
  PROVE  \A n \in Nat : n \in T
<1> DEFINE R == OpToRel(<, Nat)
           U == Nat \ T
<1>1. \A x, y \in Nat : x < y => <<x, y>> \in R
  BY DEF OpToRel
<1>2. IsWellFoundedOn(R, Nat)
  BY NatLessThanWellFounded
<1> HIDE DEF R
<1> SUFFICES ASSUME U # {} PROVE FALSE
  OBVIOUS
<1>3. PICK m \in U : \A k \in U : <<k, m>> \notin R
  <2> U \subseteq Nat
    OBVIOUS
  <2> HIDE DEF U
  <2> QED BY <1>2, WFMin
<1>4. m # 0 /\ m - 1 \in Nat /\ m - 1 < m /\ m = (m - 1) + 1
  BY <1>3
<1>5. m - 1 \in T
  BY <1>1, <1>3, <1>4
<1> QED BY <1>3, <1>4, <1>5

-----------------------------------------------------------------------------
(* Sequences.                                                               *)
LEMMA SeqFacts ==
  ASSUME NEW T, NEW s \in Seq(T)
  PROVE  /\ Len(s) \in Nat /\ DOMAIN s = 1 .. Len(s)
         /\ \A k \in 1 .. Len(s) : s[k] \in T
  OBVIOUS

LEMMA AppendFacts ==
  ASSUME NEW T, NEW s \in Seq(T), NEW x \in T
  PROVE  /\ Append(s, x) \in Seq(T) /\ Len(Append(s, x)) = Len(s) + 1
         /\ Append(s, x)[Len(s) + 1] = x
         /\ \A k \in 1 .. Len(s) : Append(s, x)[k] = s[k]
  OBVIOUS

(* Every sequence but the empty one is a shorter one and a last element.    *)
LEMMA LastOne ==
  ASSUME NEW T, NEW s \in Seq(T), Len(s) # 0
  PROVE  \E r \in Seq(T), x \in T : s = Append(r, x) /\ Len(s) = Len(r) + 1
<1> DEFINE n == Len(s) - 1
           r == [k \in 1 .. n |-> s[k]]
<1>1. n \in Nat /\ Len(s) = n + 1 /\ s[n + 1] \in T
  OBVIOUS
<1>2. r \in Seq(T) /\ Len(r) = n
  <2>1. r \in [1 .. n -> T]
    OBVIOUS
  <2> QED BY <1>1, <2>1
<1>3. s = Append(r, s[n + 1])
  <2>1. Append(r, s[n + 1]) \in Seq(T) /\ Len(Append(r, s[n + 1])) = Len(s)
    BY <1>1, <1>2
  <2>2. \A k \in 1 .. Len(s) : Append(r, s[n + 1])[k] = s[k]
    <3>1. \A k \in 1 .. n : r[k] = s[k]
      OBVIOUS
    <3> HIDE DEF r
    <3>2. \A k \in 1 .. n : Append(r, s[n + 1])[k] = s[k]
      BY <1>1, <1>2, <3>1, AppendFacts
    <3>3. Append(r, s[n + 1])[n + 1] = s[n + 1]
      BY <1>1, <1>2, AppendFacts
    <3>4. ASSUME NEW k \in 1 .. Len(s) PROVE k = n + 1 \/ k \in 1 .. n
      <4> HIDE DEF n
      <4> QED BY <1>1
    <3> QED BY <3>2, <3>3, <3>4
  <2> QED BY <2>1, <2>2
<1> QED BY <1>1, <1>2, <1>3

(* A set that holds the empty sequence and grows at the end holds them all. *)
LEMMA SequencesOn ==
  ASSUME NEW T, NEW P, <<>> \in P,
         \A s \in Seq(T) : \A x \in T : s \in P => Append(s, x) \in P
  PROVE  \A s \in Seq(T) : s \in P
<1> DEFINE N == {n \in Nat : \A s \in Seq(T) : Len(s) = n => s \in P}
<1>1. 0 \in N
  <2>1. \A s \in Seq(T) : Len(s) = 0 => s = <<>>
    OBVIOUS
  <2> QED BY <2>1
<1>2. ASSUME NEW n \in Nat, n \in N PROVE n + 1 \in N
  <2> SUFFICES ASSUME NEW s \in Seq(T), Len(s) = n + 1 PROVE s \in P
    OBVIOUS
  <2>1. PICK r \in Seq(T), x \in T : s = Append(r, x) /\ Len(s) = Len(r) + 1
    BY LastOne
  <2>2. Len(r) = n
    BY <2>1
  <2>3. r \in P
    BY <1>2, <2>2
  <2> QED BY <2>1, <2>3
<1> HIDE DEF N
<1>3. \A n \in Nat : n \in N
  BY <1>1, <1>2, InductionOn
<1> QED BY <1>3 DEF N

-----------------------------------------------------------------------------
(* Reduce.                                                                  *)

(* f is what op makes of b along s.                                         *)
Runs(f, op, b, s) ==
    f[0] = b /\ \A k \in 1 .. Len(s) : f[k] = op[<<f[k - 1], s[k]>>]
RunOf(f, A, E, op, b, s) ==
    /\ op \in [A \X E -> A] /\ b \in A /\ s \in Seq(E)
    /\ f \in [0 .. Len(s) -> A] /\ Runs(f, op, b, s)
Reduced(A, E, op, b, s) ==
    \E f : RunOf(f, A, E, op, b, s) /\ Reduce(op, b, s) = f[Len(s)]
Runnable(A, op, b, s) == \E f \in [0 .. Len(s) -> A] : Runs(f, op, b, s)

LEMMA RunExists ==
  ASSUME NEW A, NEW E, NEW op \in [A \X E -> A], NEW b \in A, NEW s \in Seq(E)
  PROVE  Runnable(A, op, b, s)
<1> DEFINE P == {r \in Seq(E) : Runnable(A, op, b, r)}
<1>1. <<>> \in P
  <2> DEFINE g == [k \in 0 .. 0 |-> b]
  <2>1. g \in [0 .. 0 -> A] /\ g[0] = b /\ 1 .. 0 = {} /\ Len(<<>>) = 0 /\ <<>> \in Seq(E)
    OBVIOUS
  <2> HIDE DEF g
  <2>2. Runs(g, op, b, <<>>)
    BY <2>1 DEF Runs
  <2> QED BY <2>1, <2>2 DEF Runnable
<1>2. ASSUME NEW r \in Seq(E), NEW x \in E, r \in P PROVE Append(r, x) \in P
  <2>1. PICK f \in [0 .. Len(r) -> A] : Runs(f, op, b, r)
    BY <1>2 DEF Runnable
  <2> DEFINE n == Len(r)
             s1 == Append(r, x)
             v == op[<<f[n], x>>]
             g == [k \in 0 .. n + 1 |-> IF k = n + 1 THEN v ELSE f[k]]
  <2>2. n \in Nat /\ s1 \in Seq(E) /\ Len(s1) = n + 1 /\ s1[n + 1] = x
        /\ \A k \in 1 .. n : s1[k] = r[k]
    BY AppendFacts
  <2>3. v \in A
    BY <2>2
  <2>4. /\ g \in [0 .. n + 1 -> A] /\ g[n + 1] = v
        /\ \A k \in 0 .. n : g[k] = f[k]
    <3> HIDE DEF v, n
    <3> QED BY <2>2, <2>3
  <2>5. g[0] = b
    BY <2>1, <2>2, <2>4 DEF Runs
  <2>6. ASSUME NEW k \in 1 .. n + 1 PROVE g[k] = op[<<g[k - 1], s1[k]>>]
    <3> HIDE DEF g, s1
    <3>1. CASE k = n + 1
      <4>1. g[k - 1] = f[n]
        BY <2>2, <2>4, <3>1
      <4> QED BY <2>2, <2>4, <3>1, <4>1
    <3>2. CASE k \in 1 .. n
      <4>1. g[k] = f[k] /\ g[k - 1] = f[k - 1] /\ s1[k] = r[k]
        BY <2>2, <2>4, <3>2
      <4> QED BY <2>1, <3>2, <4>1 DEF Runs
    <3> QED BY <2>2, <3>1, <3>2
  <2> HIDE DEF g, n, s1
  <2>7. Runs(g, op, b, s1)
    BY <2>2, <2>5, <2>6 DEF Runs
  <2>8. g \in [0 .. Len(s1) -> A]
    BY <2>2, <2>4
  <2>9. s1 \in P
    BY <2>2, <2>7, <2>8 DEF Runnable
  <2> QED BY <2>9 DEF s1
<1> HIDE DEF P
<1>3. \A r \in Seq(E) : r \in P
  BY <1>1, <1>2, SequencesOn
<1> QED BY <1>3 DEF P

LEMMA ReduceRuns ==
  ASSUME NEW A, NEW E, NEW op \in [A \X E -> A], NEW b \in A, NEW s \in Seq(E)
  PROVE  Reduced(A, E, op, b, s)
<1> DEFINE Step(f, n) == IF n = 0 THEN b ELSE op[<<f[n - 1], s[n]>>]
           so == CHOOSE f : f = [n \in 0 .. Len(s) |-> Step(f, n)]
<1>1. Len(s) \in Nat
  OBVIOUS
<1>2. PICK f \in [0 .. Len(s) -> A] : Runs(f, op, b, s)
  BY RunExists, Zenon DEF Runnable
<1>3. f = [n \in 0 .. Len(s) |-> Step(f, n)]
  <2>1. \A n \in 0 .. Len(s) : f[n] = Step(f, n)
    BY <1>1, <1>2 DEF Runs
  <2> HIDE DEF Step
  <2> QED BY <2>1
<1>4. so = [n \in 0 .. Len(s) |-> Step(so, n)]
  <2> HIDE DEF Step
  <2> QED BY <1>3
<1>5. Reduce(op, b, s) = so[Len(s)]
  BY DEF Reduce
<1> HIDE DEF so
<1>6. Runs(so, op, b, s)
  <2>1. \A n \in 0 .. Len(s) : so[n] = Step(so, n)
    <3> HIDE DEF Step
    <3> QED BY <1>4
  <2>2. so[0] = b
    BY <1>1, <2>1
  <2>3. ASSUME NEW k \in 1 .. Len(s) PROVE so[k] = op[<<so[k - 1], s[k]>>]
    <3>1. k \in 0 .. Len(s) /\ k # 0
      BY <1>1
    <3>2. so[k] = Step(so, k)
      BY <2>1, <3>1
    <3> QED BY <3>1, <3>2
  <2> QED BY <2>2, <2>3 DEF Runs
<1> DEFINE N == {n \in Nat : n <= Len(s) => so[n] = f[n]}
<1>7. 0 \in N
  BY <1>2, <1>6 DEF Runs
<1>8. ASSUME NEW n \in Nat, n \in N PROVE n + 1 \in N
  <2> SUFFICES ASSUME n + 1 <= Len(s) PROVE so[n + 1] = f[n + 1]
    OBVIOUS
  <2>1. n + 1 \in 1 .. Len(s) /\ (n + 1) - 1 = n /\ so[n] = f[n]
    BY <1>1, <1>8
  <2> QED BY <1>2, <1>6, <2>1 DEF Runs
<1> HIDE DEF N
<1>9. \A n \in Nat : n \in N
  BY <1>7, <1>8, InductionOn
<1>10. so[Len(s)] = f[Len(s)]
  BY <1>1, <1>9 DEF N
<1>11. RunOf(f, A, E, op, b, s)
  BY <1>2 DEF RunOf
<1> QED BY <1>5, <1>10, <1>11 DEF Reduced

LEMMA ReduceType ==
  ASSUME NEW A, NEW E, NEW op \in [A \X E -> A], NEW b \in A, NEW s \in Seq(E)
  PROVE  Reduce(op, b, s) \in A
<1>1. PICK f : RunOf(f, A, E, op, b, s) /\ Reduce(op, b, s) = f[Len(s)]
  <2>1. Reduced(A, E, op, b, s)
    BY ReduceRuns, Zenon
  <2> QED BY <2>1 DEF Reduced
<1> QED BY <1>1 DEF RunOf

LEMMA ReduceEmpty ==
  ASSUME NEW A, NEW E, NEW op \in [A \X E -> A], NEW b \in A
  PROVE  Reduce(op, b, <<>>) = b
<1>1. <<>> \in Seq(E) /\ Len(<<>>) = 0
  OBVIOUS
<1>2. PICK f : RunOf(f, A, E, op, b, <<>>) /\ Reduce(op, b, <<>>) = f[Len(<<>>)]
  <2>1. Reduced(A, E, op, b, <<>>)
    BY <1>1, ReduceRuns, Zenon
  <2> QED BY <2>1 DEF Reduced
<1> QED BY <1>1, <1>2 DEF RunOf, Runs

(* Two runs along the same elements are equal as far as both go.            *)
Wider(A, E, op, D, F, oq) == A \subseteq D /\ E \subseteq F /\ \A p \in A \X E : oq[p] = op[p]
Begins(s, t) == Len(s) <= Len(t) /\ \A k \in 1 .. Len(s) : t[k] = s[k]

LEMMA RunsAgree ==
  ASSUME NEW A, NEW E, NEW op, NEW D, NEW F, NEW oq, NEW b, NEW s, NEW t, NEW f, NEW g,
         RunOf(f, A, E, op, b, s), RunOf(g, D, F, oq, b, t),
         Wider(A, E, op, D, F, oq), Begins(s, t)
  PROVE  g[Len(s)] = f[Len(s)]
<1> DEFINE N == {n \in Nat : n <= Len(s) => g[n] = f[n]}
<1>0. /\ Len(s) \in Nat /\ Len(t) \in Nat /\ Len(s) <= Len(t)
      /\ \A k \in 1 .. Len(s) : t[k] = s[k] /\ s[k] \in E
      /\ \A n \in 0 .. Len(s) : f[n] \in A
  BY DEF RunOf, Begins
<1>1. 0 \in N
  BY DEF RunOf, Runs
<1>2. ASSUME NEW n \in Nat, n \in N PROVE n + 1 \in N
  <2> SUFFICES ASSUME n + 1 <= Len(s) PROVE g[n + 1] = f[n + 1]
    OBVIOUS
  <2>1. /\ n + 1 \in 1 .. Len(s) /\ n + 1 \in 1 .. Len(t) /\ (n + 1) - 1 = n
        /\ n \in 0 .. Len(s) /\ g[n] = f[n]
    BY <1>0, <1>2
  <2>2. t[n + 1] = s[n + 1] /\ f[n] \in A /\ s[n + 1] \in E
    BY <1>0, <2>1
  <2>3. f[n + 1] = op[<<f[n], s[n + 1]>>] /\ g[n + 1] = oq[<<f[n], s[n + 1]>>]
    BY <2>1, <2>2 DEF RunOf, Runs
  <2>4. oq[<<f[n], s[n + 1]>>] = op[<<f[n], s[n + 1]>>]
    BY <2>2 DEF Wider
  <2> QED BY <2>3, <2>4
<1> HIDE DEF N
<1>3. \A n \in Nat : n \in N
  BY <1>1, <1>2, InductionOn
<1> QED BY <1>0, <1>3 DEF N

(* A larger domain changes nothing.                                         *)
SameResult(op, oq, b, s) == Reduce(oq, b, s) = Reduce(op, b, s)
LEMMA ReduceAgrees ==
  ASSUME NEW A, NEW E, NEW op \in [A \X E -> A], NEW D, NEW F, NEW oq \in [D \X F -> D],
         NEW b \in A, NEW s \in Seq(E), Wider(A, E, op, D, F, oq)
  PROVE  SameResult(op, oq, b, s)
<1>1. s \in Seq(F) /\ b \in D /\ Len(s) \in Nat
  BY DEF Wider
<1>2. PICK f : RunOf(f, A, E, op, b, s) /\ Reduce(op, b, s) = f[Len(s)]
  <2>1. Reduced(A, E, op, b, s)
    BY ReduceRuns, Zenon
  <2> QED BY <2>1 DEF Reduced
<1>3. PICK g : RunOf(g, D, F, oq, b, s) /\ Reduce(oq, b, s) = g[Len(s)]
  <2>1. Reduced(D, F, oq, b, s)
    BY <1>1, ReduceRuns, Zenon
  <2> QED BY <2>1 DEF Reduced
<1>4. Begins(s, s)
  BY <1>1 DEF Begins
<1>5. g[Len(s)] = f[Len(s)]
  BY <1>2, <1>3, <1>4, RunsAgree
<1> QED BY <1>2, <1>3, <1>5 DEF SameResult

StepsOn(op, b, s, x) == Reduce(op, b, Append(s, x)) = op[<<Reduce(op, b, s), x>>]
LEMMA ReduceAppend ==
  ASSUME NEW A, NEW E, NEW op \in [A \X E -> A], NEW b \in A, NEW s \in Seq(E), NEW x \in E
  PROVE  StepsOn(op, b, s, x)
<1> DEFINE t == Append(s, x)
<1>1. /\ t \in Seq(E) /\ Len(s) \in Nat /\ Len(t) = Len(s) + 1 /\ t[Len(s) + 1] = x
      /\ \A k \in 1 .. Len(s) : t[k] = s[k]
  BY AppendFacts
<1> HIDE DEF t
<1>2. PICK f : RunOf(f, A, E, op, b, s) /\ Reduce(op, b, s) = f[Len(s)]
  <2>1. Reduced(A, E, op, b, s)
    BY ReduceRuns, Zenon
  <2> QED BY <2>1 DEF Reduced
<1>3. PICK g : RunOf(g, A, E, op, b, t) /\ Reduce(op, b, t) = g[Len(t)]
  <2>1. Reduced(A, E, op, b, t)
    BY <1>1, ReduceRuns, Zenon
  <2> QED BY <2>1 DEF Reduced
<1>4. Begins(s, t) /\ Wider(A, E, op, A, E, op)
  BY <1>1 DEF Begins, Wider
<1>5. g[Len(s)] = f[Len(s)]
  BY <1>2, <1>3, <1>4, RunsAgree
<1>6. g[Len(t)] = op[<<g[Len(s)], x>>]
  BY <1>1, <1>3 DEF RunOf, Runs
<1> QED BY <1>2, <1>3, <1>5, <1>6 DEF t, StepsOn

-----------------------------------------------------------------------------
(* Only and Without.                                                        *)
Kept(T, S) ==
    [p \in Seq(T) \X T |-> IF p[2] \in S THEN Append(p[1], p[2]) ELSE p[1]]

LEMMA ElementsOf ==
  ASSUME NEW T, NEW s \in Seq(T)
  PROVE  /\ Elements(s) \subseteq T /\ s \in Seq(Elements(s))
         /\ \A x : x \in Elements(s) <=> \E k \in 1 .. Len(s) : s[k] = x
<1>1. Len(s) \in Nat /\ DOMAIN s = 1 .. Len(s) /\ \A k \in 1 .. Len(s) : s[k] \in T
  OBVIOUS
<1>2. s = [k \in 1 .. Len(s) |-> s[k]]
  OBVIOUS
<1>3. s \in Seq(Elements(s))
  BY <1>1, <1>2 DEF Elements
<1> QED BY <1>1, <1>3 DEF Elements

LEMMA KeptType == \A T, S : Kept(T, S) \in [Seq(T) \X T -> Seq(T)]
  BY DEF Kept

LEMMA OnlyIsKept ==
  ASSUME NEW T, NEW s \in Seq(T), NEW S PROVE Only(s, S) = Reduce(Kept(T, S), <<>>, s)
<1> DEFINE E == Elements(s)
<1>1. E \subseteq T /\ s \in Seq(E) /\ <<>> \in Seq(E)
  BY ElementsOf
<1>2. Only(s, S) = Reduce(Kept(E, S), <<>>, s)
  BY DEF Only, Kept
<1> HIDE DEF E
<1>3. Wider(Seq(E), E, Kept(E, S), Seq(T), T, Kept(T, S))
  <2>1. Seq(E) \subseteq Seq(T)
    BY <1>1
  <2> QED BY <1>1, <2>1 DEF Wider, Kept
<1>4. /\ Kept(E, S) \in [Seq(E) \X E -> Seq(E)] /\ Kept(T, S) \in [Seq(T) \X T -> Seq(T)]
  BY KeptType
<1>5. Reduce(Kept(T, S), <<>>, s) = Reduce(Kept(E, S), <<>>, s)
  <2>1. SameResult(Kept(E, S), Kept(T, S), <<>>, s)
    BY <1>1, <1>3, <1>4, ReduceAgrees, Zenon
  <2> QED BY <2>1 DEF SameResult
<1> QED BY <1>2, <1>5

LEMMA OnlyType == ASSUME NEW T, NEW s \in Seq(T), NEW S PROVE Only(s, S) \in Seq(T)
<1>1. <<>> \in Seq(T)
  OBVIOUS
<1>2. Kept(T, S) \in [Seq(T) \X T -> Seq(T)]
  BY KeptType
<1>3. Reduce(Kept(T, S), <<>>, s) \in Seq(T)
  BY <1>1, <1>2, ReduceType, Zenon
<1> QED BY <1>3, OnlyIsKept

LEMMA OnlyEmpty == \A S : Only(<<>>, S) = <<>>
<1> SUFFICES ASSUME NEW S PROVE Only(<<>>, S) = <<>>
  OBVIOUS
<1>1. <<>> \in Seq({}) /\ <<>> \in Seq(Seq({}))
  OBVIOUS
<1>2. Kept({}, S) \in [Seq({}) \X {} -> Seq({})]
  BY KeptType
<1>3. Reduce(Kept({}, S), <<>>, <<>>) = <<>>
  BY <1>1, <1>2, ReduceEmpty, Zenon
<1> QED BY <1>1, <1>3, OnlyIsKept

LEMMA OnlyAppend ==
  ASSUME NEW T, NEW s \in Seq(T), NEW x \in T, NEW S
  PROVE  Only(Append(s, x), S) = IF x \in S THEN Append(Only(s, S), x) ELSE Only(s, S)
<1>1. <<>> \in Seq(T) /\ Append(s, x) \in Seq(T)
  OBVIOUS
<1>2. Reduce(Kept(T, S), <<>>, Append(s, x)) = Kept(T, S)[<<Reduce(Kept(T, S), <<>>, s), x>>]
  <2>1. Kept(T, S) \in [Seq(T) \X T -> Seq(T)]
    BY KeptType
  <2>2. StepsOn(Kept(T, S), <<>>, s, x)
    BY <1>1, <2>1, ReduceAppend, Zenon
  <2> QED BY <2>2 DEF StepsOn
<1>3. Only(s, S) \in Seq(T)
  BY OnlyType
<1>4. Only(Append(s, x), S) = Kept(T, S)[<<Only(s, S), x>>]
  BY <1>1, <1>2, OnlyIsKept
<1> HIDE DEF Only
<1> QED BY <1>3, <1>4 DEF Kept

LEMMA ElementsAppend ==
  ASSUME NEW T, NEW s \in Seq(T), NEW x \in T
  PROVE  Elements(Append(s, x)) = Elements(s) \cup {x}
<1>1. /\ Append(s, x) \in Seq(T) /\ Len(Append(s, x)) = Len(s) + 1 /\ Len(s) \in Nat
      /\ Append(s, x)[Len(s) + 1] = x /\ \A k \in 1 .. Len(s) : Append(s, x)[k] = s[k]
      /\ DOMAIN s = 1 .. Len(s)
  BY AppendFacts
<1>2. DOMAIN Append(s, x) = (1 .. Len(s)) \cup {Len(s) + 1}
  BY <1>1
<1> QED BY <1>1, <1>2 DEF Elements

LEMMA ElementsEmpty == Elements(<<>>) = {}
  BY DEF Elements

LEMMA OnlyElements ==
  ASSUME NEW T, NEW S
  PROVE  \A s \in Seq(T) : Elements(Only(s, S)) = Elements(s) \cap S
<1> DEFINE P == {s \in Seq(T) : Elements(Only(s, S)) = Elements(s) \cap S}
<1>1. <<>> \in P
  BY OnlyEmpty, ElementsEmpty
<1>2. ASSUME NEW s \in Seq(T), NEW x \in T, s \in P PROVE Append(s, x) \in P
  <2>1. Only(s, S) \in Seq(T) /\ Elements(Only(s, S)) = Elements(s) \cap S
    BY <1>2, OnlyType
  <2>2. Elements(Append(s, x)) = Elements(s) \cup {x}
        /\ Elements(Append(Only(s, S), x)) = Elements(Only(s, S)) \cup {x}
    BY <2>1, ElementsAppend
  <2>3. Only(Append(s, x), S) = IF x \in S THEN Append(Only(s, S), x) ELSE Only(s, S)
    BY OnlyAppend
  <2>4. Elements(Only(Append(s, x), S)) = Elements(Append(s, x)) \cap S
    BY <2>1, <2>2, <2>3
  <2>5. Append(s, x) \in Seq(T)
    OBVIOUS
  <2> QED BY <2>4, <2>5
<1> HIDE DEF P
<1>3. \A s \in Seq(T) : s \in P
  BY <1>1, <1>2, SequencesOn
<1> QED BY <1>3 DEF P

LEMMA DistinctAppend ==
  ASSUME NEW T, NEW s \in Seq(T), NEW x \in T
  PROVE  Distinct(Append(s, x)) <=> Distinct(s) /\ x \notin Elements(s)
<1>1. /\ Append(s, x) \in Seq(T) /\ Len(Append(s, x)) = Len(s) + 1 /\ Len(s) \in Nat
      /\ Append(s, x)[Len(s) + 1] = x /\ \A k \in 1 .. Len(s) : Append(s, x)[k] = s[k]
      /\ DOMAIN s = 1 .. Len(s)
  BY AppendFacts
<1>2. DOMAIN Append(s, x) = (1 .. Len(s)) \cup {Len(s) + 1}
  BY <1>1
<1> QED BY <1>1, <1>2 DEF Elements, Distinct

LEMMA DistinctEmpty == Distinct(<<>>)
  BY DEF Distinct

LEMMA OnlyDistinct ==
  ASSUME NEW T, NEW S
  PROVE  \A s \in Seq(T) : Distinct(s) => Distinct(Only(s, S))
<1> DEFINE P == {s \in Seq(T) : Distinct(s) => Distinct(Only(s, S))}
<1>1. <<>> \in P
  BY OnlyEmpty, DistinctEmpty
<1>2. ASSUME NEW s \in Seq(T), NEW x \in T, s \in P PROVE Append(s, x) \in P
  <2>1. Only(s, S) \in Seq(T) /\ Elements(Only(s, S)) = Elements(s) \cap S
    BY OnlyType, OnlyElements
  <2>2. Distinct(Append(s, x)) <=> Distinct(s) /\ x \notin Elements(s)
    BY DistinctAppend
  <2>3. Distinct(Append(Only(s, S), x)) <=> Distinct(Only(s, S)) /\ x \notin Elements(Only(s, S))
    BY <2>1, DistinctAppend
  <2>4. Only(Append(s, x), S) = IF x \in S THEN Append(Only(s, S), x) ELSE Only(s, S)
    BY OnlyAppend
  <2>5. Distinct(Append(s, x)) => Distinct(Only(Append(s, x), S))
    BY <1>2, <2>1, <2>2, <2>3, <2>4
  <2>6. Append(s, x) \in Seq(T)
    OBVIOUS
  <2> QED BY <2>5, <2>6
<1> HIDE DEF P
<1>3. \A s \in Seq(T) : s \in P
  BY <1>1, <1>2, SequencesOn
<1> QED BY <1>3 DEF P

LEMMA WithoutFacts ==
  ASSUME NEW T, NEW s \in Seq(T), NEW e
  PROVE  /\ Without(s, e) \in Seq(T) /\ Elements(Without(s, e)) = Elements(s) \ {e}
         /\ Distinct(s) => Distinct(Without(s, e))
  BY OnlyType, OnlyElements, OnlyDistinct DEF Without

(* What Only does at the front of the list.                                 *)
LEMMA OnlyFront ==
  ASSUME NEW T, NEW S, NEW x \in T
  PROVE  \A s \in Seq(T) :
            Only(<<x>> \o s, S) = IF x \in S THEN <<x>> \o Only(s, S) ELSE Only(s, S)
<1> DEFINE P == {s \in Seq(T) :
                   Only(<<x>> \o s, S) = IF x \in S THEN <<x>> \o Only(s, S) ELSE Only(s, S)}
<1>1. <<>> \in P
  <2>1. <<x>> \o <<>> = Append(<<>>, x) /\ <<x>> = Append(<<>>, x) /\ <<>> \in Seq(T)
    OBVIOUS
  <2>2. Only(Append(<<>>, x), S) = IF x \in S THEN Append(<<>>, x) ELSE <<>>
    <3>1. Only(Append(<<>>, x), S) = IF x \in S THEN Append(Only(<<>>, S), x) ELSE Only(<<>>, S)
      BY <2>1, OnlyAppend, Zenon
    <3> QED BY <3>1, OnlyEmpty
  <2>3. Only(<<>>, S) = <<>>
    BY OnlyEmpty
  <2>4. Only(<<x>> \o <<>>, S) = IF x \in S THEN <<x>> \o Only(<<>>, S) ELSE Only(<<>>, S)
    BY <2>1, <2>2, <2>3
  <2> QED BY <2>1, <2>4
<1>2. ASSUME NEW s \in Seq(T), NEW y \in T, s \in P PROVE Append(s, y) \in P
  <2>1. /\ <<x>> \o s \in Seq(T) /\ Append(s, y) \in Seq(T)
        /\ <<x>> \o Append(s, y) = Append(<<x>> \o s, y)
    OBVIOUS
  <2>2. Only(s, S) \in Seq(T)
    BY OnlyType
  <2>3. <<x>> \o Append(Only(s, S), y) = Append(<<x>> \o Only(s, S), y)
    BY <2>2
  <2>4. Only(Append(<<x>> \o s, y), S) = IF y \in S THEN Append(Only(<<x>> \o s, S), y)
                                         ELSE Only(<<x>> \o s, S)
    BY <2>1, OnlyAppend
  <2>5. Only(Append(s, y), S) = IF y \in S THEN Append(Only(s, S), y) ELSE Only(s, S)
    BY OnlyAppend
  <2>6. Only(<<x>> \o s, S) = IF x \in S THEN <<x>> \o Only(s, S) ELSE Only(s, S)
    BY <1>2
  <2>7. Only(<<x>> \o Append(s, y), S) = IF x \in S THEN <<x>> \o Only(Append(s, y), S)
                                          ELSE Only(Append(s, y), S)
    BY <2>1, <2>3, <2>4, <2>5, <2>6
  <2> QED BY <2>1, <2>7
<1> HIDE DEF P
<1>3. \A s \in Seq(T) : s \in P
  BY <1>1, <1>2, SequencesOn
<1> QED BY <1>3 DEF P

(* ... and when nothing is to be kept.                                      *)
LEMMA OnlyNone ==
  ASSUME NEW T, NEW S
  PROVE  \A s \in Seq(T) : Elements(s) \cap S = {} => Only(s, S) = <<>>
<1> DEFINE P == {s \in Seq(T) : Elements(s) \cap S = {} => Only(s, S) = <<>>}
<1>1. <<>> \in P
  BY OnlyEmpty
<1>2. ASSUME NEW s \in Seq(T), NEW x \in T, s \in P PROVE Append(s, x) \in P
  BY <1>2, OnlyAppend, ElementsAppend
<1> HIDE DEF P
<1>3. \A s \in Seq(T) : s \in P
  BY <1>1, <1>2, SequencesOn
<1> QED BY <1>3 DEF P

(* Only looks at no more than the list's elements.                          *)
LEMMA OnlySame ==
  ASSUME NEW T, NEW S, NEW R
  PROVE  \A s \in Seq(T) : Elements(s) \cap S = Elements(s) \cap R => Only(s, S) = Only(s, R)
<1> DEFINE P == {s \in Seq(T) : Elements(s) \cap S = Elements(s) \cap R
                                  => Only(s, S) = Only(s, R)}
<1>1. <<>> \in P
  BY OnlyEmpty
<1>2. ASSUME NEW s \in Seq(T), NEW x \in T, s \in P PROVE Append(s, x) \in P
  <2>1. Elements(Append(s, x)) = Elements(s) \cup {x}
    BY ElementsAppend
  <2>2. /\ Only(Append(s, x), S) = IF x \in S THEN Append(Only(s, S), x) ELSE Only(s, S)
        /\ Only(Append(s, x), R) = IF x \in R THEN Append(Only(s, R), x) ELSE Only(s, R)
    BY OnlyAppend
  <2>3. Append(s, x) \in Seq(T)
    OBVIOUS
  <2> QED BY <1>2, <2>1, <2>2, <2>3
<1> HIDE DEF P
<1>3. \A s \in Seq(T) : s \in P
  BY <1>1, <1>2, SequencesOn
<1> QED BY <1>3 DEF P

LEMMA WithoutIs ==
  ASSUME NEW T, NEW s \in Seq(T), NEW e PROVE Without(s, e) = Only(s, T \ {e})
<1>1. Elements(s) \cap (Elements(s) \ {e}) = Elements(s) \cap (T \ {e})
  BY ElementsOf
<1>2. Only(s, Elements(s) \ {e}) = Only(s, T \ {e})
  BY <1>1, OnlySame
<1> QED BY <1>2 DEF Without

LEMMA WithoutAppend ==
  ASSUME NEW T, NEW s \in Seq(T), NEW x \in T, NEW e
  PROVE  Without(Append(s, x), e) = IF x = e THEN Without(s, e) ELSE Append(Without(s, e), x)
<1>1. Append(s, x) \in Seq(T)
  OBVIOUS
<1>2. Without(s, e) = Only(s, T \ {e}) /\ Without(Append(s, x), e) = Only(Append(s, x), T \ {e})
  BY <1>1, WithoutIs
<1> QED BY <1>2, OnlyAppend

-----------------------------------------------------------------------------
(* Extended.                                                                *)
Adding(T, U) ==
    [p \in Seq(T) \X U |-> IF p[2] \in Elements(p[1]) THEN p[1] ELSE Append(p[1], p[2])]

LEMMA AddingType == \A T : \A U \in SUBSET T : Adding(T, U) \in [Seq(T) \X U -> Seq(T)]
  BY DEF Adding

LEMMA ExtendedIs ==
  ASSUME NEW T, NEW s \in Seq(T), NEW t \in Seq(T)
  PROVE  Extended(s, t) = Reduce(Adding(T, T), s, t)
<1> DEFINE U == Elements(t)
           V == Elements(s) \cup U
<1>1. V \subseteq T /\ U \subseteq T /\ U \subseteq V /\ t \in Seq(U) /\ s \in Seq(V)
  <2>1. s \in Seq(Elements(s)) /\ t \in Seq(U) /\ Elements(s) \subseteq T /\ U \subseteq T
    BY ElementsOf
  <2> QED BY <2>1
<1>2. Extended(s, t) = Reduce(Adding(V, U), s, t)
  BY DEF Extended, Adding
<1> HIDE DEF V, U
<1>3. Wider(Seq(V), U, Adding(V, U), Seq(T), T, Adding(T, T))
  <2>1. Seq(V) \subseteq Seq(T)
    BY <1>1
  <2> QED BY <1>1, <2>1 DEF Wider, Adding
<1>4. Adding(V, U) \in [Seq(V) \X U -> Seq(V)] /\ Adding(T, T) \in [Seq(T) \X T -> Seq(T)]
  BY <1>1, AddingType
<1>5. SameResult(Adding(V, U), Adding(T, T), s, t)
  BY <1>1, <1>3, <1>4, ReduceAgrees, Zenon
<1> QED BY <1>2, <1>5 DEF SameResult

LEMMA ExtendedType ==
  ASSUME NEW T, NEW s \in Seq(T), NEW t \in Seq(T) PROVE Extended(s, t) \in Seq(T)
<1>1. Adding(T, T) \in [Seq(T) \X T -> Seq(T)]
  BY AddingType
<1>2. Reduce(Adding(T, T), s, t) \in Seq(T)
  BY <1>1, ReduceType, Zenon
<1> QED BY <1>2, ExtendedIs

LEMMA ExtendedAppend ==
  ASSUME NEW T, NEW s \in Seq(T), NEW t \in Seq(T), NEW x \in T
  PROVE  Extended(s, Append(t, x)) =
            IF x \in Elements(Extended(s, t)) THEN Extended(s, t) ELSE Append(Extended(s, t), x)
<1>1. Adding(T, T) \in [Seq(T) \X T -> Seq(T)] /\ Append(t, x) \in Seq(T)
  <2>1. Append(t, x) \in Seq(T)
    OBVIOUS
  <2> QED BY <2>1, AddingType
<1>2. StepsOn(Adding(T, T), s, t, x)
  BY <1>1, ReduceAppend, Zenon
<1>3. Extended(s, Append(t, x)) = Adding(T, T)[<<Extended(s, t), x>>]
  BY <1>1, <1>2, ExtendedIs DEF StepsOn
<1> QED BY <1>3, ExtendedType DEF Adding

LEMMA ExtendedEmpty == ASSUME NEW T, NEW s \in Seq(T) PROVE Extended(s, <<>>) = s
<1>1. Adding(T, T) \in [Seq(T) \X T -> Seq(T)] /\ <<>> \in Seq(T)
  <2>1. <<>> \in Seq(T)
    OBVIOUS
  <2> QED BY <2>1, AddingType
<1>2. Reduce(Adding(T, T), s, <<>>) = s
  BY <1>1, ReduceEmpty, Zenon
<1> QED BY <1>1, <1>2, ExtendedIs

(* The new list holds what either held, and nothing twice.                  *)
LEMMA ExtendedFacts ==
  ASSUME NEW T, NEW s \in Seq(T)
  PROVE  \A t \in Seq(T) : /\ Elements(Extended(s, t)) = Elements(s) \cup Elements(t)
                           /\ Distinct(s) => Distinct(Extended(s, t))
<1> DEFINE P == {t \in Seq(T) : /\ Elements(Extended(s, t)) = Elements(s) \cup Elements(t)
                                /\ Distinct(s) => Distinct(Extended(s, t))}
<1>1. <<>> \in P
  BY ExtendedEmpty, ElementsEmpty
<1>2. ASSUME NEW t \in Seq(T), NEW x \in T, t \in P PROVE Append(t, x) \in P
  <2> DEFINE r == Extended(s, t)
  <2>1. r \in Seq(T) /\ Elements(r) = Elements(s) \cup Elements(t) /\ (Distinct(s) => Distinct(r))
    BY <1>2, ExtendedType
  <2>2. Extended(s, Append(t, x)) = IF x \in Elements(r) THEN r ELSE Append(r, x)
    BY ExtendedAppend
  <2> HIDE DEF r
  <2>3. Elements(Append(t, x)) = Elements(t) \cup {x}
        /\ Elements(Append(r, x)) = Elements(r) \cup {x}
    BY <2>1, ElementsAppend
  <2>4. Distinct(Append(r, x)) <=> Distinct(r) /\ x \notin Elements(r)
    BY <2>1, DistinctAppend
  <2>5. Append(t, x) \in Seq(T)
    OBVIOUS
  <2>6. Elements(Extended(s, Append(t, x))) = Elements(s) \cup Elements(Append(t, x))
    BY <2>1, <2>2, <2>3
  <2>7. Distinct(s) => Distinct(Extended(s, Append(t, x)))
    BY <2>1, <2>2, <2>4
  <2> QED BY <2>5, <2>6, <2>7
<1> HIDE DEF P
<1>3. \A t \in Seq(T) : t \in P
  BY <1>1, <1>2, SequencesOn
<1> QED BY <1>3 DEF P

-----------------------------------------------------------------------------
(* Sums.                                                                    *)
Adds(w, T) == [p \in Nat \X T |-> p[1] + w[p[2]]]

LEMMA AddsType == \A T : \A w \in [T -> Nat] : Adds(w, T) \in [Nat \X T -> Nat]
  BY DEF Adds

LEMMA SumIs ==
  ASSUME NEW T, NEW w \in [T -> Nat], NEW s \in Seq(T)
  PROVE  Sum(w, s) = Reduce(Adds(w, T), 0, s)
<1> DEFINE E == Elements(s)
<1>1. E \subseteq T /\ s \in Seq(E)
  BY ElementsOf
<1>2. Sum(w, s) = Reduce(Adds(w, E), 0, s)
  BY DEF Sum, Adds
<1> HIDE DEF E
<1>3. Wider(Nat, E, Adds(w, E), Nat, T, Adds(w, T))
  BY <1>1 DEF Wider, Adds
<1>4. Adds(w, E) \in [Nat \X E -> Nat] /\ Adds(w, T) \in [Nat \X T -> Nat] /\ 0 \in Nat
  BY <1>1, AddsType DEF Adds
<1>5. SameResult(Adds(w, E), Adds(w, T), 0, s)
  BY <1>1, <1>3, <1>4, ReduceAgrees, Zenon
<1> QED BY <1>2, <1>5 DEF SameResult

LEMMA SumType == ASSUME NEW T, NEW w \in [T -> Nat], NEW s \in Seq(T) PROVE Sum(w, s) \in Nat
<1>1. Adds(w, T) \in [Nat \X T -> Nat] /\ 0 \in Nat
  BY AddsType
<1>2. Reduce(Adds(w, T), 0, s) \in Nat
  BY <1>1, ReduceType, Zenon
<1> QED BY <1>2, SumIs

LEMMA SumEmpty == ASSUME NEW T, NEW w \in [T -> Nat] PROVE Sum(w, <<>>) = 0
<1>1. Adds(w, T) \in [Nat \X T -> Nat] /\ 0 \in Nat /\ <<>> \in Seq(T)
  BY AddsType
<1>2. Reduce(Adds(w, T), 0, <<>>) = 0
  BY <1>1, ReduceEmpty, Zenon
<1> QED BY <1>1, <1>2, SumIs

LEMMA SumAppend ==
  ASSUME NEW T, NEW w \in [T -> Nat], NEW s \in Seq(T), NEW x \in T
  PROVE  Sum(w, Append(s, x)) = Sum(w, s) + w[x]
<1>1. Adds(w, T) \in [Nat \X T -> Nat] /\ 0 \in Nat /\ Append(s, x) \in Seq(T)
  <2>1. Append(s, x) \in Seq(T)
    OBVIOUS
  <2> QED BY <2>1, AddsType
<1>2. StepsOn(Adds(w, T), 0, s, x)
  BY <1>1, ReduceAppend, Zenon
<1>3. Sum(w, Append(s, x)) = Adds(w, T)[<<Sum(w, s), x>>]
  BY <1>1, <1>2, SumIs DEF StepsOn
<1> QED BY <1>3, SumType DEF Adds

(* A list gets lighter by at least the weight of what is taken out of it,   *)
(* and not heavier when it was not there.                                   *)
LEMMA SumWithout ==
  ASSUME NEW T, NEW w \in [T -> Nat], NEW e \in T
  PROVE  \A s \in Seq(T) : /\ Sum(w, Without(s, e)) <= Sum(w, s)
                           /\ e \in Elements(s) => Sum(w, Without(s, e)) + w[e] <= Sum(w, s)
<1> DEFINE P == {s \in Seq(T) :
                    /\ Sum(w, Without(s, e)) <= Sum(w, s)
                    /\ e \in Elements(s) => Sum(w, Without(s, e)) + w[e] <= Sum(w, s)}
<1>1. <<>> \in P
  <2>1. Without(<<>>, e) = <<>> /\ Elements(<<>>) = {} /\ Sum(w, <<>>) = 0 /\ <<>> \in Seq(T)
    BY OnlyEmpty, ElementsEmpty, SumEmpty DEF Without
  <2> QED BY <2>1
<1>2. ASSUME NEW s \in Seq(T), NEW x \in T, s \in P PROVE Append(s, x) \in P
  <2>1. /\ Without(s, e) \in Seq(T) /\ Append(s, x) \in Seq(T)
        /\ Elements(Append(s, x)) = Elements(s) \cup {x}
    BY WithoutFacts, ElementsAppend
  <2>2. Sum(w, Append(s, x)) = Sum(w, s) + w[x] /\ Sum(w, s) \in Nat
    BY SumAppend, SumType
  <2>3. /\ Sum(w, Append(Without(s, e), x)) = Sum(w, Without(s, e)) + w[x]
        /\ Sum(w, Without(s, e)) \in Nat
    BY <2>1, SumAppend, SumType
  <2>4. Without(Append(s, x), e) = IF x = e THEN Without(s, e) ELSE Append(Without(s, e), x)
    BY WithoutAppend
  <2>5. w[x] \in Nat /\ w[e] \in Nat
    OBVIOUS
  <2>6. Sum(w, Without(s, e)) <= Sum(w, s)
        /\ (e \in Elements(s) => Sum(w, Without(s, e)) + w[e] <= Sum(w, s))
    BY <1>2
  <2>7. CASE x = e
    BY <2>1, <2>2, <2>3, <2>4, <2>5, <2>6, <2>7
  <2>8. CASE x # e
    <3>1. Sum(w, Without(Append(s, x), e)) = Sum(w, Without(s, e)) + w[x]
      BY <2>3, <2>4, <2>8
    <3>2. Sum(w, Without(Append(s, x), e)) <= Sum(w, Append(s, x))
      BY <2>2, <2>3, <2>5, <2>6, <3>1
    <3>3. ASSUME e \in Elements(Append(s, x))
          PROVE  Sum(w, Without(Append(s, x), e)) + w[e] <= Sum(w, Append(s, x))
      <4>1. e \in Elements(s)
        BY <2>1, <2>8, <3>3
      <4> QED BY <2>2, <2>3, <2>5, <2>6, <3>1, <4>1
    <3> QED BY <2>1, <3>2, <3>3
  <2> QED BY <2>7, <2>8
<1> HIDE DEF P
<1>3. \A s \in Seq(T) : s \in P
  BY <1>1, <1>2, SequencesOn
<1> QED BY <1>3 DEF P

(* A list without repetitions weighs no more than one that holds it all.    *)
LEMMA SumBounded ==
  ASSUME NEW T, NEW w \in [T -> Nat]
  PROVE  \A s \in Seq(T) : \A t \in Seq(T) :
            Distinct(s) /\ Elements(s) \subseteq Elements(t) => Sum(w, s) <= Sum(w, t)
<1> DEFINE P == {s \in Seq(T) : \A t \in Seq(T) :
                    Distinct(s) /\ Elements(s) \subseteq Elements(t) => Sum(w, s) <= Sum(w, t)}
<1>1. <<>> \in P
  <2>1. Sum(w, <<>>) = 0 /\ <<>> \in Seq(T) /\ \A t \in Seq(T) : Sum(w, t) \in Nat
    BY SumEmpty, SumType
  <2> QED BY <2>1
<1>2. ASSUME NEW s \in Seq(T), NEW x \in T, s \in P PROVE Append(s, x) \in P
  <2>1. Append(s, x) \in Seq(T)
    OBVIOUS
  <2>2. ASSUME NEW t \in Seq(T), Distinct(Append(s, x)), Elements(Append(s, x)) \subseteq Elements(t)
        PROVE  Sum(w, Append(s, x)) <= Sum(w, t)
    <3>1. Distinct(s) /\ x \notin Elements(s)
      BY <2>2, DistinctAppend
    <3>2. Elements(Append(s, x)) = Elements(s) \cup {x}
      BY ElementsAppend
    <3>3. Without(t, x) \in Seq(T) /\ Elements(Without(t, x)) = Elements(t) \ {x}
      BY WithoutFacts
    <3>4. Sum(w, s) <= Sum(w, Without(t, x))
      BY <1>2, <2>2, <3>1, <3>2, <3>3
    <3>5. Sum(w, Without(t, x)) + w[x] <= Sum(w, t)
      BY <2>2, <3>2, SumWithout
    <3>6. Sum(w, s) \in Nat /\ Sum(w, Without(t, x)) \in Nat /\ Sum(w, t) \in Nat /\ w[x] \in Nat
      BY <3>3, SumType
    <3>7. Sum(w, Append(s, x)) = Sum(w, s) + w[x]
      BY SumAppend
    <3> QED BY <3>4, <3>5, <3>6, <3>7
  <2> QED BY <2>1, <2>2
<1> HIDE DEF P
<1>3. \A s \in Seq(T) : s \in P
  BY <1>1, <1>2, SequencesOn
<1> QED BY <1>3 DEF P

LEMMA SumOnes ==
  ASSUME NEW T PROVE \A s \in Seq(T) : Sum([x \in T |-> 1], s) = Len(s)
<1> DEFINE w == [x \in T |-> 1]
           P == {s \in Seq(T) : Sum(w, s) = Len(s)}
<1>0. w \in [T -> Nat] /\ \A x \in T : w[x] = 1
  OBVIOUS
<1> HIDE DEF w
<1>1. <<>> \in P
  BY <1>0, SumEmpty
<1>2. ASSUME NEW s \in Seq(T), NEW x \in T, s \in P PROVE Append(s, x) \in P
  <2>1. Sum(w, Append(s, x)) = Sum(w, s) + w[x]
    BY <1>0, SumAppend
  <2> QED BY <1>0, <1>2, <2>1
<1> HIDE DEF P
<1>3. \A s \in Seq(T) : s \in P
  BY <1>1, <1>2, SequencesOn
<1> QED BY <1>3 DEF P, w

LEMMA LenBounded ==
  ASSUME NEW T, NEW s \in Seq(T), NEW t \in Seq(T), Distinct(s), Elements(s) \subseteq Elements(t)
  PROVE  Len(s) <= Len(t)
<1> DEFINE w == [x \in T |-> 1]
<1>1. w \in [T -> Nat] /\ Sum(w, s) = Len(s) /\ Sum(w, t) = Len(t)
  BY SumOnes
<1> HIDE DEF w
<1> QED BY <1>1, SumBounded

(* Only the weights of the list's elements count.                           *)
LEMMA SumSame ==
  ASSUME NEW T, NEW w \in [T -> Nat], NEW s \in Seq(T),
         NEW v \in [Elements(s) -> Nat], \A x \in Elements(s) : v[x] = w[x]
  PROVE  Sum(v, s) = Sum(w, s)
<1> DEFINE E == Elements(s)
<1>1. E \subseteq T /\ s \in Seq(E)
  BY ElementsOf
<1>2. [p \in Nat \X E |-> p[1] + v[p[2]]] = [p \in Nat \X E |-> p[1] + w[p[2]]]
  <2>1. \A p \in Nat \X E : p[1] + v[p[2]] = p[1] + w[p[2]]
    OBVIOUS
  <2> HIDE DEF E
  <2> QED BY <2>1
<1> QED BY <1>2 DEF Sum
=============================================================================
