------------------------ MODULE StreamGuard_proof ------------------------
(***************************************************************************)
(* Proofs about StreamGuard, for any channels, any texts and any way the   *)
(* backend cuts them.                                                      *)
(*                                                                         *)
(* The detector and the filter are functions of the text, so most of the   *)
(* work is inductions on the length of a text.  They are done with the     *)
(* least counterexample (Least), and the two recursive functions are first *)
(* shown to satisfy their equations (Recursion).                           *)
(*                                                                         *)
(* In the order of the module: sequences; the filter, of which what is     *)
(* held and the next piece together are scanned as the whole text would    *)
(* be (FilterComposes); the detector, which with its look-behind reports   *)
(* of every piece what the whole text would make it report (Inspecting);   *)
(* the flow of one channel through both and the quarantine (Flow); the     *)
(* invariant GuardInv; one lemma for each operation; the theorems.         *)
(***************************************************************************)
EXTENDS StreamGuard, WellFoundedInduction, SequenceTheorems, TLAPS

-----------------------------------------------------------------------------
(* Induction.                                                               *)

(***************************************************************************)
(* A nonempty set of naturals has a least element.                         *)
(***************************************************************************)
LEMMA Least ==
  ASSUME NEW T, T \subseteq Nat, T # {}
  PROVE  \E x \in T : \A y \in T : x <= y
<1> DEFINE R == {ss \in Nat \X Nat : ss[1] < ss[2]}
<1>1. IsWellFoundedOn(R, Nat)
  BY NatLessThanWellFounded DEF OpToRel
<1> HIDE DEF R
<1>2. PICK x \in T : \A y \in T : ~ (<<y, x>> \in R)
  BY <1>1, WFMin
<1>3. \A y \in T : ~(y < x)
  BY <1>2 DEF R
<1> QED
  BY <1>3

(***************************************************************************)
(* A nonempty set of naturals with an upper bound has a greatest element.  *)
(***************************************************************************)
LEMMA Greatest ==
  ASSUME NEW T, T \subseteq Nat, T # {}, NEW b \in Nat, \A x \in T : x <= b
  PROVE  \E x \in T : \A y \in T : y <= x
<1> DEFINE U == {n \in Nat : b - n \in T}
<1>1. \A y \in T : b - y \in U
  <2> SUFFICES ASSUME NEW y \in T PROVE b - y \in U
    OBVIOUS
  <2>1. y \in Nat /\ y <= b
    OBVIOUS
  <2>2. b - y \in Nat /\ b - (b - y) = y
    BY <2>1
  <2> QED
    BY <2>2
<1>2. U \subseteq Nat /\ U # {}
  BY <1>1
<1> HIDE DEF U
<1>3. PICK n \in U : \A m \in U : n <= m
  BY <1>2, Least
<1>4. \A y \in T : y <= b - n
  BY <1>1, <1>2, <1>3
<1>5. b - n \in T
  BY DEF U
<1> QED
  BY <1>4, <1>5

(***************************************************************************)
(* Of a nonempty set of things that have a size, one is as small as any:   *)
(* what fails for one of them fails for a smallest one.                    *)
(***************************************************************************)
LEMMA Smallest ==
  ASSUME NEW D, NEW size \in [D -> Nat], NEW T, T \subseteq D, T # {}
  PROVE  \E x \in T : \A y \in D : size[y] < size[x] => y \notin T
<1> DEFINE N == {n \in Nat : \E x \in T : n = size[x]}
<1>1. \A x \in T : size[x] \in N
  OBVIOUS
<1>2. N \subseteq Nat /\ N # {}
  BY <1>1
<1>3. \A n \in N : \E x \in T : n = size[x]
  OBVIOUS
<1> HIDE DEF N
<1>4. PICK n \in N : \A m \in N : n <= m
  BY <1>2, Least
<1>5. PICK x \in T : n = size[x]
  BY <1>3
<1>6. \A y \in T : ~(size[y] < size[x])
  BY <1>1, <1>4, <1>5
<1> QED
  BY <1>6

(***************************************************************************)
(* What fails for a text fails for a shortest one.                         *)
(***************************************************************************)
LEMMA Shortest ==
  ASSUME NEW S, NEW T, T \subseteq Seq(S), T # {}
  PROVE  \E x \in T : \A y \in Seq(S) : Len(y) < Len(x) => y \notin T
<1> DEFINE size == [x \in Seq(S) |-> Len(x)]
<1>1. size \in [Seq(S) -> Nat] /\ \A x \in Seq(S) : size[x] = Len(x)
  BY LenProperties
<1> HIDE DEF size
<1>2. PICK x \in T : \A y \in Seq(S) : size[y] < size[x] => y \notin T
  BY <1>1, Smallest
<1> QED
  BY <1>1, <1>2

(***************************************************************************)
(* The ordinary induction on the naturals, for a set.                      *)
(***************************************************************************)
LEMMA Counting ==
  ASSUME NEW T, 0 \in T, \A n \in Nat : n \in T => n + 1 \in T
  PROVE  Nat \subseteq T
<1>1. SUFFICES ASSUME Nat \ T # {} PROVE FALSE
  OBVIOUS
<1>2. PICK x \in Nat \ T : \A y \in Nat \ T : x <= y
  BY <1>1, Least
<1>3. x # 0 /\ x - 1 \in Nat /\ x - 1 \in T
  BY <1>2
<1> QED
  BY <1>2, <1>3

\* A recursion G asks only for things that are smaller than its argument;
\* a function is a solution of it.
Descends(D, size, V, G) ==
  \A x \in D, g, h \in [D -> V] :
    (\A y \in D : size[y] < size[x] => g[y] = h[y]) => G[<<x, g>>] = G[<<x, h>>]

Solutions(D, V, G) == {f \in [D -> V] : \A x \in D : f[x] = G[<<x, f>>]}

(***************************************************************************)
(* A recursion that asks only for smaller things has a solution.           *)
(***************************************************************************)
LEMMA Recursion ==
  ASSUME NEW D, NEW size \in [D -> Nat], NEW V, V # {},
         NEW G \in [D \X [D -> V] -> V],
         Descends(D, size, V, G)
  PROVE  Solutions(D, V, G) # {}
<1>0. \A x \in D, g, h \in [D -> V] :
       (\A y \in D : size[y] < size[x] => g[y] = h[y]) => G[<<x, g>>] = G[<<x, h>>]
  BY DEF Descends
<1> DEFINE F == [D -> V]
           Sol == [n \in Nat |-> {g \in F : \A x \in D : size[x] < n => g[x] = G[<<x, g>>]}]
           T == {n \in Nat : Sol[n] # {}}
<1>1. 0 \in T
  <2>1. PICK v \in V : TRUE
    OBVIOUS
  <2>2. [x \in D |-> v] \in Sol[0]
    OBVIOUS
  <2> QED
    BY <2>2
<1>2. ASSUME NEW n \in Nat, n \in T PROVE n + 1 \in T
  <2>1. PICK g \in F : \A x \in D : size[x] < n => g[x] = G[<<x, g>>]
    BY <1>2
  <2> DEFINE h == [x \in D |-> IF size[x] < n THEN g[x] ELSE G[<<x, g>>]]
  <2>2. h \in F
    OBVIOUS
  <2>3. \A x \in D : h[x] = G[<<x, g>>] /\ (size[x] < n => h[x] = g[x])
    BY <2>1
  <2> HIDE DEF h
  <2>4. ASSUME NEW x \in D, size[x] < n + 1 PROVE h[x] = G[<<x, h>>]
    <3>1. ASSUME NEW y \in D, size[y] < size[x] PROVE g[y] = h[y]
      <4>1. size[x] \in Nat /\ size[y] \in Nat
        OBVIOUS
      <4>2. size[y] < n
        BY <2>4, <3>1, <4>1
      <4> QED
        BY <2>3, <4>2
    <3>2. G[<<x, g>>] = G[<<x, h>>]
      BY <1>0, <2>2, <3>1
    <3> QED
      BY <2>3, <3>2
  <2>5. h \in Sol[n + 1]
    BY <2>2, <2>4
  <2> HIDE DEF Sol
  <2> QED
    BY <2>5
<1>3. Nat \subseteq T
  <2> HIDE DEF T
  <2> QED
    BY <1>1, <1>2, Counting
<1>4. ASSUME NEW n \in Nat, NEW m \in Nat, NEW g \in Sol[n], NEW h \in Sol[m],
             NEW x \in D, size[x] < n, size[x] < m
      PROVE  g[x] = h[x]
  <2>1. /\ g \in F /\ \A y \in D : size[y] < n => g[y] = G[<<y, g>>]
        /\ h \in F /\ \A y \in D : size[y] < m => h[y] = G[<<y, h>>]
    OBVIOUS
  <2> DEFINE U == {y \in D : size[y] < n /\ size[y] < m /\ g[y] # h[y]}
  <2>2. SUFFICES ASSUME U # {} PROVE FALSE
    BY <1>4
  <2>3. PICK y \in U : \A z \in D : size[z] < size[y] => z \notin U
    <3>1. U \subseteq D
      OBVIOUS
    <3>2. size \in [D -> Nat]
      OBVIOUS
    <3> HIDE DEF U, Sol, F, T
    <3> QED
      BY <2>2, <3>1, <3>2, Smallest
  <2>4. \A z \in D : size[z] < size[y] => g[z] = h[z]
    BY <2>3
  <2>5. G[<<y, g>>] = G[<<y, h>>]
    BY <1>0, <2>1, <2>4
  <2> QED
    BY <2>1, <2>3, <2>5
<1>5. \A n \in Nat : Sol[n] # {} /\ Sol[n] \subseteq F
  BY <1>3
<1>6. \A n \in Nat : \A g \in Sol[n] : \A x \in D : size[x] < n => g[x] = G[<<x, g>>]
  OBVIOUS
<1> HIDE DEF Sol, F
<1> DEFINE best == [x \in D |-> CHOOSE g : g \in Sol[size[x] + 1]]
           f == [x \in D |-> best[x][x]]
<1>7. \A x \in D : best[x] \in Sol[size[x] + 1]
  BY <1>5
<1> HIDE DEF best
<1>8. f \in F
  BY <1>5, <1>7 DEF F
<1>9. ASSUME NEW x \in D PROVE f[x] = G[<<x, f>>]
  <2>1. \A y \in D : size[y] < size[x] => best[y][y] = best[x][y]
    <3> SUFFICES ASSUME NEW y \in D, size[y] < size[x] PROVE best[y][y] = best[x][y]
      OBVIOUS
    <3>1. /\ size[y] < size[y] + 1 /\ size[y] < size[x] + 1
          /\ size[x] + 1 \in Nat /\ size[y] + 1 \in Nat
      OBVIOUS
    <3> QED
      BY <1>4, <1>7, <3>1
  <2>2. \A y \in D : size[y] < size[x] => f[y] = best[x][y]
    BY <2>1
  <2>3. best[x][x] = G[<<x, best[x]>>] /\ best[x] \in F
    <3>1. size[x] + 1 \in Nat /\ size[x] < size[x] + 1
      OBVIOUS
    <3> QED
      BY <1>5, <1>6, <1>7, <3>1
  <2>4. f[x] = best[x][x]
    OBVIOUS
  <2> HIDE DEF f
  <2>5. G[<<x, best[x]>>] = G[<<x, f>>]
    BY <1>0, <1>8, <2>2, <2>3 DEF F
  <2> QED
    BY <2>3, <2>4, <2>5
<1> QED
  BY <1>8, <1>9 DEF F, Solutions

-----------------------------------------------------------------------------
(* Texts.                                                                   *)

Take(t, n) == SubSeq(t, 1, n)
Drop(t, n) == SubSeq(t, n + 1, Len(t))

(***************************************************************************)
(* The two parts of a text that is cut.                                    *)
(***************************************************************************)
LEMMA Parts ==
  ASSUME NEW S, NEW t \in Seq(S), NEW n \in 0..Len(t)
  PROVE  /\ Take(t, n) \in Seq(S) /\ Len(Take(t, n)) = n
         /\ \A i \in 1..n : Take(t, n)[i] = t[i]
         /\ Drop(t, n) \in Seq(S) /\ Len(Drop(t, n)) = Len(t) - n
         /\ \A i \in 1..(Len(t) - n) : Drop(t, n)[i] = t[n + i]
         /\ Take(t, n) \o Drop(t, n) = t
<1>1. Len(t) \in Nat /\ \A i \in 1..Len(t) : t[i] \in S
  BY LenProperties, ElementOfSeq
<1>2. /\ SubSeq(t, 1, n) \in Seq(S)
      /\ Len(SubSeq(t, 1, n)) = IF 1 <= n THEN n - 1 + 1 ELSE 0
      /\ \A i \in 1..(n - 1 + 1) : SubSeq(t, 1, n)[i] = t[1 + i - 1]
  <2>1. 1 \in Int /\ n \in Int /\ \A i \in 1..n : t[i] \in S
    BY <1>1
  <2> QED
    BY <2>1, SubSeqProperties
<1>3. /\ SubSeq(t, n + 1, Len(t)) \in Seq(S)
      /\ Len(SubSeq(t, n + 1, Len(t))) = IF n + 1 <= Len(t) THEN Len(t) - (n + 1) + 1 ELSE 0
      /\ \A i \in 1..(Len(t) - (n + 1) + 1) : SubSeq(t, n + 1, Len(t))[i] = t[(n + 1) + i - 1]
  <2>1. n + 1 \in Int /\ Len(t) \in Int /\ \A i \in (n + 1)..Len(t) : t[i] \in S
    BY <1>1
  <2> QED
    BY <2>1, SubSeqProperties
<1>4. Take(t, n) \in Seq(S) /\ Len(Take(t, n)) = n /\ \A i \in 1..n : Take(t, n)[i] = t[i]
  BY <1>1, <1>2 DEF Take
<1>5. /\ Drop(t, n) \in Seq(S) /\ Len(Drop(t, n)) = Len(t) - n
      /\ \A i \in 1..(Len(t) - n) : Drop(t, n)[i] = t[n + i]
  BY <1>1, <1>3 DEF Drop
<1>6. Take(t, n) \o Drop(t, n) = t
  <2>1. Len(Take(t, n) \o Drop(t, n)) = Len(t)
    <3>1. Len(Take(t, n) \o Drop(t, n)) = Len(Take(t, n)) + Len(Drop(t, n))
      BY <1>4, <1>5, ConcatProperties
    <3> QED
      BY <1>1, <1>4, <1>5, <3>1
  <2>2. \A i \in 1..Len(t) : (Take(t, n) \o Drop(t, n))[i] = t[i]
    <3> TAKE i \in 1..Len(t)
    <3>1. (Take(t, n) \o Drop(t, n))[i]
            = IF i <= n THEN Take(t, n)[i] ELSE Drop(t, n)[i - n]
      BY <1>1, <1>4, <1>5, ConcatProperties
    <3>2. i > n => i - n \in 1..(Len(t) - n) /\ n + (i - n) = i
      BY <1>1
    <3> QED
      BY <1>1, <1>4, <1>5, <3>1, <3>2
  <2> QED
    BY <1>4, <1>5, <2>1, <2>2, ConcatProperties, SeqEqual
<1> QED
  BY <1>4, <1>5, <1>6

(***************************************************************************)
(* Two texts joined.                                                       *)
(***************************************************************************)
LEMMA Joined ==
  ASSUME NEW S, NEW s \in Seq(S), NEW t \in Seq(S)
  PROVE  /\ s \o t \in Seq(S) /\ Len(s \o t) = Len(s) + Len(t)
         /\ Len(s) \in Nat /\ Len(t) \in Nat
         /\ \A i \in 1..Len(s) : (s \o t)[i] = s[i]
         /\ \A i \in 1..Len(t) : (s \o t)[Len(s) + i] = t[i]
<1>1. Len(s) \in Nat /\ Len(t) \in Nat
  BY LenProperties
<1>2. \A i \in 1..Len(t) : /\ Len(s) + i \in 1..(Len(s) + Len(t))
                           /\ ~(Len(s) + i <= Len(s)) /\ (Len(s) + i) - Len(s) = i
  BY <1>1
<1>3. \A i \in 1..Len(t) : (s \o t)[Len(s) + i] = t[i]
  <2> TAKE i \in 1..Len(t)
  <2>1. (s \o t)[Len(s) + i] = t[(Len(s) + i) - Len(s)]
    BY <1>2, ConcatProperties
  <2> QED
    BY <1>2, <2>1
<1>4. \A i \in 1..Len(s) : (s \o t)[i] = s[i]
  BY <1>1, ConcatProperties
<1> QED
  BY <1>1, <1>3, <1>4, ConcatProperties

(***************************************************************************)
(* Cutting two joined texts within the first.                              *)
(***************************************************************************)
LEMMA JoinedParts ==
  ASSUME NEW S, NEW s \in Seq(S), NEW t \in Seq(S), NEW n \in 0..Len(s)
  PROVE  /\ Take(s \o t, n) = Take(s, n)
         /\ Drop(s \o t, n) = Drop(s, n) \o t
<1>1. /\ Len(s) \in Nat /\ Len(t) \in Nat
      /\ s \o t \in Seq(S) /\ Len(s \o t) = Len(s) + Len(t)
      /\ n \in 0..Len(s \o t)
  BY Joined
<1> DEFINE u == s \o t
<1> HIDE DEF u
<1>0. /\ u \in Seq(S) /\ Len(u) = Len(s) + Len(t) /\ n \in 0..Len(u)
      /\ \A i \in 1..Len(s) : u[i] = s[i]
      /\ \A i \in 1..Len(t) : u[Len(s) + i] = t[i]
  BY <1>1, Joined DEF u
<1>2. /\ Take(u, n) \in Seq(S) /\ Len(Take(u, n)) = n
      /\ \A i \in 1..n : Take(u, n)[i] = u[i]
      /\ Drop(u, n) \in Seq(S) /\ Len(Drop(u, n)) = Len(u) - n
      /\ \A i \in 1..(Len(u) - n) : Drop(u, n)[i] = u[n + i]
  BY <1>0, Parts
<1>3. Take(u, n) = Take(s, n)
  <2>1. Take(s, n) \in Seq(S) /\ Len(Take(s, n)) = n /\ \A i \in 1..n : Take(s, n)[i] = s[i]
    BY Parts
  <2>2. \A i \in 1..n : Take(u, n)[i] = Take(s, n)[i]
    <3> TAKE i \in 1..n
    <3>1. i \in 1..Len(s)
      BY <1>1
    <3>2. u[i] = s[i]
      BY <1>0, <3>1
    <3>3. Take(u, n)[i] = u[i]
      BY <1>2
    <3> QED
      BY <2>1, <3>2, <3>3
  <2> QED
    BY <1>2, <2>1, <2>2, SeqEqual
<1>4. Drop(s, n) \in Seq(S) /\ Len(Drop(s, n)) = Len(s) - n
  BY Parts
<1>5. /\ Drop(s, n) \o t \in Seq(S)
      /\ Len(Drop(s, n) \o t) = Len(s) - n + Len(t)
  BY <1>4, Joined
<1>6. \A i \in 1..(Len(s) + Len(t) - n) : Drop(u, n)[i] = (Drop(s, n) \o t)[i]
  <2> TAKE i \in 1..(Len(s) + Len(t) - n)
  <2>1. Drop(u, n)[i] = u[n + i]
    BY <1>0, <1>2
  <2>2. CASE i <= Len(s) - n
    <3>1. n + i \in 1..Len(s) /\ i \in 1..(Len(s) - n)
      BY <1>1, <2>2
    <3>2. u[n + i] = s[n + i]
      BY <1>0, <3>1
    <3>3. (Drop(s, n) \o t)[i] = Drop(s, n)[i]
      BY <1>4, <3>1, Joined
    <3>4. Drop(s, n)[i] = s[n + i]
      BY <3>1, Parts
    <3> QED
      BY <2>1, <3>2, <3>3, <3>4
  <2>3. CASE ~(i <= Len(s) - n)
    <3> DEFINE j == i - (Len(s) - n)
    <3>1. /\ j \in 1..Len(t) /\ n + i = Len(s) + j
          /\ i = Len(Drop(s, n)) + j
      BY <1>1, <1>4, <2>3
    <3> HIDE DEF j
    <3>2. u[Len(s) + j] = t[j]
      BY <1>0, <3>1
    <3>3. (Drop(s, n) \o t)[Len(Drop(s, n)) + j] = t[j]
      BY <1>4, <3>1, Joined
    <3> QED
      BY <2>1, <3>1, <3>2, <3>3
  <2> QED
    BY <2>2, <2>3
<1>7. Len(Drop(u, n)) = Len(Drop(s, n) \o t) /\ Len(Drop(u, n)) = Len(s) + Len(t) - n
  BY <1>0, <1>1, <1>2, <1>5
<1>8. Drop(u, n) = Drop(s, n) \o t
  BY <1>2, <1>5, <1>6, <1>7, SeqEqual
<1> QED
  BY <1>3, <1>8 DEF u

(***************************************************************************)
(* The first symbol of a text, and the others.                             *)
(***************************************************************************)
LEMMA FirstAndRest ==
  ASSUME NEW S, NEW t \in Seq(S), t # <<>>
  PROVE  /\ Len(t) \in Nat \ {0} /\ 1 \in 0..Len(t)
         /\ Head(t) = t[1] /\ t[1] \in S
         /\ Tail(t) \in Seq(S) /\ Len(Tail(t)) = Len(t) - 1
         /\ \A i \in 1..(Len(t) - 1) : Tail(t)[i] = t[1 + i]
         /\ Tail(t) = Drop(t, 1)
         /\ t = <<Head(t)>> \o Tail(t)
<1>1. Len(t) \in Nat \ {0}
  BY EmptySeq
<1>2. Head(t) = t[1] /\ t[1] \in S
  BY <1>1, ElementOfSeq
<1>3. Tail(t) \in Seq(S) /\ Len(Tail(t)) = Len(t) - 1
      /\ \A i \in 1..Len(Tail(t)) : Tail(t)[i] = t[i + 1]
  BY HeadTailProperties
<1>4. Tail(t) = Drop(t, 1)
  BY <1>1, TailIsSubSeq DEF Drop
<1>5. SubSeq(t, 1, Len(t)) = <<t[1]>> \o SubSeq(t, 1 + 1, Len(t))
  <2>1. 1 \in 1..Len(t) /\ Len(t) \in 1..Len(t)
    BY <1>1
  <2> QED
    BY <2>1, SubSeqRecursiveFirst
<1>6. t = <<Head(t)>> \o Tail(t)
  BY <1>2, <1>4, <1>5, SubSeqFull DEF Drop
<1> QED
  BY <1>1, <1>2, <1>3, <1>4, <1>6

(***************************************************************************)
(* A symbol before a text.                                                 *)
(***************************************************************************)
LEMMA Before ==
  ASSUME NEW S, NEW x \in S, NEW t \in Seq(S)
  PROVE  /\ <<x>> \in Seq(S) /\ <<x>> \o t \in Seq(S) /\ <<x>> \o t # <<>>
         /\ Len(t) \in Nat /\ Len(<<x>> \o t) = Len(t) + 1
         /\ (<<x>> \o t)[1] = x /\ Head(<<x>> \o t) = x /\ Tail(<<x>> \o t) = t
         /\ \A i \in 1..Len(t) : (<<x>> \o t)[1 + i] = t[i]
<1>1. <<x>> \in Seq(S) /\ Len(<<x>>) = 1 /\ <<x>>[1] = x
  OBVIOUS
<1>2. /\ <<x>> \o t \in Seq(S) /\ Len(t) \in Nat /\ Len(<<x>> \o t) = Len(t) + 1
      /\ (<<x>> \o t)[1] = x
      /\ \A i \in 1..Len(t) : (<<x>> \o t)[1 + i] = t[i]
  BY <1>1, Joined
<1>3. <<x>> \o t # <<>>
  BY <1>2, EmptySeq
<1>4. /\ Head(<<x>> \o t) = x
      /\ Tail(<<x>> \o t) \in Seq(S) /\ Len(Tail(<<x>> \o t)) = Len(t)
      /\ \A i \in 1..Len(t) : Tail(<<x>> \o t)[i] = (<<x>> \o t)[1 + i]
  BY <1>2, <1>3, FirstAndRest
<1>5. Tail(<<x>> \o t) = t
  BY <1>2, <1>4, SeqEqual
<1> QED
  BY <1>1, <1>2, <1>3, <1>4, <1>5

(***************************************************************************)
(* Of three sequences it does not matter which two are joined first.  The  *)
(* equation is named, so that a proof expands it for the ones it is about  *)
(* and for no others.                                                      *)
(***************************************************************************)
Associative(s, t, u) == (s \o t) \o u = s \o (t \o u)

LEMMA ThreeJoined ==
  ASSUME NEW S, NEW s \in Seq(S), NEW t \in Seq(S), NEW u \in Seq(S)
  PROVE  Associative(s, t, u)
<1>1. (s \o t) \o u = s \o (t \o u)
  BY ConcatAssociative
<1> QED
  BY <1>1 DEF Associative

(***************************************************************************)
(* Nothing before or after a text, and when a text is nothing.              *)
(***************************************************************************)
LEMMA Joining ==
  ASSUME NEW S, NEW s \in Seq(S), NEW t \in Seq(S)
  PROVE  /\ <<>> \in Seq(S) /\ Len(<<>>) = 0
         /\ s \o <<>> = s /\ <<>> \o s = s
         /\ s # <<>> => s \o t # <<>>
         /\ Len(s) \in Nat /\ (Len(s) = 0 => s = <<>>) /\ (s # <<>> => Len(s) > 0)
<1>1. <<>> \in Seq(S) /\ Len(<<>>) = 0
  BY EmptySeq
<1>2. s \o <<>> = s /\ <<>> \o s = s
  BY ConcatEmptySeq
<1>3. s # <<>> => s \o t # <<>>
  BY ConcatEqualIffEmpty
<1>4. Len(s) \in Nat /\ (Len(s) = 0 => s = <<>>) /\ (s # <<>> => Len(s) > 0)
  BY LenProperties, EmptySeq
<1> QED
  BY <1>1, <1>2, <1>3, <1>4

(***************************************************************************)
(* What Associative says, of the texts.                                    *)
(***************************************************************************)
LEMMA Associates ==
  \A s, t, u \in Texts : Associative(s, t, u)
<1> SUFFICES ASSUME NEW s \in Texts, NEW t \in Texts, NEW u \in Texts
             PROVE  Associative(s, t, u)
  OBVIOUS
<1> QED
  BY ThreeJoined DEF Texts

(***************************************************************************)
(* One text begins with the other where they agree as long as it goes.     *)
(***************************************************************************)
LEMMA PrefixPoints ==
  ASSUME NEW S, NEW R, NEW s \in Seq(S), NEW t \in Seq(R)
  PROVE  IsPrefix(s, t) <=> Len(s) <= Len(t) /\ \A i \in 1..Len(s) : s[i] = t[i]
<1>1. Len(s) \in Nat /\ Len(t) \in Nat
  BY LenProperties
<1>2. SUFFICES ASSUME Len(s) <= Len(t)
               PROVE  SubSeq(s, 1, Len(s)) = SubSeq(t, 1, Len(s))
                        <=> \A i \in 1..Len(s) : s[i] = t[i]
  BY DEF IsPrefix
<1>3. SubSeq(s, 1, Len(s)) = s
  BY SubSeqFull
<1>4. /\ Take(t, Len(s)) \in Seq(R) /\ Len(Take(t, Len(s))) = Len(s)
      /\ \A i \in 1..Len(s) : Take(t, Len(s))[i] = t[i]
  <2>1. Len(s) \in 0..Len(t)
    BY <1>1, <1>2
  <2> QED
    BY <2>1, Parts
<1>5. s \in Seq(S \cup R) /\ Take(t, Len(s)) \in Seq(S \cup R)
  BY <1>4, SeqMonotonic
<1>6. s = Take(t, Len(s)) <=> \A i \in 1..Len(s) : s[i] = t[i]
  <2>1. ASSUME s = Take(t, Len(s)), NEW i \in 1..Len(s) PROVE s[i] = t[i]
    BY <1>4, <2>1
  <2>2. ASSUME \A i \in 1..Len(s) : s[i] = t[i] PROVE s = Take(t, Len(s))
    BY <1>4, <1>5, <2>2, SeqEqual
  <2> QED
    BY <2>1, <2>2
<1> QED
  BY <1>3, <1>6 DEF Take

(***************************************************************************)
(* A text begins with each of its beginnings.                              *)
(***************************************************************************)
LEMMA PrefixJoined ==
  ASSUME NEW S, NEW s \in Seq(S), NEW t \in Seq(S)
  PROVE  IsPrefix(s, s \o t)
<1> DEFINE u == s \o t
<1>1. /\ u \in Seq(S) /\ Len(s) <= Len(u) /\ \A i \in 1..Len(s) : s[i] = u[i]
  BY Joined
<1> HIDE DEF u
<1>2. IsPrefix(s, u)
  BY <1>1, PrefixPoints
<1> QED
  BY <1>2 DEF u

(***************************************************************************)
(* What begins with a text is that text and more.                          *)
(***************************************************************************)
LEMMA PrefixRest ==
  ASSUME NEW S, NEW s \in Seq(S), NEW t \in Seq(S), IsPrefix(s, t)
  PROVE  \E u \in Seq(S) : t = s \o u
<1>1. Len(s) \in 0..Len(t)
  BY LenProperties DEF IsPrefix
<1>2. Take(t, Len(s)) = s
  BY SubSeqFull DEF IsPrefix, Take
<1> QED
  BY <1>1, <1>2, Parts

-----------------------------------------------------------------------------
(* The equations of the filter.                                             *)

(***************************************************************************)
(* The letters of a text, one symbol at a time.                            *)
(***************************************************************************)
LEMMA LettersEquation ==
  /\ Letters \in [Texts -> Texts]
  /\ \A t \in Texts : Letters[t] =
       IF t = <<>> THEN <<>>
       ELSE IF Head(t) = "_" THEN Letters[Tail(t)]
       ELSE <<Head(t)>> \o Letters[Tail(t)]
<1> DEFINE F == [Texts -> Texts]
           size == [t \in Texts |-> Len(t)]
           body(f, t) == IF t = <<>> THEN <<>>
                         ELSE IF Head(t) = "_" THEN f[Tail(t)] ELSE <<Head(t)>> \o f[Tail(t)]
           G == [p \in Texts \X F |-> body(p[2], p[1])]
<1>1. size \in [Texts -> Nat] /\ \A t \in Texts : size[t] = Len(t)
  BY LenProperties DEF Texts
<1>2. ASSUME NEW f \in F, NEW t \in Texts PROVE body(f, t) \in Texts
  <2>1. <<>> \in Texts
    BY EmptySeq DEF Texts
  <2>2. ASSUME t # <<>> PROVE Tail(t) \in Texts /\ Head(t) \in Symbols
    BY <2>2, FirstAndRest DEF Texts
  <2>3. ASSUME t # <<>> PROVE f[Tail(t)] \in Texts
    BY <2>2, <2>3
  <2>4. ASSUME t # <<>> PROVE <<Head(t)>> \o f[Tail(t)] \in Texts
    BY <2>2, <2>3, <2>4, Before DEF Texts
  <2> QED
    BY <2>1, <2>3, <2>4
<1>3. G \in [Texts \X F -> Texts] /\ \A t \in Texts, f \in F : G[<<t, f>>] = body(f, t)
  BY <1>2
<1>4. ASSUME NEW t \in Texts, NEW f \in F, NEW g \in F,
             \A y \in Texts : size[y] < size[t] => f[y] = g[y]
      PROVE  G[<<t, f>>] = G[<<t, g>>]
  <2>1. t # <<>> => Tail(t) \in Texts /\ Len(Tail(t)) < Len(t)
    BY FirstAndRest DEF Texts
  <2>2. t # <<>> => f[Tail(t)] = g[Tail(t)]
    BY <1>1, <1>4, <2>1
  <2> QED
    BY <1>3, <2>2
<1>5. Texts # {}
  BY EmptySeq DEF Texts
<1>6. \E f \in F : \A t \in Texts : f[t] = G[<<t, f>>]
  <2> HIDE DEF size, G, body
  <2>1. size \in [Texts -> Nat] /\ G \in [Texts \X [Texts -> Texts] -> Texts]
    BY <1>1, <1>3
  <2>2. Descends(Texts, size, Texts, G)
    BY <1>4 DEF Descends
  <2>3. Solutions(Texts, Texts, G) # {}
    BY <1>5, <2>1, <2>2, Recursion
  <2> QED
    BY <2>3 DEF Solutions
<1>7. PICK f \in F : \A t \in Texts : f[t] = body(f, t)
  BY <1>3, <1>6
<1>8. f = [t \in Texts |-> body(f, t)]
  BY <1>7
<1>9. Letters = CHOOSE g : g = [t \in Texts |-> body(g, t)]
  BY DEF Letters
<1>10. Letters = [t \in Texts |-> body(Letters, t)]
  BY <1>8, <1>9
<1>11. \A t \in Texts : Letters[t] = body(Letters, t)
  BY <1>10
<1>12. ASSUME NEW t \in Texts, Letters[t] \notin Texts PROVE FALSE
  <2> DEFINE U == {x \in Texts : Letters[x] \notin Texts}
  <2>1. U \subseteq Seq(Symbols) /\ U # {}
    BY <1>12 DEF Texts
  <2> HIDE DEF U
  <2>2. PICK x \in U : \A y \in Seq(Symbols) : Len(y) < Len(x) => y \notin U
    BY <2>1, Shortest
  <2> USE DEF U
  <2>3. x \in Texts /\ (x # <<>> => Tail(x) \in Texts /\ Len(Tail(x)) < Len(x) /\ Head(x) \in Symbols)
    BY FirstAndRest DEF Texts
  <2>4. x # <<>> => Letters[Tail(x)] \in Texts
    BY <2>2, <2>3 DEF Texts
  <2>5. x # <<>> => <<Head(x)>> \o Letters[Tail(x)] \in Texts
    BY <2>3, <2>4, Before DEF Texts
  <2>6. <<>> \in Texts
    BY EmptySeq DEF Texts
  <2>7. Letters[x] \notin Texts /\ Letters[x] = body(Letters, x)
    BY <1>11, <2>3
  <2> QED
    BY <2>4, <2>5, <2>6, <2>7
<1>13. Letters \in [Texts -> Texts]
  BY <1>10, <1>12
<1> QED
  BY <1>11, <1>13

-----------------------------------------------------------------------------
(* What a text begins with.                                                 *)

Opens(t) == Head(t) = "<"
Begun(t) == IsPrefix(Name(t), Reserved) /\ Name(t) # Reserved
Named(t) == IsPrefix(Reserved, Name(t))
Ends(t) == {i \in 1..Len(t) : t[i] = ">"}

(***************************************************************************)
(* The verdicts on a text that may go on, and on one that is at its end.   *)
(***************************************************************************)
LEMMA Verdicts ==
  ASSUME NEW t
  PROVE  /\ Classify(t, FALSE).verdict = "safe" <=> ~Opens(t) \/ (~Begun(t) /\ ~Named(t))
         /\ Classify(t, FALSE).verdict = "hold" <=>
              Opens(t) /\ (Begun(t) \/ (Named(t) /\ Ends(t) = {}))
         /\ Classify(t, FALSE).verdict = "block" <=>
              Opens(t) /\ ~Begun(t) /\ Named(t) /\ Ends(t) # {}
         /\ Classify(t, FALSE).verdict = "safe" => Classify(t, FALSE).size = 1
         /\ Classify(t, FALSE).verdict = "block" => Classify(t, FALSE).size = Min(Ends(t))
         /\ Classify(t, TRUE).verdict = "block" <=>
              Opens(t) /\ ((Begun(t) /\ Len(Name(t)) >= Partial) \/ (~Begun(t) /\ Named(t)))
<1> USE DEF Classify, Opens, Begun, Named, Ends
<1>1. CASE ~Opens(t)
  BY <1>1
<1>2. CASE Opens(t) /\ Begun(t)
  BY <1>2
<1>3. CASE Opens(t) /\ ~Begun(t) /\ ~Named(t)
  BY <1>3
<1>4. CASE Opens(t) /\ ~Begun(t) /\ Named(t)
  BY <1>4
<1> QED
  BY <1>1, <1>2, <1>3, <1>4

(***************************************************************************)
(* A tag that is blocked ends with its first ">".                          *)
(***************************************************************************)
LEMMA FirstEnd ==
  ASSUME NEW t \in Texts, Ends(t) # {}
  PROVE  /\ Min(Ends(t)) \in Ends(t) /\ Min(Ends(t)) \in 1..Len(t)
         /\ \A i \in Ends(t) : Min(Ends(t)) <= i
<1>1. Len(t) \in Nat /\ Ends(t) \subseteq 1..Len(t) /\ Ends(t) \subseteq Nat
  BY LenProperties DEF Texts, Ends
<1>2. PICK i \in Ends(t) : \A j \in Ends(t) : i <= j
  BY <1>1, Least
<1>3. Min(Ends(t)) \in Ends(t) /\ \A j \in Ends(t) : Min(Ends(t)) <= j
  BY <1>2 DEF Min
<1> QED
  BY <1>1, <1>3

Scanned == [shown : Texts, held : Texts]

\* One round of the scan of t, when f scans what is left.
Round(f, t) ==
  LET as == Classify(t, FALSE)
      rest == f[SubSeq(t, as.size + 1, Len(t))]
  IN IF t = <<>> \/ as.verdict = "hold" THEN [shown |-> <<>>, held |-> t]
     ELSE [shown |-> <<IF as.verdict = "block" THEN Marker ELSE Head(t)>> \o rest.shown,
           held |-> rest.held]

(***************************************************************************)
(* The three outcomes of a round: all is held, a tag is blocked, or one    *)
(* symbol is shown.  In the last two something shorter is left.            *)
(***************************************************************************)
LEMMA Rounds ==
  ASSUME NEW t \in Texts
  PROVE  LET as == Classify(t, FALSE) IN
         \/ /\ t = <<>> \/ as.verdict = "hold"
            /\ \A f : Round(f, t) = [shown |-> <<>>, held |-> t]
         \/ /\ t # <<>> /\ as.verdict = "block"
            /\ as.size \in 1..Len(t) /\ Drop(t, as.size) \in Texts
            /\ Len(Drop(t, as.size)) < Len(t)
            /\ \A f :
                 Round(f, t) = [shown |-> <<Marker>> \o f[Drop(t, as.size)].shown,
                                held |-> f[Drop(t, as.size)].held]
         \/ /\ t # <<>> /\ as.verdict = "safe"
            /\ Tail(t) \in Texts /\ Len(Tail(t)) < Len(t) /\ Head(t) \in Symbols
            /\ t = <<Head(t)>> \o Tail(t)
            /\ \A f :
                 Round(f, t) = [shown |-> <<Head(t)>> \o f[Tail(t)].shown,
                                held |-> f[Tail(t)].held]
<1> DEFINE as == Classify(t, FALSE)
<1>1. CASE t = <<>> \/ as.verdict = "hold"
  BY <1>1 DEF Round
<1>2. CASE t # <<>> /\ as.verdict = "block"
  <2> DEFINE n == as.size
  <2>1. n \in 1..Len(t)
    BY <1>2, Verdicts, FirstEnd
  <2>2. \A f :
          Round(f, t) = [shown |-> <<Marker>> \o f[Drop(t, n)].shown,
                         held |-> f[Drop(t, n)].held]
    BY <1>2 DEF Round, Drop
  <2> HIDE DEF n
  <2>3. Len(t) \in Nat
    BY LenProperties DEF Texts
  <2>4. n \in 0..Len(t)
    BY <2>1, <2>3
  <2>5. Drop(t, n) \in Texts /\ Len(Drop(t, n)) = Len(t) - n
    BY <2>4, Parts DEF Texts
  <2>6. Len(Drop(t, n)) < Len(t)
    BY <2>1, <2>3, <2>5
  <2> HIDE DEF as
  <2> QED
    BY <1>2, <2>1, <2>2, <2>5, <2>6 DEF as, n
<1>3. CASE t # <<>> /\ as.verdict = "safe"
  <2>1. as.size = 1
    BY <1>3, Verdicts
  <2>2. /\ Len(t) \in Nat \ {0} /\ Head(t) \in Symbols
        /\ Tail(t) \in Texts /\ Len(Tail(t)) = Len(t) - 1 /\ Tail(t) = Drop(t, 1)
        /\ t = <<Head(t)>> \o Tail(t)
    BY <1>3, FirstAndRest DEF Texts
  <2> HIDE DEF as
  <2>3. \A f :
          Round(f, t) = [shown |-> <<Head(t)>> \o f[Tail(t)].shown, held |-> f[Tail(t)].held]
    BY <1>3, <2>1, <2>2 DEF Round, Drop, as
  <2>4. Len(Tail(t)) < Len(t)
    BY <2>2
  <2> QED
    BY <1>3, <2>2, <2>3, <2>4 DEF as
<1>4. t = <<>> \/ as.verdict \in {"hold", "block", "safe"}
  BY Verdicts
<1> QED
  BY <1>1, <1>2, <1>3, <1>4

(***************************************************************************)
(* The filter is its rounds.                                               *)
(***************************************************************************)
LEMMA ScanEquation ==
  /\ Scan \in [Texts -> Scanned]
  /\ \A t \in Texts : Scan[t] = Round(Scan, t)
<1> DEFINE F == [Texts -> Scanned]
           size == [t \in Texts |-> Len(t)]
           G == [p \in Texts \X F |-> Round(p[2], p[1])]
<1>0. Marker \in Symbols /\ <<>> \in Texts
  BY EmptySeq DEF Texts, Symbols
<1>1. size \in [Texts -> Nat] /\ \A t \in Texts : size[t] = Len(t)
  BY LenProperties DEF Texts
<1>2. ASSUME NEW f \in F, NEW t \in Texts PROVE Round(f, t) \in Scanned
  <2>1. \A x \in Symbols, u \in Texts : <<x>> \o u \in Texts
    BY Before DEF Texts
  <2>2. \A u \in Texts : f[u].shown \in Texts /\ f[u].held \in Texts
    BY DEF Scanned
  <2>3. \A x \in Symbols, u \in Texts :
          [shown |-> <<x>> \o f[u].shown, held |-> f[u].held] \in Scanned
    BY <2>1, <2>2 DEF Scanned
  <2>4. [shown |-> <<>>, held |-> t] \in Scanned
    BY <1>0 DEF Scanned
  <2> HIDE DEF F, G, size
  <2> QED
    BY <1>0, <2>3, <2>4, Rounds
<1>3. G \in [Texts \X F -> Scanned] /\ \A t \in Texts, f \in F : G[<<t, f>>] = Round(f, t)
  BY <1>2
<1>4. ASSUME NEW t \in Texts, NEW f \in F, NEW g \in F,
             \A y \in Texts : size[y] < size[t] => f[y] = g[y]
      PROVE  G[<<t, f>>] = G[<<t, g>>]
  <2>1. \A y \in Texts : Len(y) < Len(t) => f[y] = g[y]
    BY <1>1, <1>4
  <2> HIDE DEF F, G, size
  <2>2. Round(f, t) = Round(g, t)
    <3> DEFINE as == Classify(t, FALSE)
               n == as.size
    <3>1. CASE \A h : Round(h, t) = [shown |-> <<>>, held |-> t]
      BY <3>1
    <3>2. CASE /\ Drop(t, n) \in Texts /\ Len(Drop(t, n)) < Len(t)
               /\ \A h : Round(h, t) = [shown |-> <<Marker>> \o h[Drop(t, n)].shown,
                                        held |-> h[Drop(t, n)].held]
      <4>1. f[Drop(t, n)] = g[Drop(t, n)]
        BY <2>1, <3>2
      <4>2. Round(f, t) = [shown |-> <<Marker>> \o f[Drop(t, n)].shown, held |-> f[Drop(t, n)].held]
        BY <3>2
      <4>3. Round(g, t) = [shown |-> <<Marker>> \o g[Drop(t, n)].shown, held |-> g[Drop(t, n)].held]
        BY <3>2
      <4> QED
        BY <4>1, <4>2, <4>3
    <3>3. CASE /\ Tail(t) \in Texts /\ Len(Tail(t)) < Len(t)
               /\ \A h : Round(h, t) = [shown |-> <<Head(t)>> \o h[Tail(t)].shown,
                                        held |-> h[Tail(t)].held]
      <4>1. f[Tail(t)] = g[Tail(t)]
        BY <2>1, <3>3
      <4>2. Round(f, t) = [shown |-> <<Head(t)>> \o f[Tail(t)].shown, held |-> f[Tail(t)].held]
        BY <3>3
      <4>3. Round(g, t) = [shown |-> <<Head(t)>> \o g[Tail(t)].shown, held |-> g[Tail(t)].held]
        BY <3>3
      <4> QED
        BY <4>1, <4>2, <4>3
    <3> QED
      BY <3>1, <3>2, <3>3, Rounds
  <2> QED
    BY <1>3, <2>2
<1>5. Scanned # {}
  <2>1. [shown |-> <<>>, held |-> <<>>] \in Scanned
    BY <1>0 DEF Scanned
  <2> QED
    BY <2>1
<1>6. \E f \in F : \A t \in Texts : f[t] = G[<<t, f>>]
  <2> HIDE DEF size, G
  <2>1. size \in [Texts -> Nat] /\ G \in [Texts \X [Texts -> Scanned] -> Scanned]
    BY <1>1, <1>3
  <2>2. Descends(Texts, size, Scanned, G)
    BY <1>4 DEF Descends
  <2>3. Solutions(Texts, Scanned, G) # {}
    BY <1>5, <2>1, <2>2, Recursion
  <2> QED
    BY <2>3 DEF Solutions
<1>7. PICK f \in F : \A t \in Texts : f[t] = Round(f, t)
  BY <1>3, <1>6
<1>8. f = [t \in Texts |-> Round(f, t)]
  BY <1>7
<1>9. Scan = CHOOSE g : g = [t \in Texts |-> Round(g, t)]
  BY DEF Scan, Round
<1>10. Scan = [t \in Texts |-> Round(Scan, t)]
  BY <1>8, <1>9
<1>11. \A t \in Texts : Scan[t] = Round(Scan, t)
  BY <1>10
<1>12. ASSUME NEW t \in Texts, Scan[t] \notin Scanned PROVE FALSE
  <2> DEFINE U == {x \in Texts : Scan[x] \notin Scanned}
  <2>1. U \subseteq Seq(Symbols) /\ U # {}
    BY <1>12 DEF Texts
  <2> HIDE DEF U
  <2>2. PICK x \in U : \A y \in Seq(Symbols) : Len(y) < Len(x) => y \notin U
    BY <2>1, Shortest
  <2>3. x \in Texts /\ Scan[x] \notin Scanned
        /\ \A y \in Texts : Len(y) < Len(x) => Scan[y] \in Scanned
    BY <2>2 DEF U, Texts
  <2>4. Round(Scan, x) \in Scanned
    <3>1. \A z \in Symbols, u \in Texts : <<z>> \o u \in Texts
      BY Before DEF Texts
    <3>2. \A y \in Texts : Len(y) < Len(x) =>
            \A z \in Symbols : [shown |-> <<z>> \o Scan[y].shown, held |-> Scan[y].held] \in Scanned
      BY <2>3, <3>1 DEF Scanned
    <3>3. [shown |-> <<>>, held |-> x] \in Scanned
      BY <1>0, <2>3 DEF Scanned
    <3> HIDE DEF F, G, size, U
    <3>4. \/ Round(Scan, x) = [shown |-> <<>>, held |-> x]
          \/ \E z \in Symbols, y \in Texts :
               /\ Len(y) < Len(x)
               /\ Round(Scan, x) = [shown |-> <<z>> \o Scan[y].shown, held |-> Scan[y].held]
      BY <1>0, <2>3, Rounds
    <3> QED
      BY <3>2, <3>3, <3>4
  <2> QED
    BY <1>11, <2>3, <2>4
<1> QED
  BY <1>10, <1>11, <1>12

(***************************************************************************)
(* What the filter makes of a text, one round at a time.                   *)
(***************************************************************************)
LEMMA Filtering ==
  ASSUME NEW t \in Texts
  PROVE  LET as == Classify(t, FALSE) IN
         /\ Scan[t] \in Scanned
         /\ \/ /\ t = <<>> \/ as.verdict = "hold"
               /\ Scan[t] = [shown |-> <<>>, held |-> t]
            \/ /\ t # <<>> /\ as.verdict = "block" /\ as.size \in 1..Len(t)
               /\ Drop(t, as.size) \in Texts /\ Len(Drop(t, as.size)) < Len(t)
               /\ Scan[t] = [shown |-> <<Marker>> \o Scan[Drop(t, as.size)].shown,
                             held |-> Scan[Drop(t, as.size)].held]
            \/ /\ t # <<>> /\ as.verdict = "safe"
               /\ Tail(t) \in Texts /\ Len(Tail(t)) < Len(t) /\ Head(t) \in Symbols
               /\ t = <<Head(t)>> \o Tail(t)
               /\ Scan[t] = [shown |-> <<Head(t)>> \o Scan[Tail(t)].shown,
                             held |-> Scan[Tail(t)].held]
<1>1. Scan[t] = Round(Scan, t) /\ Scan[t] \in Scanned
  BY ScanEquation
<1> QED
  BY <1>1, Rounds

(***************************************************************************)
(* The letters of two texts joined.                                        *)
(***************************************************************************)
LEMMA LettersJoined ==
  ASSUME NEW x \in Texts, NEW y \in Texts
  PROVE  Letters[x \o y] = Letters[x] \o Letters[y]
<1> DEFINE T == {t \in Texts : Letters[t \o y] # Letters[t] \o Letters[y]}
<1>1. SUFFICES ASSUME T # {} PROVE FALSE
  OBVIOUS
<1>2. T \subseteq Seq(Symbols)
  BY DEF Texts
<1> HIDE DEF T
<1>3. PICK t \in T : \A u \in Seq(Symbols) : Len(u) < Len(t) => u \notin T
  BY <1>1, <1>2, Shortest
<1>4. /\ t \in Texts /\ Letters[t \o y] # Letters[t] \o Letters[y]
      /\ \A u \in Texts : Len(u) < Len(t) => Letters[u \o y] = Letters[u] \o Letters[y]
  BY <1>3 DEF T, Texts
<1>5. t # <<>>
  <2>1. <<>> \o y = y /\ <<>> \o Letters[y] = Letters[y] /\ Letters[<<>>] = <<>>
    <3>1. Letters[y] \in Texts /\ <<>> \in Texts
      BY LettersEquation, EmptySeq DEF Texts
    <3>2. Letters[<<>>] = <<>>
      BY <3>1, LettersEquation
    <3> QED
      BY <3>1, <3>2, Joining DEF Texts
  <2> QED
    BY <1>4, <2>1
<1>6. /\ Tail(t) \in Texts /\ Len(Tail(t)) < Len(t) /\ Head(t) \in Symbols
      /\ t = <<Head(t)>> \o Tail(t)
  BY <1>4, <1>5, FirstAndRest DEF Texts
<1> DEFINE h == Head(t)
           r == Tail(t)
<1> HIDE DEF h, r
<1>7. h \in Symbols /\ r \in Texts /\ t = <<h>> \o r /\ Letters[r \o y] = Letters[r] \o Letters[y]
  BY <1>4, <1>6 DEF h, r
<1>8. t \o y = <<h>> \o (r \o y) /\ r \o y \in Texts /\ t \o y \in Texts
  <2>1. <<h>> \in Texts
    BY <1>7 DEF Texts
  <2> QED
    BY <1>4, <1>7, <2>1, Joining, Joined DEF Texts
<1> DEFINE u == t \o y
           ry == r \o y
<1>9. u \in Texts /\ u # <<>> /\ Head(u) = h /\ Tail(u) = ry
  <2> HIDE DEF ry, u
  <2>1. <<h>> \o ry # <<>> /\ Head(<<h>> \o ry) = h /\ Tail(<<h>> \o ry) = ry
    BY <1>7, <1>8, Before DEF Texts, ry
  <2>2. u = <<h>> \o ry /\ u \in Texts
    BY <1>8 DEF u, ry
  <2> QED
    BY <2>1, <2>2
<1> HIDE DEF u, ry
<1>10. Letters[u] = IF h = "_" THEN Letters[ry] ELSE <<h>> \o Letters[ry]
  BY <1>9, LettersEquation
<1>11. Letters[t] = IF h = "_" THEN Letters[r] ELSE <<h>> \o Letters[r]
  BY <1>4, <1>5, LettersEquation DEF h, r
<1>12. Letters[ry] = Letters[r] \o Letters[y]
  BY <1>7 DEF ry
<1>13. (<<h>> \o Letters[r]) \o Letters[y] = <<h>> \o (Letters[r] \o Letters[y])
  <2>1. Letters[r] \in Texts /\ Letters[y] \in Texts
    BY <1>7, LettersEquation
  <2>2. <<h>> \in Texts
    BY <1>7 DEF Texts
  <2> HIDE DEF T, u, ry, h, r
  <2> DEFINE a == Letters[r]
             b == Letters[y]
  <2>3. a \in Texts /\ b \in Texts
    BY <2>1
  <2> HIDE DEF a, b
  <2>4. (<<h>> \o a) \o b = <<h>> \o (a \o b)
    BY <2>2, <2>3, Joining DEF Texts
  <2> QED
    BY <2>4 DEF a, b
<1>14. Letters[u] = Letters[t] \o Letters[y]
  BY <1>10, <1>11, <1>12, <1>13
<1> QED
  BY <1>4, <1>14 DEF u

(***************************************************************************)
(* A slash before the letters of a text is left out of its name; what      *)
(* comes later is not.                                                     *)
(***************************************************************************)
LEMMA UnslashedJoined ==
  ASSUME NEW l \in Texts, NEW m \in Texts
  PROVE  /\ Unslashed(l) \in Texts /\ Unslashed(m) \in Texts
         /\ l # <<>> => Unslashed(l \o m) = Unslashed(l) \o m
         /\ l = <<>> => Unslashed(l) = <<>>
<1>1. Unslashed(l) \in Texts /\ Unslashed(m) \in Texts
  BY FirstAndRest DEF Unslashed, Texts
<1>2. ASSUME l # <<>> PROVE Unslashed(l \o m) = Unslashed(l) \o m
  <2> DEFINE h == Head(l)
             r == Tail(l)
             u == l \o m
  <2>1. h \in Symbols /\ r \in Texts /\ l = <<h>> \o r
    BY <1>2, FirstAndRest DEF Texts
  <2> HIDE DEF h, r, u
  <2>2. u = <<h>> \o (r \o m) /\ r \o m \in Texts
    <3>1. <<h>> \in Texts
      BY <2>1 DEF Texts
    <3> QED
      BY <2>1, <3>1, Joining, Joined DEF Texts, u
  <2>3. u # <<>> /\ Head(u) = h /\ Tail(u) = r \o m
    BY <2>1, <2>2, Before DEF Texts
  <2>4. Unslashed(u) = IF h = "/" THEN r \o m ELSE u
    BY <2>3 DEF Unslashed
  <2>5. Unslashed(l) = IF h = "/" THEN r ELSE l
    BY <1>2 DEF Unslashed, h, r
  <2> QED
    BY <2>4, <2>5 DEF u
<1> QED
  BY <1>1, <1>2 DEF Unslashed

(***************************************************************************)
(* A text that goes on keeps its first symbol and the name it has so far.  *)
(***************************************************************************)
LEMMA NameGrows ==
  ASSUME NEW x \in Texts, NEW y \in Texts, x # <<>>
  PROVE  /\ x \o y \in Texts /\ x \o y # <<>>
         /\ Head(x \o y) = Head(x) /\ Tail(x \o y) = Tail(x) \o y
         /\ Name(x) \in Texts /\ Name(x \o y) \in Texts
         /\ Letters[Tail(x)] = <<>> => Name(x) = <<>> /\ Name(x \o y) = Unslashed(Letters[y])
         /\ Letters[Tail(x)] # <<>> => Name(x \o y) = Name(x) \o Letters[y]
         /\ IsPrefix(Name(x), Name(x \o y))
<1> DEFINE h == Head(x)
           r == Tail(x)
           u == x \o y
<1>1. h \in Symbols /\ r \in Texts /\ x = <<h>> \o r
  BY FirstAndRest DEF Texts
<1> HIDE DEF h, r, u
<1>2. u = <<h>> \o (r \o y) /\ r \o y \in Texts /\ u \in Texts
  <2>1. <<h>> \in Texts
    BY <1>1 DEF Texts
  <2> QED
    BY <1>1, <2>1, Joining, Joined DEF Texts, u
<1>3. u # <<>> /\ Head(u) = h /\ Tail(u) = r \o y
  BY <1>1, <1>2, Before DEF Texts
<1>4. Letters[r] \in Texts /\ Letters[y] \in Texts /\ Letters[r \o y] = Letters[r] \o Letters[y]
  BY <1>1, LettersEquation, LettersJoined
<1>5. Name(x) = Unslashed(Letters[r]) /\ Name(u) = Unslashed(Letters[r] \o Letters[y])
  BY <1>3, <1>4 DEF Name, r
<1>6. Name(x) \in Texts /\ Name(u) \in Texts
  <2>1. Letters[r] \o Letters[y] \in Texts
    BY <1>4, Joined DEF Texts
  <2> QED
    BY <1>4, <1>5, <2>1, UnslashedJoined
<1>7. Letters[r] = <<>> => Name(x) = <<>> /\ Name(u) = Unslashed(Letters[y])
  <2>1. <<>> \o Letters[y] = Letters[y]
    BY <1>4, Joining DEF Texts
  <2> QED
    BY <1>4, <1>5, <2>1, UnslashedJoined
<1>8. Letters[r] # <<>> => Name(u) = Name(x) \o Letters[y]
  BY <1>4, <1>5, UnslashedJoined
<1>9. IsPrefix(Name(x), Name(u))
  <2>1. CASE Letters[r] = <<>>
    <3>1. <<>> \in Texts /\ <<>> \o Name(u) = Name(u)
      BY <1>6, Joining DEF Texts
    <3>2. IsPrefix(<<>>, <<>> \o Name(u))
      BY <1>6, <3>1, PrefixJoined DEF Texts
    <3> QED
      BY <1>7, <2>1, <3>1, <3>2
  <2>2. CASE Letters[r] # <<>>
    BY <1>4, <1>6, <1>8, <2>2, PrefixJoined DEF Texts
  <2> QED
    BY <2>1, <2>2
<1> QED
  BY <1>1, <1>2, <1>3, <1>6, <1>7, <1>8, <1>9 DEF u, h, r

(***************************************************************************)
(* Whether a text begins with a word, or differs from it, is settled by    *)
(* its beginning.                                                          *)
(***************************************************************************)
LEMMA Settled ==
  ASSUME NEW S, NEW R, NEW a \in Seq(S), NEW b \in Seq(S), NEW w \in Seq(R), IsPrefix(a, b)
  PROVE  /\ IsPrefix(w, w)
         /\ IsPrefix(w, a) => IsPrefix(w, b)
         /\ IsPrefix(w, a) /\ IsPrefix(a, w) => a = w
         /\ ~IsPrefix(a, w) /\ ~IsPrefix(w, a) => ~IsPrefix(b, w) /\ ~IsPrefix(w, b)
<1>1. Len(a) \in Nat /\ Len(b) \in Nat /\ Len(w) \in Nat
  BY LenProperties
<1>2. Len(a) <= Len(b) /\ \A i \in 1..Len(a) : a[i] = b[i]
  BY PrefixPoints
<1>3. IsPrefix(a, w) <=> Len(a) <= Len(w) /\ \A i \in 1..Len(a) : a[i] = w[i]
  BY PrefixPoints
<1>4. IsPrefix(b, w) <=> Len(b) <= Len(w) /\ \A i \in 1..Len(b) : b[i] = w[i]
  BY PrefixPoints
<1>5. IsPrefix(w, a) <=> Len(w) <= Len(a) /\ \A i \in 1..Len(w) : w[i] = a[i]
  BY PrefixPoints
<1>6. IsPrefix(w, b) <=> Len(w) <= Len(b) /\ \A i \in 1..Len(w) : w[i] = b[i]
  BY PrefixPoints
<1>7. IsPrefix(w, w)
  BY <1>1, PrefixPoints
<1>8. ASSUME IsPrefix(w, a) PROVE IsPrefix(w, b)
  <2>1. Len(w) <= Len(b)
    BY <1>1, <1>2, <1>5, <1>8
  <2>2. \A i \in 1..Len(w) : i \in 1..Len(a)
    BY <1>1, <1>5, <1>8
  <2> QED
    BY <1>2, <1>5, <1>6, <1>8, <2>1, <2>2
<1>9. ASSUME IsPrefix(w, a), IsPrefix(a, w) PROVE a = w
  <2>1. Len(a) = Len(w) /\ \A i \in 1..Len(a) : a[i] = w[i]
    BY <1>1, <1>3, <1>5, <1>9
  <2>2. a \in Seq(S \cup R) /\ w \in Seq(S \cup R)
    BY SeqMonotonic
  <2> QED
    BY <2>1, <2>2, SeqEqual
<1>10. ASSUME ~IsPrefix(a, w), ~IsPrefix(w, a)
       PROVE  ~IsPrefix(b, w) /\ ~IsPrefix(w, b)
  <2>1. PICK i : i \in 1..Len(a) /\ i \in 1..Len(w) /\ a[i] # w[i]
    <3>1. CASE Len(a) <= Len(w)
      BY <1>1, <1>3, <1>10, <3>1
    <3>2. CASE ~(Len(a) <= Len(w))
      <4>1. Len(w) <= Len(a)
        BY <1>1, <3>2
      <4> QED
        BY <1>1, <1>5, <1>10, <4>1
    <3> QED
      BY <3>1, <3>2
  <2>2. i \in 1..Len(b) /\ b[i] # w[i]
    BY <1>1, <1>2, <2>1
  <2> QED
    BY <1>4, <1>6, <2>1, <2>2
<1> QED
  BY <1>7, <1>8, <1>9, <1>10

(***************************************************************************)
(* The name reserved for evidence, and what a text that names it begins.   *)
(***************************************************************************)
LEMMA NamedIsNotBegun ==
  ASSUME NEW x \in Texts, NEW y \in Texts, x # <<>>
  PROVE  /\ Named(x) => ~Begun(x) /\ Named(x \o y)
         /\ ~Begun(x) /\ ~Named(x) => ~Begun(x \o y) /\ ~Named(x \o y)
<1> DEFINE a == Name(x)
           b == Name(x \o y)
<1>1. a \in Texts /\ b \in Texts /\ IsPrefix(a, b)
  BY NameGrows
<1>2. Reserved \in Seq(Range(Reserved))
  BY GuardConstants
<1> HIDE DEF a, b
<1>3. /\ IsPrefix(Reserved, Reserved)
      /\ IsPrefix(Reserved, a) => IsPrefix(Reserved, b)
      /\ IsPrefix(Reserved, a) /\ IsPrefix(a, Reserved) => a = Reserved
      /\ ~IsPrefix(a, Reserved) /\ ~IsPrefix(Reserved, a)
           => ~IsPrefix(b, Reserved) /\ ~IsPrefix(Reserved, b)
  BY <1>1, <1>2, Settled DEF Texts
<1>4. /\ Begun(x) <=> IsPrefix(a, Reserved) /\ a # Reserved
      /\ Named(x) <=> IsPrefix(Reserved, a)
      /\ Begun(x \o y) <=> IsPrefix(b, Reserved) /\ b # Reserved
      /\ Named(x \o y) <=> IsPrefix(Reserved, b)
  BY DEF Begun, Named, a, b
<1> QED
  BY <1>3, <1>4

(***************************************************************************)
(* A verdict that does not hold the text stays what it is when more comes. *)
(***************************************************************************)
LEMMA VerdictStays ==
  ASSUME NEW x \in Texts, NEW y \in Texts, x # <<>>,
         Classify(x, FALSE).verdict # "hold"
  PROVE  /\ Classify(x \o y, FALSE).verdict = Classify(x, FALSE).verdict
         /\ Classify(x \o y, FALSE).size = Classify(x, FALSE).size
<1>1. /\ x \o y \in Texts /\ Head(x \o y) = Head(x)
  BY NameGrows
<1>2. Opens(x \o y) <=> Opens(x)
  BY <1>1 DEF Opens
<1>3. CASE Classify(x, FALSE).verdict = "safe"
  <2>1. ~Opens(x) \/ (~Begun(x) /\ ~Named(x))
    BY <1>3, Verdicts
  <2>2. ~Opens(x \o y) \/ (~Begun(x \o y) /\ ~Named(x \o y))
    BY <1>2, <2>1, NamedIsNotBegun
  <2> QED
    BY <1>3, <2>2, Verdicts
<1>4. CASE Classify(x, FALSE).verdict = "block"
  <2>1. Opens(x) /\ ~Begun(x) /\ Named(x) /\ Ends(x) # {}
    BY <1>4, Verdicts
  <2> DEFINE u == x \o y
  <2>2. /\ u \in Texts /\ Len(u) = Len(x) + Len(y) /\ Len(x) \in Nat /\ Len(y) \in Nat
        /\ \A i \in 1..Len(x) : u[i] = x[i]
    BY Joined DEF Texts
  <2> HIDE DEF u
  <2>3. Ends(x) \subseteq Ends(u) /\ \A i \in Ends(u) : i <= Len(x) => i \in Ends(x)
    BY <2>2 DEF Ends
  <2>4. /\ Min(Ends(x)) \in Ends(x) /\ Min(Ends(x)) \in 1..Len(x)
        /\ \A i \in Ends(x) : Min(Ends(x)) <= i
    BY <2>1, FirstEnd
  <2>5. /\ Min(Ends(u)) \in Ends(u) /\ Min(Ends(u)) \in 1..Len(u)
        /\ \A i \in Ends(u) : Min(Ends(u)) <= i
    BY <2>1, <2>2, <2>3, FirstEnd
  <2> DEFINE m == Min(Ends(x))
             n == Min(Ends(u))
  <2>6. n <= m /\ n \in Nat /\ m \in Nat /\ m <= Len(x)
    BY <2>2, <2>3, <2>4, <2>5
  <2>7. m <= n
    BY <2>2, <2>3, <2>4, <2>5, <2>6
  <2>8. m = n
    <3> HIDE DEF m, n
    <3> QED
      BY <2>6, <2>7
  <2>9. Classify(x, FALSE).size = m
    BY <1>4, Verdicts
  <2>10. Opens(u) /\ ~Begun(u) /\ Named(u) /\ Ends(u) # {}
    <3>1. Named(u)
      BY <2>1, NamedIsNotBegun DEF u
    <3>2. u # <<>> /\ <<>> \in Texts
      BY EmptySeq, NameGrows DEF u, Texts
    <3>3. ~Begun(u)
      BY <2>2, <3>1, <3>2, NamedIsNotBegun
    <3> QED
      BY <1>2, <2>1, <2>3, <3>1, <3>3 DEF u
  <2>11. Classify(u, FALSE).verdict = "block" /\ Classify(u, FALSE).size = n
    BY <2>10, Verdicts
  <2> QED
    BY <1>4, <2>8, <2>9, <2>11 DEF u
<1> QED
  BY <1>3, <1>4, Verdicts

(***************************************************************************)
(* The filter does not depend on where a text is cut: what it holds of the *)
(* beginning is filtered again with the rest.                              *)
(***************************************************************************)
LEMMA FilterComposes ==
  ASSUME NEW x \in Texts, NEW y \in Texts
  PROVE  /\ Scan[x].held \o y \in Texts
         /\ Scan[x \o y] = [shown |-> Scan[x].shown \o Scan[Scan[x].held \o y].shown,
                            held |-> Scan[Scan[x].held \o y].held]
<1> DEFINE Composed(t) ==
             Scan[t \o y] = [shown |-> Scan[t].shown \o Scan[Scan[t].held \o y].shown,
                             held |-> Scan[Scan[t].held \o y].held]
           T == {t \in Texts : ~Composed(t)}
<1>0. \A t \in Texts : /\ Scan[t].shown \in Texts /\ Scan[t].held \in Texts
                       /\ Scan[t].held \o y \in Texts /\ t \o y \in Texts
                       /\ Scan[t] = [shown |-> Scan[t].shown, held |-> Scan[t].held]
  <2> TAKE t \in Texts
  <2>1. Scan[t] \in Scanned
    BY ScanEquation
  <2>2. /\ Scan[t].shown \in Texts /\ Scan[t].held \in Texts
        /\ Scan[t] = [shown |-> Scan[t].shown, held |-> Scan[t].held]
    BY <2>1 DEF Scanned
  <2> QED
    BY <2>2, Joined DEF Texts
<1>1. SUFFICES ASSUME T # {} PROVE FALSE
  BY <1>0
<1>2. T \subseteq Seq(Symbols)
  BY DEF Texts
<1> HIDE DEF T
<1>3. PICK t \in T : \A u \in Seq(Symbols) : Len(u) < Len(t) => u \notin T
  BY <1>1, <1>2, Shortest
<1>4. t \in Texts /\ ~Composed(t) /\ \A u \in Texts : Len(u) < Len(t) => Composed(u)
  BY <1>3 DEF T, Texts
<1>5. CASE Scan[t] = [shown |-> <<>>, held |-> t]
  <2>1. Scan[t].shown = <<>> /\ Scan[t].held = t
    BY <1>5
  <2>2. t \o y \in Texts
    BY <1>0, <1>4
  <2>3. <<>> \o Scan[t \o y].shown = Scan[t \o y].shown
    BY <1>0, <2>2, Joining DEF Texts
  <2>4. Composed(t)
    BY <1>0, <2>1, <2>2, <2>3
  <2> QED
    BY <1>4, <2>4
<1>6. ASSUME NEW z \in Symbols, NEW r \in Texts, Len(r) < Len(t),
             Scan[t] = [shown |-> <<z>> \o Scan[r].shown, held |-> Scan[r].held],
             Scan[t \o y] = [shown |-> <<z>> \o Scan[r \o y].shown, held |-> Scan[r \o y].held]
      PROVE  FALSE
  <2>1. Composed(r)
    BY <1>4, <1>6
  <2> DEFINE p == Scan[r].shown
             h == Scan[r].held
             q == Scan[h \o y].shown
  <2>2. Scan[r \o y].shown = p \o q /\ Scan[r \o y].held = Scan[h \o y].held
    <3>1. Scan[r \o y] = [shown |-> p \o q, held |-> Scan[h \o y].held]
      BY <2>1
    <3> HIDE DEF p, q, h
    <3> QED
      BY <3>1
  <2>3. Scan[t].shown = <<z>> \o p /\ Scan[t].held = h
    BY <1>6
  <2>4. p \in Texts /\ q \in Texts /\ <<z>> \in Texts
    <3>1. p \in Texts /\ h \o y \in Texts
      BY <1>0, <1>6
    <3>2. q \in Texts
      BY <1>0, <3>1
    <3>3. <<z>> \in Texts
      BY <1>6 DEF Texts
    <3> QED
      BY <3>1, <3>2, <3>3
  <2>5. Scan[t \o y] = [shown |-> <<z>> \o (p \o q), held |-> Scan[h \o y].held]
    BY <1>6, <2>2
  <2> HIDE DEF p, q, h
  <2> DEFINE zs == <<z>>
  <2>6. zs \o (p \o q) = (zs \o p) \o q
    <3>1. zs \in Texts /\ p \in Texts /\ q \in Texts
      BY <2>4
    <3> HIDE DEF zs
    <3>2. Associative(zs, p, q)
      BY <3>1, Associates
    <3> QED
      BY <3>2 DEF Associative
  <2>7. Composed(t)
    BY <2>3, <2>5, <2>6 DEF q
  <2> QED
    BY <1>4, <2>7
<1>7. CASE t # <<>> /\ Classify(t, FALSE).verdict = "block"
  <2> DEFINE n == Classify(t, FALSE).size
             r == Drop(t, n)
             u == t \o y
  <2>1. /\ n \in 1..Len(t) /\ r \in Texts /\ Len(r) < Len(t)
        /\ Scan[t] = [shown |-> <<Marker>> \o Scan[r].shown, held |-> Scan[r].held]
    BY <1>4, <1>7, Filtering
  <2>2. /\ Classify(u, FALSE).verdict = "block" /\ Classify(u, FALSE).size = n
        /\ u \in Texts /\ u # <<>>
    BY <1>4, <1>7, VerdictStays, NameGrows
  <2>3. Scan[u] = [shown |-> <<Marker>> \o Scan[Drop(u, n)].shown, held |-> Scan[Drop(u, n)].held]
    <3> HIDE DEF u, n
    <3> QED
      BY <2>2, Filtering
  <2>4. Drop(u, n) = r \o y
    <3>1. n \in 0..Len(t)
      <4> HIDE DEF n
      <4>1. Len(t) \in Nat
        BY <1>4, LenProperties DEF Texts
      <4> QED
        BY <2>1, <4>1
    <3> HIDE DEF n
    <3> QED
      BY <1>4, <3>1, JoinedParts DEF Texts
  <2>5. Marker \in Symbols
    BY DEF Symbols
  <2> HIDE DEF n, r, u
  <2>6. Scan[u] = [shown |-> <<Marker>> \o Scan[r \o y].shown, held |-> Scan[r \o y].held]
    BY <2>3, <2>4
  <2> QED
    BY <1>6, <2>1, <2>5, <2>6 DEF u
<1>8. CASE t # <<>> /\ Classify(t, FALSE).verdict = "safe"
  <2> DEFINE r == Tail(t)
             u == t \o y
  <2>1. /\ r \in Texts /\ Len(r) < Len(t) /\ Head(t) \in Symbols
        /\ Scan[t] = [shown |-> <<Head(t)>> \o Scan[r].shown, held |-> Scan[r].held]
    BY <1>4, <1>8, Filtering
  <2>2. /\ Classify(u, FALSE).verdict = "safe"
        /\ u \in Texts /\ u # <<>> /\ Head(u) = Head(t) /\ Tail(u) = r \o y
    BY <1>4, <1>8, VerdictStays, NameGrows
  <2> HIDE DEF r, u
  <2>3. Scan[u] = [shown |-> <<Head(t)>> \o Scan[r \o y].shown, held |-> Scan[r \o y].held]
    BY <2>2, Filtering
  <2> QED
    BY <1>6, <2>1, <2>3 DEF u
<1> QED
  BY <1>4, <1>5, <1>7, <1>8, Filtering

-----------------------------------------------------------------------------
(* What is shown of a text that is known whole.                             *)

Result(t) == Scan[t].shown \o Decide(Scan[t].held)

(***************************************************************************)
(* What is shown of a text, one round at a time.                           *)
(***************************************************************************)
LEMMA Results ==
  ASSUME NEW t \in Texts
  PROVE  LET as == Classify(t, FALSE) IN
         /\ Result(t) \in Texts /\ Decide(t) \in Texts
         /\ \/ /\ t = <<>> \/ as.verdict = "hold"
               /\ Result(t) = Decide(t)
            \/ /\ t # <<>> /\ as.verdict = "block" /\ as.size \in 1..Len(t)
               /\ Drop(t, as.size) \in Texts /\ Len(Drop(t, as.size)) < Len(t)
               /\ Result(t) = <<Marker>> \o Result(Drop(t, as.size))
               /\ Result(Drop(t, as.size)) \in Texts
            \/ /\ t # <<>> /\ as.verdict = "safe"
               /\ Tail(t) \in Texts /\ Len(Tail(t)) < Len(t) /\ Head(t) \in Symbols
               /\ t = <<Head(t)>> \o Tail(t)
               /\ Result(t) = <<Head(t)>> \o Result(Tail(t))
               /\ Result(Tail(t)) \in Texts
<1> DEFINE as == Classify(t, FALSE)
<1>1. Marker \in Symbols /\ <<Marker>> \in Texts
  BY DEF Symbols, Texts
<1>2. \A u \in Texts : Decide(u) \in Texts
  BY <1>1 DEF Decide
<1>3. \A u \in Texts : Scan[u].shown \in Texts /\ Decide(Scan[u].held) \in Texts
  <2> TAKE u \in Texts
  <2>1. Scan[u] \in Scanned
    BY ScanEquation
  <2>2. Scan[u].shown \in Texts /\ Scan[u].held \in Texts
    BY <2>1 DEF Scanned
  <2> QED
    BY <1>2, <2>2
<1>4. \A u \in Texts : Result(u) \in Texts
  BY <1>3, Joined DEF Result, Texts
<1>5. ASSUME NEW z \in Symbols, NEW r \in Texts,
             Scan[t] = [shown |-> <<z>> \o Scan[r].shown, held |-> Scan[r].held]
      PROVE  Result(t) = <<z>> \o Result(r)
  <2> DEFINE p == Scan[r].shown
             q == Decide(Scan[r].held)
  <2>1. p \in Texts /\ q \in Texts
    BY <1>3
  <2>2. <<z>> \in Texts
    BY DEF Texts
  <2>3. Result(t) = (<<z>> \o p) \o q
    <3>1. Scan[t].shown = <<z>> \o p /\ Scan[t].held = Scan[r].held
      BY <1>5
    <3> HIDE DEF p
    <3> QED
      BY <3>1 DEF Result
  <2>4. Result(r) = p \o q
    BY DEF Result
  <2> HIDE DEF p, q
  <2>5. (<<z>> \o p) \o q = <<z>> \o (p \o q)
    BY <2>1, <2>2, Joining DEF Texts
  <2> QED
    BY <2>3, <2>4, <2>5
<1>6. CASE /\ t = <<>> \/ as.verdict = "hold"
           /\ Scan[t] = [shown |-> <<>>, held |-> t]
  <2>1. Result(t) = <<>> \o Decide(t)
    BY <1>6 DEF Result
  <2>2. Result(t) = Decide(t)
    BY <1>2, <2>1, Joining DEF Texts
  <2> QED
    BY <1>2, <1>4, <1>6, <2>2
<1>7. CASE t # <<>> /\ as.verdict = "block"
  <2> DEFINE r == Drop(t, as.size)
  <2>1. /\ as.size \in 1..Len(t) /\ r \in Texts /\ Len(r) < Len(t)
        /\ Scan[t] = [shown |-> <<Marker>> \o Scan[r].shown, held |-> Scan[r].held]
    BY <1>7, Filtering
  <2> HIDE DEF r
  <2>2. Result(t) = <<Marker>> \o Result(r)
    BY <1>1, <1>5, <2>1
  <2> HIDE DEF as
  <2> QED
    BY <1>2, <1>4, <1>7, <2>1, <2>2 DEF r, as
<1>8. CASE t # <<>> /\ as.verdict = "safe"
  <2> DEFINE r == Tail(t)
  <2>1. /\ r \in Texts /\ Len(r) < Len(t) /\ Head(t) \in Symbols /\ t = <<Head(t)>> \o r
        /\ Scan[t] = [shown |-> <<Head(t)>> \o Scan[r].shown, held |-> Scan[r].held]
    BY <1>8, Filtering
  <2> HIDE DEF r
  <2>2. Result(t) = <<Head(t)>> \o Result(r)
    BY <1>5, <2>1
  <2> HIDE DEF as
  <2> QED
    BY <1>2, <1>4, <1>8, <2>1, <2>2 DEF r, as
<1> HIDE DEF as
<1> QED
  BY <1>6, <1>7, <1>8, Filtering DEF as

\* A text u follows t up to its first marker.
Followed(t, u) ==
  \/ u = t
  \/ \E m \in 0..Len(t) : /\ m + 1 \in 1..Len(u) /\ u[m + 1] = Marker
                          /\ \A i \in 1..m : u[i] = t[i]

(***************************************************************************)
(* A symbol before both texts changes nothing about it.                    *)
(***************************************************************************)
LEMMA FollowedBefore ==
  ASSUME NEW x \in Symbols, NEW t \in Texts, NEW u \in Texts, Followed(t, u)
  PROVE  Followed(<<x>> \o t, <<x>> \o u)
<1> DEFINE a == <<x>> \o t
           b == <<x>> \o u
<1>1. /\ a \in Texts /\ Len(t) \in Nat /\ Len(a) = Len(t) + 1
      /\ a[1] = x /\ \A i \in 1..Len(t) : a[1 + i] = t[i]
  BY Before DEF Texts
<1>2. /\ b \in Texts /\ Len(u) \in Nat /\ Len(b) = Len(u) + 1
      /\ b[1] = x /\ \A i \in 1..Len(u) : b[1 + i] = u[i]
  BY Before DEF Texts
<1>3. CASE u = t
  BY <1>3 DEF Followed
<1>4. ASSUME NEW m \in 0..Len(t), m + 1 \in 1..Len(u), u[m + 1] = Marker,
             \A i \in 1..m : u[i] = t[i]
      PROVE  Followed(a, b)
  <2> HIDE DEF a, b
  <2>1. (m + 1) + 1 \in 1..Len(b) /\ b[(m + 1) + 1] = Marker /\ m + 1 \in 0..Len(a)
    BY <1>1, <1>2, <1>4
  <2>2. ASSUME NEW i \in 1..(m + 1) PROVE b[i] = a[i]
    <3>1. CASE i = 1
      BY <1>1, <1>2, <3>1
    <3>2. CASE i # 1
      <4> DEFINE j == i - 1
      <4>1. j \in 1..m /\ j \in 1..Len(t) /\ j \in 1..Len(u) /\ i = 1 + j
        BY <1>1, <1>2, <1>4, <3>2
      <4> HIDE DEF j
      <4>2. b[1 + j] = u[j] /\ a[1 + j] = t[j] /\ u[j] = t[j]
        BY <1>1, <1>2, <1>4, <4>1
      <4> QED
        BY <4>1, <4>2
    <3> QED
      BY <3>1, <3>2
  <2> QED
    BY <2>1, <2>2 DEF Followed
<1> QED
  BY <1>3, <1>4 DEF Followed

(***************************************************************************)
(* What is shown of a text follows it up to the first marker.              *)
(***************************************************************************)
LEMMA ResultFollows ==
  ASSUME NEW x \in Texts
  PROVE  Followed(x, Result(x))
<1> DEFINE T == {t \in Texts : ~Followed(t, Result(t))}
<1>1. SUFFICES ASSUME T # {} PROVE FALSE
  OBVIOUS
<1>2. T \subseteq Seq(Symbols)
  BY DEF Texts
<1> HIDE DEF T
<1>3. PICK t \in T : \A u \in Seq(Symbols) : Len(u) < Len(t) => u \notin T
  BY <1>1, <1>2, Shortest
<1>4. /\ t \in Texts /\ ~Followed(t, Result(t))
      /\ \A u \in Texts : Len(u) < Len(t) => Followed(u, Result(u))
  BY <1>3 DEF T, Texts
<1>5. ASSUME NEW r \in Texts PROVE Followed(t, <<Marker>> \o r)
  <2> DEFINE u == <<Marker>> \o r
  <2>1. Len(r) \in Nat /\ Len(u) = Len(r) + 1 /\ u[1] = Marker /\ Len(t) \in Nat
    <3>1. Marker \in Symbols
      BY DEF Symbols
    <3> QED
      BY <1>4, <3>1, Before, LenProperties DEF Texts
  <2> HIDE DEF u
  <2>2. 0 \in 0..Len(t) /\ 0 + 1 \in 1..Len(u) /\ u[0 + 1] = Marker /\ \A i \in 1..0 : u[i] = t[i]
    BY <2>1
  <2>3. Followed(t, u)
    BY <2>2 DEF Followed
  <2> QED
    BY <2>3 DEF u
<1>6. CASE Result(t) = Decide(t)
  <2>1. <<>> \in Texts /\ <<Marker>> \o <<>> = <<Marker>>
    <3>1. <<Marker>> \in Texts
      BY DEF Texts, Symbols
    <3> QED
      BY <3>1, Joining DEF Texts
  <2>2. Followed(t, <<Marker>>)
    BY <1>5, <2>1
  <2>3. Followed(t, t)
    BY DEF Followed
  <2> QED
    BY <1>4, <1>6, <2>2, <2>3 DEF Decide
<1>7. ASSUME NEW r \in Texts, Result(t) = <<Marker>> \o r PROVE FALSE
  BY <1>4, <1>5, <1>7
<1>8. ASSUME Tail(t) \in Texts, Len(Tail(t)) < Len(t), Head(t) \in Symbols,
             t = <<Head(t)>> \o Tail(t), Result(t) = <<Head(t)>> \o Result(Tail(t)),
             Result(Tail(t)) \in Texts
      PROVE  FALSE
  <2> DEFINE h == Head(t)
             r == Tail(t)
             u == Result(r)
  <2>1. h \in Symbols /\ r \in Texts /\ u \in Texts /\ Followed(r, u)
    BY <1>4, <1>8
  <2>2. t = <<h>> \o r /\ Result(t) = <<h>> \o u
    BY <1>8
  <2> HIDE DEF h, r, u
  <2>3. Followed(<<h>> \o r, <<h>> \o u)
    BY <2>1, FollowedBefore
  <2> QED
    BY <1>4, <2>2, <2>3
<1> QED
  BY <1>4, <1>6, <1>7, <1>8, Results

\* The text v stands in t behind its first n symbols.
At(t, n, v) == n \in Nat /\ n + Len(v) <= Len(t) /\ \A k \in 1..Len(v) : t[n + k] = v[k]

(***************************************************************************)
(* What stands in a part of a text stands in the text.                     *)
(***************************************************************************)
LEMMA AtParts ==
  ASSUME NEW S, NEW R, NEW t \in Seq(S), NEW v \in Seq(R), NEW m \in 0..Len(t), NEW n \in Nat
  PROVE  /\ At(Drop(t, m), n, v) <=> At(t, m + n, v)
         /\ At(Take(t, m), n, v) <=> At(t, n, v) /\ n + Len(v) <= m
<1>0. Len(t) \in Nat /\ Len(v) \in Nat /\ m \in Nat
  BY LenProperties
<1> DEFINE d == Drop(t, m)
           b == Take(t, m)
<1>1. /\ Len(b) = m /\ \A i \in 1..m : b[i] = t[i]
      /\ Len(d) = Len(t) - m /\ \A i \in 1..(Len(t) - m) : d[i] = t[m + i]
  BY Parts
<1> HIDE DEF d, b
<1>2. n + Len(v) <= Len(d) <=> (m + n) + Len(v) <= Len(t)
  BY <1>0, <1>1
<1>3. ASSUME n + Len(v) <= Len(d), NEW k \in 1..Len(v) PROVE d[n + k] = t[(m + n) + k]
  <2>1. n + k \in 1..(Len(t) - m) /\ m + (n + k) = (m + n) + k
    BY <1>0, <1>1, <1>3
  <2> QED
    BY <1>1, <2>1
<1>4. At(d, n, v) <=> At(t, m + n, v)
  BY <1>0, <1>2, <1>3 DEF At
<1>5. n + Len(v) <= Len(b) <=> n + Len(v) <= m /\ n + Len(v) <= Len(t)
  BY <1>0, <1>1
<1>6. ASSUME n + Len(v) <= m, NEW k \in 1..Len(v) PROVE b[n + k] = t[n + k]
  <2>1. n + k \in 1..m
    BY <1>0, <1>6
  <2> QED
    BY <1>1, <2>1
<1>7. At(b, n, v) <=> At(t, n, v) /\ n + Len(v) <= m
  BY <1>0, <1>5, <1>6 DEF At
<1> QED
  BY <1>4, <1>7 DEF b, d

(***************************************************************************)
(* The same for the first of two texts.                                    *)
(***************************************************************************)
LEMMA AtJoined ==
  ASSUME NEW S, NEW R, NEW s \in Seq(S), NEW t \in Seq(S), NEW v \in Seq(R), NEW n \in Nat
  PROVE  At(s, n, v) <=> At(s \o t, n, v) /\ n + Len(v) <= Len(s)
<1> DEFINE u == s \o t
<1>1. /\ Len(u) = Len(s) + Len(t) /\ Len(s) \in Nat /\ Len(t) \in Nat /\ Len(v) \in Nat
      /\ \A i \in 1..Len(s) : u[i] = s[i]
  BY Joined, LenProperties
<1> HIDE DEF u
<1>2. ASSUME n + Len(v) <= Len(s), NEW k \in 1..Len(v) PROVE u[n + k] = s[n + k]
  <2>1. n + k \in 1..Len(s)
    BY <1>1, <1>2
  <2> QED
    BY <1>1, <2>1
<1>3. At(s, n, v) <=> At(u, n, v) /\ n + Len(v) <= Len(s)
  BY <1>1, <1>2 DEF At
<1> QED
  BY <1>3 DEF u

(***************************************************************************)
(* Nothing without a marker in it comes into being when a text is shown.   *)
(***************************************************************************)
LEMMA ShownStood ==
  ASSUME NEW R, NEW v \in Seq(R), v # <<>>, \A k \in 1..Len(v) : v[k] # Marker,
         NEW x \in Texts, NEW i \in Nat, At(Result(x), i, v)
  PROVE  \E j \in Nat : At(x, j, v)
<1> DEFINE Stood(t) == (\E n \in Nat : At(Result(t), n, v)) => \E j \in Nat : At(t, j, v)
           T == {t \in Texts : ~Stood(t)}
<1>1. SUFFICES ASSUME T # {} PROVE FALSE
  OBVIOUS
<1>2. T \subseteq Seq(Symbols)
  BY DEF Texts
<1> HIDE DEF T
<1>3. PICK t \in T : \A u \in Seq(Symbols) : Len(u) < Len(t) => u \notin T
  BY <1>1, <1>2, Shortest
<1>4. t \in Texts /\ ~Stood(t) /\ \A u \in Texts : Len(u) < Len(t) => Stood(u)
  BY <1>3 DEF T, Texts
<1>5. PICK n \in Nat : At(Result(t), n, v)
  BY <1>4
<1>6. Len(v) \in Nat \ {0} /\ Len(t) \in Nat /\ Result(t) \in Texts /\ Decide(t) \in Texts
  BY <1>4, EmptySeq, LenProperties, Results DEF Texts
<1>7. n # 0
  <2> DEFINE u == Result(t)
  <2>0. Followed(t, u) /\ At(u, n, v)
    BY <1>4, <1>5, ResultFollows
  <2> HIDE DEF u
  <2>1. SUFFICES ASSUME n = 0 PROVE FALSE
    OBVIOUS
  <2>2. CASE u = t
    BY <1>4, <2>0, <2>2
  <2>3. ASSUME NEW m \in 0..Len(t), m + 1 \in 1..Len(u), u[m + 1] = Marker,
               \A k \in 1..m : u[k] = t[k]
        PROVE  FALSE
    <3>1. \A k \in 1..Len(v) : u[k] = v[k]
      <4> TAKE k \in 1..Len(v)
      <4>1. n + k = k
        BY <2>1
      <4> QED
        BY <2>0, <4>1 DEF At
    <3>2. ~(m + 1 \in 1..Len(v))
      BY <2>3, <3>1
    <3>3. Len(v) <= m /\ m <= Len(t)
      BY <1>6, <3>2
    <3>4. \A k \in 1..Len(v) : t[0 + k] = v[k]
      <4> TAKE k \in 1..Len(v)
      <4>1. 0 + k = k /\ k \in 1..m
        BY <1>6, <3>3
      <4> QED
        BY <2>3, <3>1, <4>1
    <3>5. 0 + Len(v) <= Len(t)
      BY <1>6, <3>3
    <3>6. At(t, 0, v)
      BY <3>4, <3>5 DEF At
    <3> QED
      BY <1>4, <3>6
  <2> QED
    BY <2>0, <2>2, <2>3 DEF Followed
<1>8. ASSUME NEW z \in Symbols, NEW r \in Texts, Len(r) < Len(t), Result(r) \in Texts,
             Result(t) = <<z>> \o Result(r), NEW m \in 0..Len(t), r = Drop(t, m)
      PROVE  FALSE
  <2> DEFINE u == Result(r)
             w == Result(t)
  <2>1. /\ Len(u) \in Nat /\ Len(w) = Len(u) + 1 /\ \A k \in 1..Len(u) : w[1 + k] = u[k]
    BY <1>8, Before DEF Texts
  <2>2. At(w, n, v)
    BY <1>5
  <2> HIDE DEF u, w
  <2>3. n - 1 \in Nat /\ (n - 1) + Len(v) <= Len(u)
    BY <1>6, <1>7, <2>1, <2>2 DEF At
  <2>4. \A k \in 1..Len(v) : u[(n - 1) + k] = v[k]
    <3> TAKE k \in 1..Len(v)
    <3>1. (n - 1) + k \in 1..Len(u) /\ 1 + ((n - 1) + k) = n + k
      BY <1>6, <2>1, <2>3
    <3>2. w[1 + ((n - 1) + k)] = u[(n - 1) + k]
      BY <2>1, <3>1
    <3>3. w[n + k] = v[k]
      BY <2>2 DEF At
    <3> QED
      BY <3>1, <3>2, <3>3
  <2>5. At(u, n - 1, v)
    BY <2>3, <2>4 DEF At
  <2>6. PICK j \in Nat : At(r, j, v)
    BY <1>4, <1>8, <2>3, <2>5 DEF u
  <2>7. At(t, m + j, v)
    BY <1>4, <1>8, <2>6, AtParts DEF Texts
  <2>8. m + j \in Nat
    OBVIOUS
  <2> QED
    BY <1>4, <2>7, <2>8
<1>9. ASSUME Result(t) = Decide(t) PROVE FALSE
  <2>1. CASE Decide(t) = t
    BY <1>4, <1>5, <1>9, <2>1
  <2>2. CASE Decide(t) = <<Marker>>
    <3>1. Len(Result(t)) = 1
      BY <1>9, <2>2
    <3> QED
      BY <1>5, <1>6, <1>7, <3>1 DEF At
  <2> QED
    BY <2>1, <2>2 DEF Decide
<1>10. CASE /\ Classify(t, FALSE).size \in 1..Len(t)
            /\ Drop(t, Classify(t, FALSE).size) \in Texts
            /\ Len(Drop(t, Classify(t, FALSE).size)) < Len(t)
            /\ Result(t) = <<Marker>> \o Result(Drop(t, Classify(t, FALSE).size))
            /\ Result(Drop(t, Classify(t, FALSE).size)) \in Texts
  <2> DEFINE m == Classify(t, FALSE).size
  <2>1. m \in 1..Len(t)
    BY <1>10
  <2>2. Marker \in Symbols
    BY DEF Symbols
  <2>3. /\ Drop(t, m) \in Texts /\ Len(Drop(t, m)) < Len(t)
        /\ Result(t) = <<Marker>> \o Result(Drop(t, m)) /\ Result(Drop(t, m)) \in Texts
    BY <1>10
  <2> HIDE DEF m
  <2>4. m \in 0..Len(t)
    BY <1>6, <2>1
  <2> QED
    BY <1>8, <2>2, <2>3, <2>4
<1>11. CASE /\ t # <<>> /\ Tail(t) \in Texts /\ Len(Tail(t)) < Len(t) /\ Head(t) \in Symbols
            /\ Result(t) = <<Head(t)>> \o Result(Tail(t)) /\ Result(Tail(t)) \in Texts
  <2>1. Tail(t) = Drop(t, 1) /\ 1 \in 0..Len(t)
    BY <1>4, <1>11, FirstAndRest DEF Texts
  <2> QED
    BY <1>8, <1>11, <2>1
<1> QED
  BY <1>4, <1>9, <1>10, <1>11, Results

-----------------------------------------------------------------------------
(* No tag is left.                                                          *)

(***************************************************************************)
(* White space apart, every symbol of a text is one of its letters, and    *)
(* but for a slash, of its name.                                           *)
(***************************************************************************)
LEMMA LetterKept ==
  ASSUME NEW x \in Texts, NEW i \in 1..Len(x), x[i] = "<"
  PROVE  \E k \in 1..Len(Letters[x]) : Letters[x][k] = "<"
<1> DEFINE Kept(t) == (\E n \in 1..Len(t) : t[n] = "<")
                        => \E k \in 1..Len(Letters[t]) : Letters[t][k] = "<"
           T == {t \in Texts : ~Kept(t)}
<1>1. SUFFICES ASSUME T # {} PROVE FALSE
  OBVIOUS
<1>2. T \subseteq Seq(Symbols)
  BY DEF Texts
<1> HIDE DEF T
<1>3. PICK t \in T : \A u \in Seq(Symbols) : Len(u) < Len(t) => u \notin T
  BY <1>1, <1>2, Shortest
<1>4. t \in Texts /\ ~Kept(t) /\ \A u \in Texts : Len(u) < Len(t) => Kept(u)
  BY <1>3 DEF T, Texts
<1>5. PICK n \in 1..Len(t) : t[n] = "<"
  BY <1>4
<1>6. t # <<>>
  BY <1>5
<1> DEFINE h == Head(t)
           r == Tail(t)
           l == Letters[r]
<1>7. /\ h \in Symbols /\ r \in Texts /\ h = t[1] /\ Len(t) \in Nat /\ Len(r) = Len(t) - 1
      /\ \A k \in 1..(Len(t) - 1) : r[k] = t[1 + k]
  BY <1>4, <1>6, FirstAndRest DEF Texts
<1>8. Letters[t] = IF h = "_" THEN l ELSE <<h>> \o l
  BY <1>4, <1>6, LettersEquation
<1>9. l \in Texts
  BY <1>7, LettersEquation
<1> HIDE DEF h, r, l
<1>10. /\ Len(l) \in Nat /\ Len(<<h>> \o l) = Len(l) + 1
       /\ (<<h>> \o l)[1] = h /\ \A k \in 1..Len(l) : (<<h>> \o l)[1 + k] = l[k]
  BY <1>7, <1>9, Before DEF Texts
<1>11. CASE n = 1
  <2>1. h = "<" /\ Letters[t] = <<h>> \o l
    BY <1>5, <1>7, <1>8, <1>11
  <2> DEFINE u == <<h>> \o l
  <2>2. 1 \in 1..Len(u) /\ u[1] = "<"
    BY <1>10, <2>1
  <2> QED
    BY <1>4, <2>1, <2>2
<1>12. CASE n # 1
  <2>1. n - 1 \in 1..Len(r) /\ 1 + (n - 1) = n /\ Len(r) < Len(t)
    BY <1>7, <1>12
  <2>2. r[n - 1] = "<"
    BY <1>5, <1>7, <2>1
  <2>3. PICK k \in 1..Len(l) : l[k] = "<"
    BY <1>4, <1>7, <2>1, <2>2 DEF l
  <2>4. CASE h = "_"
    BY <1>4, <1>8, <2>3, <2>4
  <2>5. CASE h # "_"
    <3> DEFINE u == <<h>> \o l
    <3>1. 1 + k \in 1..Len(u) /\ u[1 + k] = "<"
      BY <1>10, <2>3
    <3>2. Letters[t] = u
      BY <1>8, <2>5
    <3> HIDE DEF u
    <3> QED
      BY <1>4, <3>1, <3>2
  <2> QED
    BY <2>4, <2>5
<1> QED
  BY <1>11, <1>12

(***************************************************************************)
(* What could still become a reserved tag holds no second "<".             *)
(***************************************************************************)
LEMMA OneOpening ==
  ASSUME NEW t \in Texts, t # <<>>, Begun(t), NEW n \in 1..Len(Tail(t))
  PROVE  Tail(t)[n] # "<"
<1> DEFINE r == Tail(t)
           l == Letters[r]
<1>1. SUFFICES ASSUME r[n] = "<" PROVE FALSE
  OBVIOUS
<1>2. r \in Texts /\ l \in Texts
  <2>1. r \in Texts
    BY FirstAndRest DEF Texts
  <2> QED
    BY <2>1, LettersEquation
<1>3. PICK k \in 1..Len(l) : l[k] = "<"
  BY <1>1, <1>2, LetterKept
<1>4. Name(t) = Unslashed(l)
  BY DEF Name
<1> HIDE DEF r, l
<1>5. l # <<>> /\ Len(l) \in Nat
  BY <1>2, <1>3, LenProperties DEF Texts
<1>6. \E j \in 1..Len(Name(t)) : Name(t)[j] = "<"
  <2>1. CASE Head(l) = "/"
    <3>1. /\ Head(l) = l[1] /\ Len(Tail(l)) = Len(l) - 1
          /\ \A j \in 1..(Len(l) - 1) : Tail(l)[j] = l[1 + j]
      BY <1>2, <1>5, FirstAndRest DEF Texts
    <3>2. k # 1
      BY <1>3, <2>1, <3>1
    <3>3. k - 1 \in 1..Len(Tail(l)) /\ 1 + (k - 1) = k
      BY <1>5, <3>1, <3>2
    <3>4. Tail(l)[k - 1] = "<"
      BY <1>3, <3>1, <3>3
    <3>5. Name(t) = Tail(l)
      BY <1>4, <1>5, <2>1 DEF Unslashed
    <3> QED
      BY <3>3, <3>4, <3>5
  <2>2. CASE Head(l) # "/"
    BY <1>3, <1>4, <2>2 DEF Unslashed
  <2> QED
    BY <2>1, <2>2
<1>7. PICK j \in 1..Len(Name(t)) : Name(t)[j] = "<"
  BY <1>6
<1>8. Reserved \in Seq(Range(Reserved)) /\ "<" \notin Range(Reserved) /\ Len(Reserved) \in Nat
  BY GuardConstants, LenProperties
<1>9. Name(t) \in Texts
  BY <1>2, <1>4, UnslashedJoined
<1>10. Len(Name(t)) <= Len(Reserved) /\ \A i \in 1..Len(Name(t)) : Name(t)[i] = Reserved[i]
  BY <1>8, <1>9, PrefixPoints DEF Begun, Texts
<1>11. j \in 1..Len(Reserved) /\ Reserved[j] = "<" /\ Len(Name(t)) \in Nat
  BY <1>7, <1>8, <1>9, <1>10, LenProperties DEF Texts
<1> QED
  BY <1>8, <1>11, ElementOfSeq

(***************************************************************************)
(* A marker in the place of something later does not make a tag of what    *)
(* was none.                                                               *)
(***************************************************************************)
LEMMA MarkerIsNoTag ==
  ASSUME NEW a \in Texts, NEW y \in Texts, a # <<>>, y # <<>>, Head(y) = Marker
  PROVE  /\ ~Begun(a \o y)
         /\ Named(a \o y) => Named(a)
<1> DEFINE l == Letters[Tail(a)]
           q == Letters[y]
           u == a \o y
<1>1. Tail(a) \in Texts /\ Tail(y) \in Texts
  BY FirstAndRest DEF Texts
<1>2. l \in Texts /\ q \in Texts /\ Letters[Tail(y)] \in Texts
  BY <1>1, LettersEquation
<1>3. q = <<Marker>> \o Letters[Tail(y)]
  BY LettersEquation DEF Marker
<1>4. Marker \in Symbols
  BY DEF Symbols
<1>5. Len(q) \in Nat /\ Len(q) >= 1 /\ q[1] = Marker /\ q # <<>> /\ Head(q) = Marker
  <2> DEFINE z == Letters[Tail(y)]
  <2>1. z \in Texts
    BY <1>2
  <2>2. q = <<Marker>> \o z
    BY <1>3
  <2> HIDE DEF q, z
  <2> QED
    BY <1>4, <2>1, <2>2, Before DEF Texts
<1>6. /\ Name(a) \in Texts /\ Name(u) \in Texts
      /\ l = <<>> => Name(a) = <<>> /\ Name(u) = Unslashed(q)
      /\ l # <<>> => Name(u) = Name(a) \o q
  BY NameGrows
<1> HIDE DEF l, q, u
<1>7. Name(u) = Name(a) \o q
  <2>1. Unslashed(q) = q
    BY <1>5 DEF Unslashed, Marker
  <2>2. <<>> \o q = q
    BY <1>2, Joining DEF Texts
  <2> QED
    BY <1>6, <2>1, <2>2
<1> DEFINE n == Name(a)
           w == Name(u)
<1>8. /\ Len(n) \in Nat /\ Len(w) = Len(n) + Len(q)
      /\ w[Len(n) + 1] = Marker /\ \A i \in 1..Len(n) : w[i] = n[i]
  <2>1. 1 \in 1..Len(q)
    BY <1>5
  <2>2. n \in Texts /\ w = n \o q
    BY <1>6, <1>7
  <2> HIDE DEF n, w
  <2> QED
    BY <1>2, <1>5, <2>1, <2>2, Joined DEF Texts
<1>9. /\ Reserved \in Seq(Range(Reserved)) /\ Len(Reserved) \in Nat
      /\ \A i \in 1..Len(Reserved) : Reserved[i] # Marker
  BY GuardConstants, LenProperties, ElementOfSeq
<1>10. n \in Texts /\ w \in Texts
  BY <1>6
<1> HIDE DEF n, w
<1>11. ~IsPrefix(w, Reserved)
  <2>1. SUFFICES ASSUME IsPrefix(w, Reserved) PROVE FALSE
    OBVIOUS
  <2>2. Len(w) <= Len(Reserved) /\ \A i \in 1..Len(w) : w[i] = Reserved[i]
    BY <1>9, <1>10, <2>1, PrefixPoints DEF Texts
  <2>3. Len(n) + 1 \in 1..Len(w) /\ Len(n) + 1 \in 1..Len(Reserved)
    BY <1>5, <1>8, <1>9, <2>2
  <2> QED
    BY <1>8, <1>9, <2>2, <2>3
<1>12. ASSUME IsPrefix(Reserved, w) PROVE IsPrefix(Reserved, n)
  <2>1. Len(Reserved) <= Len(w) /\ \A i \in 1..Len(Reserved) : Reserved[i] = w[i]
    BY <1>9, <1>10, <1>12, PrefixPoints DEF Texts
  <2>2. Len(Reserved) <= Len(n)
    <3>1. SUFFICES ASSUME Len(n) + 1 <= Len(Reserved) PROVE FALSE
      BY <1>8, <1>9
    <3>2. Len(n) + 1 \in 1..Len(Reserved)
      BY <1>8, <1>9, <3>1
    <3> QED
      BY <1>8, <1>9, <2>1, <3>2
  <2>3. \A i \in 1..Len(Reserved) : Reserved[i] = n[i]
    <3> TAKE i \in 1..Len(Reserved)
    <3>1. i \in 1..Len(n)
      BY <1>8, <1>9, <2>2
    <3> QED
      BY <1>8, <2>1, <3>1
  <2> QED
    BY <1>9, <1>10, <2>2, <2>3, PrefixPoints DEF Texts
<1> QED
  BY <1>11, <1>12 DEF Begun, Named, n, w, u

Tagged(t) == Classify(t, TRUE).verdict = "block"

(***************************************************************************)
(* What is shown of a text begins nowhere with a reserved tag.             *)
(***************************************************************************)
LEMMA ResultUntagged ==
  ASSUME NEW x \in Texts, NEW i \in 0..(Len(Result(x)) - 1)
  PROVE  ~Tagged(Drop(Result(x), i))
<1> DEFINE Free(t) == \A n \in 0..(Len(Result(t)) - 1) : ~Tagged(Drop(Result(t), n))
           T == {t \in Texts : ~Free(t)}
<1>1. SUFFICES ASSUME T # {} PROVE FALSE
  OBVIOUS
<1>2. T \subseteq Seq(Symbols)
  BY DEF Texts
<1> HIDE DEF T
<1>3. PICK t \in T : \A u \in Seq(Symbols) : Len(u) < Len(t) => u \notin T
  BY <1>1, <1>2, Shortest
<1>4. t \in Texts /\ ~Free(t) /\ \A u \in Texts : Len(u) < Len(t) => Free(u)
  BY <1>3 DEF T, Texts
<1> DEFINE w == Result(t)
<1>5. PICK n \in 0..(Len(w) - 1) : Tagged(Drop(w, n))
  BY <1>4
<1>6. w \in Texts /\ Len(w) \in Nat /\ Followed(t, w) /\ Len(t) \in Nat /\ Decide(t) \in Texts
  BY <1>4, LenProperties, Results, ResultFollows DEF Texts
<1>7. Drop(w, 0) = w
  <2> HIDE DEF w
  <2>1. 0 + 1 = 1
    OBVIOUS
  <2> QED
    BY <1>6, <2>1, SubSeqFull DEF Texts, Drop
<1>8. ASSUME NEW z \in Symbols, NEW r \in Texts, Len(r) < Len(t), Result(r) \in Texts,
             w = <<z>> \o Result(r), n # 0
      PROVE  FALSE
  <2> DEFINE u == Result(r)
             zs == <<z>>
  <2>1. u \in Texts /\ Len(u) \in Nat /\ Len(w) = Len(u) + 1 /\ zs \in Texts
    BY <1>8, Before DEF Texts
  <2> HIDE DEF u, w
  <2>2. n - 1 \in 0..(Len(u) - 1) /\ n \in 1..Len(w) /\ n \in 0..Len(w) /\ (n - 1) + 1 = n
    BY <1>8, <2>1
  <2>3. w # <<>> /\ w = <<z>> \o u /\ Tail(w) = u
    BY <1>8, Before DEF Texts, u
  <2>4. Drop(w, n) = Drop(u, n - 1)
    <3>1. /\ Drop(w, n) \in Texts /\ Len(Drop(w, n)) = Len(w) - n
          /\ \A k \in 1..(Len(w) - n) : Drop(w, n)[k] = w[n + k]
      BY <1>6, <2>2, Parts DEF Texts
    <3> DEFINE m == n - 1
    <3>2. m \in 0..Len(u)
      BY <2>2
    <3>3. /\ Drop(u, m) \in Texts /\ Len(Drop(u, m)) = Len(u) - m
          /\ \A k \in 1..(Len(u) - m) : Drop(u, m)[k] = u[m + k]
      <4>1. u \in Seq(Symbols)
        BY <2>1 DEF Texts
      <4> HIDE DEF m
      <4> QED
        BY <3>2, <4>1, Parts DEF Texts
    <3>4. Len(u) - (n - 1) = Len(w) - n
      BY <2>1, <2>2
    <3>5. \A k \in 1..(Len(w) - n) : Drop(w, n)[k] = Drop(u, n - 1)[k]
      <4> TAKE k \in 1..(Len(w) - n)
      <4>1. (n - 1) + k \in 1..Len(u) /\ 1 + ((n - 1) + k) = n + k
        BY <2>1, <2>2
      <4>2. w[1 + ((n - 1) + k)] = u[(n - 1) + k]
        BY <1>8, <4>1, Before DEF Texts, u
      <4>3. Drop(w, n)[k] = w[n + k]
        BY <3>1
      <4>4. Drop(u, n - 1)[k] = u[(n - 1) + k]
        BY <3>3, <3>4
      <4> QED
        BY <4>1, <4>2, <4>3, <4>4
    <3>6. Len(Drop(w, n)) = Len(Drop(u, n - 1))
      BY <3>1, <3>3, <3>4
    <3> QED
      BY <3>1, <3>3, <3>5, <3>6, SeqEqual DEF Texts
  <2>5. ~Tagged(Drop(u, n - 1))
    BY <1>4, <1>8, <2>2 DEF u
  <2> QED
    BY <1>5, <2>4, <2>5
<1>9. ASSUME w = Decide(t), t = <<>> \/ Classify(t, FALSE).verdict = "hold" PROVE FALSE
  <2>0. t # <<>>
    <3>1. t = <<>> => Len(t) = 0
      BY EmptySeq
    <3>2. Decide(<<>>) = <<>>
      BY DEF Decide
    <3>3. Len(w) # 0
      BY <1>5, <1>6
    <3> HIDE DEF w
    <3> QED
      BY <1>9, <3>1, <3>2, <3>3
  <2>1. CASE Tagged(t)
    <3>1. w = <<Marker>>
      BY <1>9, <2>0, <2>1 DEF Decide, Tagged
    <3>2. Len(w) = 1 /\ Head(w) = Marker
      BY <3>1
    <3>3. n = 0
      BY <1>5, <3>2
    <3> HIDE DEF w
    <3>4. ~Opens(w)
      BY <3>2 DEF Opens, Marker
    <3> QED
      BY <1>5, <1>7, <3>3, <3>4, Verdicts DEF Tagged
  <2>2. CASE ~Tagged(t)
    <3>1. w = t
      BY <1>9, <2>2 DEF Decide, Tagged
    <3> HIDE DEF w
    <3>2. n # 0
      BY <1>5, <1>7, <2>2, <3>1
    <3>3. /\ Opens(t)
          /\ Begun(t) \/ Named(t)
      BY <1>9, <2>0, Verdicts
    <3>4. Begun(t)
      <4>1. <<>> \in Texts
        BY EmptySeq DEF Texts
      <4> QED
        BY <1>4, <2>0, <2>2, <3>3, <4>1, Verdicts, NamedIsNotBegun DEF Tagged
    <3>5. /\ Len(Tail(t)) = Len(t) - 1 /\ \A k \in 1..(Len(t) - 1) : Tail(t)[k] = t[1 + k]
      BY <1>4, <2>0, FirstAndRest DEF Texts
    <3>6. n \in 1..Len(Tail(t)) /\ n \in 0..Len(t) /\ 1 \in 1..(Len(t) - n) /\ n + 1 = 1 + n
      BY <1>5, <1>6, <3>1, <3>2, <3>5
    <3>7. t[1 + n] # "<"
      BY <1>4, <2>0, <3>4, <3>5, <3>6, OneOpening
    <3> DEFINE d == Drop(t, n)
    <3>8. d \in Texts /\ d[1] = t[n + 1] /\ Len(d) = Len(t) - n
      BY <1>4, <3>6, Parts DEF Texts
    <3> HIDE DEF d
    <3>9. d # <<>>
      BY <3>6, <3>8, EmptySeq
    <3>10. Head(d) = d[1]
      BY <3>8, <3>9, FirstAndRest DEF Texts
    <3>11. ~Opens(d)
      BY <3>6, <3>7, <3>8, <3>10 DEF Opens
    <3> QED
      BY <1>5, <3>1, <3>11, Verdicts DEF Tagged, d
  <2> QED
    BY <2>1, <2>2
<1>10. ASSUME NEW r \in Texts, Len(r) < Len(t), Result(r) \in Texts, w = <<Marker>> \o Result(r)
       PROVE  FALSE
  <2>1. Marker \in Symbols
    BY DEF Symbols
  <2>2. n = 0
    BY <1>8, <1>10, <2>1
  <2>3. Head(w) = Marker
    <3> DEFINE u == Result(r)
    <3>1. u \in Texts /\ w = <<Marker>> \o u
      BY <1>10
    <3> HIDE DEF u, w
    <3> QED
      BY <2>1, <3>1, Before DEF Texts
  <2> HIDE DEF w
  <2>4. ~Opens(w)
    BY <2>3 DEF Opens, Marker
  <2> QED
    BY <1>5, <1>7, <2>2, <2>4, Verdicts DEF Tagged
<1>11. ASSUME t # <<>>, Classify(t, FALSE).verdict = "safe", w # <<>>, Head(w) = Head(t), n = 0
       PROVE  FALSE
  <2>1. Tagged(w) /\ Opens(w)
    BY <1>5, <1>7, <1>11, Verdicts DEF Tagged
  <2> HIDE DEF w
  <2>2. Opens(t) /\ Head(w) = "<"
    BY <1>11, <2>1 DEF Opens
  <2>3. ~Begun(t) /\ ~Named(t)
    BY <1>11, <2>2, Verdicts
  <2>4. w # t
    BY <2>1, <2>3, Verdicts DEF Tagged
  <2>5. PICK m \in 0..Len(t) : /\ m + 1 \in 1..Len(w) /\ w[m + 1] = Marker
                               /\ \A k \in 1..m : w[k] = t[k]
    BY <1>6, <2>4 DEF Followed
  <2>6. m # 0
    <3>1. SUFFICES ASSUME m = 0 PROVE FALSE
      OBVIOUS
    <3>2. w[1] = Marker
      BY <2>5, <3>1
    <3>3. Head(w) = w[1]
      BY <1>6, <1>11, FirstAndRest DEF Texts
    <3> QED
      BY <2>2, <3>2, <3>3 DEF Marker
  <2> DEFINE a == Take(w, m)
             y == Drop(w, m)
             rest == Drop(t, m)
  <2>7. m \in 0..Len(w)
    BY <1>6, <2>5
  <2>8. /\ a \in Texts /\ Len(a) = m /\ \A k \in 1..m : a[k] = w[k]
        /\ y \in Texts /\ Len(y) = Len(w) - m /\ y[1] = w[m + 1] /\ a \o y = w
    <3>1. 1 \in 1..(Len(w) - m)
      BY <1>6, <2>5
    <3> QED
      BY <1>6, <2>7, <3>1, Parts DEF Texts
  <2>9. a = Take(t, m) /\ rest \in Texts /\ a \o rest = t
    <3>1. /\ Take(t, m) \in Texts /\ Len(Take(t, m)) = m /\ \A k \in 1..m : Take(t, m)[k] = t[k]
          /\ rest \in Texts /\ Take(t, m) \o rest = t
      BY <1>4, Parts DEF Texts
    <3>2. \A k \in 1..m : a[k] = Take(t, m)[k]
      BY <2>5, <2>8, <3>1
    <3> HIDE DEF a, rest
    <3>3. a = Take(t, m)
      BY <2>8, <3>1, <3>2, SeqEqual DEF Texts
    <3> QED
      BY <3>1, <3>3
  <2> HIDE DEF a, y, rest
  <2>10. a # <<>> /\ y # <<>>
    <3>1. Len(y) # 0
      BY <1>6, <2>5, <2>8
    <3> QED
      BY <2>6, <2>8, <3>1, EmptySeq
  <2>11. Head(y) = Marker
    BY <2>5, <2>8, <2>10, FirstAndRest DEF Texts
  <2>12. ~Begun(w) /\ (Named(w) => Named(a))
    BY <2>8, <2>10, <2>11, MarkerIsNoTag
  <2>13. Named(a) => Named(t)
    BY <2>8, <2>9, <2>10, NamedIsNotBegun
  <2> QED
    BY <2>1, <2>3, <2>12, <2>13, Verdicts DEF Tagged
<1>12. ASSUME t # <<>>, Classify(t, FALSE).verdict = "safe",
              Tail(t) \in Texts, Len(Tail(t)) < Len(t), Head(t) \in Symbols,
              w = <<Head(t)>> \o Result(Tail(t)), Result(Tail(t)) \in Texts
       PROVE  FALSE
  <2>1. n = 0
    BY <1>8, <1>12
  <2>2. w # <<>> /\ Head(w) = Head(t)
    <3> DEFINE u == Result(Tail(t))
               h == Head(t)
    <3>1. u \in Texts /\ w = <<h>> \o u /\ h \in Symbols
      BY <1>12
    <3> HIDE DEF u, w, h
    <3>2. w # <<>> /\ Head(w) = h
      BY <3>1, Before DEF Texts
    <3> QED
      BY <3>2 DEF h
  <2> QED
    BY <1>11, <1>12, <2>1, <2>2
<1> QED
  BY <1>4, <1>9, <1>10, <1>12, Results

(***************************************************************************)
(* What may go on and begins with a tag begins with one at its end too.    *)
(***************************************************************************)
LEMMA TagStays ==
  ASSUME NEW x \in Texts, NEW y \in Texts, x # <<>>, Classify(x, FALSE).verdict = "block"
  PROVE  Tagged(x) /\ Tagged(x \o y)
<1>1. Opens(x) /\ ~Begun(x) /\ Named(x)
  BY Verdicts
<1>2. /\ x \o y \in Texts /\ x \o y # <<>> /\ Head(x \o y) = Head(x)
  BY NameGrows
<1>3. Named(x \o y) /\ Opens(x \o y)
  BY <1>1, <1>2, NamedIsNotBegun DEF Opens
<1>4. ~Begun(x \o y)
  <2> DEFINE u == x \o y
  <2>1. u \in Texts /\ u # <<>> /\ Named(u) /\ <<>> \in Texts
    BY <1>2, <1>3, EmptySeq DEF Texts
  <2> HIDE DEF u
  <2>2. ~Begun(u)
    BY <2>1, NamedIsNotBegun
  <2> QED
    BY <2>2 DEF u
<1> QED
  BY <1>1, <1>3, <1>4, Verdicts DEF Tagged

(***************************************************************************)
(* Nor is there a tag in a beginning of what is shown of a text.           *)
(***************************************************************************)
LEMMA BeginningUntagged ==
  ASSUME NEW x \in Texts, NEW o \in Texts, IsPrefix(o, Result(x)), NEW i \in 0..(Len(o) - 1)
  PROVE  Classify(Drop(o, i), FALSE).verdict # "block"
<1> DEFINE w == Result(x)
<1>1. w \in Texts
  BY Results
<1> HIDE DEF w
<1>2. PICK z \in Texts : w = o \o z
  BY <1>1, PrefixRest DEF Texts, w
<1>3. Len(o) \in Nat /\ Len(z) \in Nat /\ Len(w) = Len(o) + Len(z)
  BY <1>2, Joined DEF Texts
<1>4. i \in 0..Len(o) /\ i \in 0..(Len(w) - 1)
  BY <1>3
<1> DEFINE d == Drop(o, i)
<1>5. d \in Texts /\ Len(d) = Len(o) - i
  BY <1>4, Parts DEF Texts
<1>6. Drop(w, i) = d \o z
  BY <1>2, <1>4, JoinedParts DEF Texts
<1>7. ~Tagged(Drop(w, i))
  BY <1>4, ResultUntagged DEF w
<1> HIDE DEF d
<1>8. d # <<>>
  <2>1. Len(d) # 0
    BY <1>3, <1>5
  <2> QED
    BY <2>1, EmptySeq
<1>9. Classify(d, FALSE).verdict # "block"
  BY <1>2, <1>5, <1>6, <1>7, <1>8, TagStays
<1> QED
  BY <1>9 DEF d

-----------------------------------------------------------------------------
(* The filter and the quarantine behind a detector.                         *)

Cut(t, n) == IF Len(t) <= n THEN 0 ELSE Len(t) - n

(***************************************************************************)
(* A text that is split is cut in two.                                     *)
(***************************************************************************)
LEMMA Splitting ==
  ASSUME NEW t \in Texts, NEW n \in Nat
  PROVE  /\ Cut(t, n) \in 0..Len(t) /\ Len(t) \in Nat
         /\ Split(t, n) = [released |-> Take(t, Cut(t, n)), kept |-> Drop(t, Cut(t, n))]
         /\ Split(t, n).released \in Texts /\ Split(t, n).kept \in Texts
         /\ Split(t, n).released \o Split(t, n).kept = t
<1>1. Cut(t, n) \in 0..Len(t) /\ Len(t) \in Nat
  BY LenProperties DEF Texts, Cut
<1>2. Split(t, n) = [released |-> Take(t, Cut(t, n)), kept |-> Drop(t, Cut(t, n))]
  BY DEF Split, Cut, Take, Drop
<1> DEFINE k == Cut(t, n)
<1> HIDE DEF k
<1>3. Take(t, k) \in Texts /\ Drop(t, k) \in Texts /\ Take(t, k) \o Drop(t, k) = t
  BY <1>1, Parts DEF Texts, k
<1> QED
  BY <1>1, <1>2, <1>3 DEF k

\* What a channel that holds h and q shows at its end, after raw.
AtLast(c, h, q, raw) == AtEnd(c, [held |-> h, tail |-> q], raw)

\* When the detector has let r pass, a channel holds h and q and has shown o.
Passed(c, r, h, q, o) ==
  /\ {r, h, q, o} \subseteq Texts
  /\ IF c \in ToolChannels THEN o = r /\ h = <<>> /\ q = <<>>
     ELSE h = Scan[r].held /\ o \o q = Scan[r].shown

(***************************************************************************)
(* At the beginning nothing has passed.                                    *)
(***************************************************************************)
LEMMA PassedNothing ==
  ASSUME NEW c
  PROVE  Passed(c, <<>>, <<>>, <<>>, <<>>) /\ Scan[<<>>] = [shown |-> <<>>, held |-> <<>>]
<1>1. <<>> \in Texts /\ <<>> \o <<>> = <<>>
  BY Joining, EmptySeq DEF Texts
<1>2. Scan[<<>>] = [shown |-> <<>>, held |-> <<>>]
  BY <1>1, Filtering
<1>3. Scan[<<>>].held = <<>> /\ Scan[<<>>].shown = <<>>
  BY <1>2
<1> QED
  BY <1>1, <1>2, <1>3 DEF Passed

(***************************************************************************)
(* What a channel shows of a text that is known whole.                     *)
(***************************************************************************)
LEMMA WholeIsResult ==
  ASSUME NEW c, NEW x \in Texts
  PROVE  /\ Whole(c, x) = IF c \in ToolChannels THEN x ELSE Result(x)
         /\ Whole(c, x) \in Texts
<1>1. CASE c \in ToolChannels
  BY <1>1 DEF Whole, AtEnd
<1>2. CASE c \notin ToolChannels
  <2>1. <<>> \o x = x
    BY Joining DEF Texts
  <2>2. Whole(c, x) = (<<>> \o Scan[x].shown) \o Decide(Scan[x].held)
    BY <1>2, <2>1 DEF Whole, AtEnd, Filter
  <2>3. Scan[x].shown \in Texts
    BY ScanEquation DEF Scanned
  <2>4. <<>> \o Scan[x].shown = Scan[x].shown
    BY <2>3, Joining DEF Texts
  <2>5. Whole(c, x) = Result(x)
    BY <2>2, <2>4 DEF Result
  <2> QED
    BY <1>2, <2>5, Results
<1> QED
  BY <1>1, <1>2

(***************************************************************************)
(* While more may come, filter and quarantine keep what they do not show.  *)
(***************************************************************************)
LEMMA PassedMore ==
  ASSUME NEW c, NEW r, NEW h, NEW q, NEW o, Passed(c, r, h, q, o),
         NEW raw \in Texts, window \in Nat
  PROVE  LET s == Shown(c, [held |-> h, tail |-> q], raw) IN
         /\ s.shown \in Texts /\ s.held \in Texts /\ s.tail \in Texts /\ o \o s.shown \in Texts
         /\ s = [shown |-> s.shown, held |-> s.held, tail |-> s.tail]
         /\ Passed(c, r \o raw, s.held, s.tail, o \o s.shown)
<1> DEFINE s == Shown(c, [held |-> h, tail |-> q], raw)
<1>0. r \in Texts /\ h \in Texts /\ q \in Texts /\ o \in Texts
  BY DEF Passed
<1>1. <<>> \in Texts
  BY EmptySeq DEF Texts
<1>2. CASE c \in ToolChannels
  <2>1. s = [shown |-> raw, held |-> <<>>, tail |-> <<>>]
    BY <1>2 DEF Shown
  <2>2. o \o raw \in Texts
    BY <1>0, Joined DEF Texts
  <2>3. o = r
    BY <1>2 DEF Passed
  <2>4. Passed(c, r \o raw, <<>>, <<>>, o \o raw)
    <3>1. r \o raw \in Texts
      BY <2>2, <2>3
    <3> QED
      BY <1>1, <1>2, <2>2, <2>3, <3>1 DEF Passed
  <2> HIDE DEF s
  <2> QED
    BY <1>1, <2>1, <2>2, <2>4 DEF s
<1>3. CASE c \notin ToolChannels
  <2> DEFINE f == Scan[h \o raw]
             p == f.shown
             d == Split(q \o p, window)
  <2>1. h \o raw \in Texts /\ r \o raw \in Texts
    BY <1>0, Joined DEF Texts
  <2>2. f \in Scanned
    BY <2>1, ScanEquation
  <2>3. p \in Texts /\ f.held \in Texts
    BY <2>2 DEF Scanned
  <2> HIDE DEF f
  <2>4. s = [shown |-> d.released, held |-> f.held, tail |-> d.kept]
    BY <1>3 DEF Shown, Filter, f
  <2> HIDE DEF p
  <2>5. q \o p \in Texts
    BY <1>0, <2>3, Joined DEF Texts
  <2>6. d.released \in Texts /\ d.kept \in Texts /\ d.released \o d.kept = q \o p
    BY <2>5, Splitting
  <2> DEFINE a == d.released
             b == d.kept
  <2> HIDE DEF d
  <2>7. s = [shown |-> a, held |-> f.held, tail |-> b] /\ a \in Texts /\ b \in Texts /\ a \o b = q \o p
    BY <2>4, <2>6
  <2> HIDE DEF a, b, s
  <2>8. o \o a \in Texts /\ (o \o a) \o b = (o \o q) \o p
    <3>1. o \in Texts /\ a \in Texts /\ b \in Texts /\ q \in Texts /\ p \in Texts
      BY <1>0, <2>3, <2>7
    <3>2. (o \o a) \o b = o \o (a \o b)
      <4>1. Associative(o, a, b)
        BY <3>1, Associates
      <4> QED
        BY <4>1 DEF Associative
    <3>3. (o \o q) \o p = o \o (q \o p)
      <4>1. Associative(o, q, p)
        BY <3>1, Associates
      <4> QED
        BY <4>1 DEF Associative
    <3>4. o \o a \in Texts
      BY <3>1, Joined DEF Texts
    <3> QED
      BY <2>7, <3>2, <3>3, <3>4
  <2>9. h = Scan[r].held /\ o \o q = Scan[r].shown
    BY <1>3 DEF Passed
  <2>10. Scan[r \o raw] = [shown |-> Scan[r].shown \o p, held |-> f.held]
    BY <1>0, <2>9, FilterComposes DEF f, p
  <2>11. Scan[r \o raw].shown = (o \o a) \o b /\ Scan[r \o raw].held = f.held
    BY <2>8, <2>9, <2>10
  <2>12. Passed(c, r \o raw, f.held, b, o \o a)
    BY <1>3, <2>1, <2>3, <2>7, <2>8, <2>11 DEF Passed
  <2> QED
    BY <2>3, <2>7, <2>8, <2>12 DEF s
<1> QED
  BY <1>2, <1>3

(***************************************************************************)
(* At the end of a channel it has shown what the whole text would show.    *)
(***************************************************************************)
LEMMA PassedAll ==
  ASSUME NEW c, NEW r, NEW h, NEW q, NEW o, Passed(c, r, h, q, o), NEW raw \in Texts
  PROVE  /\ r \o raw \in Texts
         /\ AtLast(c, h, q, raw) \in Texts
         /\ o \o AtLast(c, h, q, raw) = Whole(c, r \o raw)
         /\ IsPrefix(o, Whole(c, r \o raw))
<1> DEFINE e == AtLast(c, h, q, raw)
           x == r \o raw
<1>9. r \in Texts /\ h \in Texts /\ q \in Texts /\ o \in Texts
  BY DEF Passed
<1>0. x \in Texts
  BY <1>9, Joined DEF Texts
<1>1. CASE c \in ToolChannels
  <2>1. e = raw /\ o = r
    BY <1>1 DEF AtLast, AtEnd, Passed
  <2>2. Whole(c, x) = x
    BY <1>0, <1>1, WholeIsResult
  <2> HIDE DEF e
  <2>3. e \in Texts /\ o \o e = Whole(c, x)
    BY <1>9, <2>1, <2>2
  <2>4. IsPrefix(o, o \o e)
    BY <1>9, <2>3, PrefixJoined DEF Texts
  <2> QED
    BY <1>0, <2>3, <2>4 DEF e
<1>2. CASE c \notin ToolChannels
  <2> DEFINE f == Scan[h \o raw]
             p == f.shown
             d == Decide(f.held)
  <2>1. h \o raw \in Texts
    BY <1>9, Joined DEF Texts
  <2>2. f \in Scanned
    BY <2>1, ScanEquation
  <2>3. p \in Texts /\ f.held \in Texts
    BY <2>2 DEF Scanned
  <2> HIDE DEF f
  <2>4. d \in Texts
    BY <2>3, Results
  <2>5. e = (q \o p) \o d
    BY <1>2 DEF AtLast, AtEnd, Filter, f
  <2>6. h = Scan[r].held /\ o \o q = Scan[r].shown
    BY <1>2 DEF Passed
  <2> HIDE DEF p, d
  <2>7. Scan[x] = [shown |-> (o \o q) \o p, held |-> f.held]
    <3>1. Scan[x] = [shown |-> Scan[r].shown \o Scan[Scan[r].held \o raw].shown,
                     held |-> Scan[Scan[r].held \o raw].held]
      BY <1>9, FilterComposes
    <3> QED
      BY <2>6, <3>1 DEF f, p
  <2>8. Scan[x].shown = (o \o q) \o p /\ Scan[x].held = f.held
    <3> HIDE DEF x
    <3> QED
      BY <2>7
  <2>9. Whole(c, x) = ((o \o q) \o p) \o d
    BY <1>0, <1>2, <2>8, WholeIsResult DEF Result, d
  <2>10. q \o p \in Texts /\ e \in Texts
    <3>1. q \o p \in Texts
      BY <1>9, <2>3, Joined DEF Texts
    <3> QED
      BY <2>4, <2>5, <3>1, Joined DEF Texts
  <2>11. o \o ((q \o p) \o d) = ((o \o q) \o p) \o d
    <3> DEFINE z == q \o p
    <3>1. o \in Texts /\ q \in Texts /\ p \in Texts /\ d \in Texts /\ z \in Texts
      BY <1>9, <2>3, <2>4, <2>10
    <3>2. (o \o q) \o p = o \o z
      <4>1. Associative(o, q, p)
        BY <3>1, Associates
      <4> QED
        BY <4>1 DEF Associative
    <3> HIDE DEF z
    <3>3. (o \o z) \o d = o \o (z \o d)
      <4>1. Associative(o, z, d)
        BY <3>1, Associates
      <4> QED
        BY <4>1 DEF Associative
    <3> QED
      BY <3>2, <3>3 DEF z
  <2> HIDE DEF e
  <2>12. o \o e = Whole(c, x)
    BY <2>5, <2>9, <2>11
  <2>13. IsPrefix(o, o \o e)
    BY <1>9, <2>10, PrefixJoined DEF Texts
  <2> QED
    BY <1>0, <2>10, <2>12, <2>13 DEF e
<1> QED
  BY <1>1, <1>2

-----------------------------------------------------------------------------
(* The detector.                                                            *)

\* The values of an installed policy.
Patterns(C) ==
  /\ \A v \in C : v \in Seq(Range(v)) /\ v # <<>> /\ \A k \in 1..Len(v) : v[k] # Marker
  /\ \E b \in Nat : \A v \in C : Len(v) <= b

CleanOf(C, t) == \A v \in C, n \in Nat : ~At(t, n, v)

\* What a detector is to report of t: v, behind the first n symbols.
First(C, t, n, v) ==
  /\ v \in C /\ n \in Nat /\ At(t, n, v)
  /\ \A w \in C, m \in Nat : At(t, m, w) => n < m \/ (n = m /\ Len(v) <= Len(w))

Reach(C) == Max({Len(v) - 1 : v \in C} \union {0})

(***************************************************************************)
(* No value is longer than the look-behind and one symbol.                 *)
(***************************************************************************)
LEMMA Reaches ==
  ASSUME NEW C, Patterns(C)
  PROVE  Reach(C) \in Nat /\ \A v \in C : Len(v) \in Nat \ {0} /\ Len(v) - 1 <= Reach(C)
<1> DEFINE T == {Len(v) - 1 : v \in C} \union {0}
<1>1. \A v \in C : Len(v) \in Nat \ {0}
  BY EmptySeq, LenProperties DEF Patterns
<1>2. PICK b \in Nat : \A v \in C : Len(v) <= b
  BY DEF Patterns
<1>3. T \subseteq Nat /\ T # {} /\ \A x \in T : x <= b
  BY <1>1, <1>2
<1>4. \A v \in C : Len(v) - 1 \in T
  OBVIOUS
<1> HIDE DEF T
<1>5. \E x \in T : \A y \in T : y <= x
  BY <1>3, Greatest
<1>6. \A x, y \in T : y <= x <=> x >= y
  BY <1>3
<1>7. Max(T) \in T /\ \A y \in T : Max(T) >= y
  BY <1>5, <1>6 DEF Max
<1>8. Reach(C) = Max(T)
  BY DEF Reach, T
<1>9. \A v \in C : Len(v) - 1 <= Max(T)
  BY <1>4, <1>6, <1>7
<1> QED
  BY <1>1, <1>3, <1>7, <1>8, <1>9

(***************************************************************************)
(* Where a value stands, by position and by the number of symbols before.  *)
(***************************************************************************)
LEMMA OccursWhere ==
  ASSUME NEW v, v \in Seq(Range(v)), v # <<>>, NEW t \in Texts, NEW n \in Nat
  PROVE  /\ At(t, n, v) <=> n + 1 \in Occurs(v, t)
         /\ At(t, n, v) => n + 1 \in 1..Len(t)
<1>1. Len(v) \in Nat \ {0} /\ Len(t) \in Nat /\ \A i \in 1..Len(t) : t[i] \in Symbols
  BY EmptySeq, LenProperties, ElementOfSeq DEF Texts
<1>2. n + 1 \in 1..(Len(t) + 1 - Len(v)) <=> n + Len(v) <= Len(t)
  BY <1>1
<1>3. ASSUME n + Len(v) <= Len(t)
      PROVE  SubSeq(t, n + 1, n + 1 + Len(v) - 1) = v <=> \A k \in 1..Len(v) : t[n + k] = v[k]
  <2> DEFINE s == SubSeq(t, n + 1, n + Len(v))
  <2>1. n + 1 \in Int /\ n + Len(v) \in Int /\ n + 1 <= n + Len(v)
        /\ \A i \in (n + 1)..(n + Len(v)) : t[i] \in Symbols
    BY <1>1, <1>3
  <2>2. /\ s \in Seq(Symbols)
        /\ Len(s) = n + Len(v) - (n + 1) + 1
        /\ \A i \in 1..(n + Len(v) - (n + 1) + 1) : s[i] = t[n + 1 + i - 1]
    BY <2>1, SubSeqProperties
  <2> HIDE DEF s
  <2>3. Len(s) = Len(v)
    BY <1>1, <2>2
  <2>4. \A i \in 1..Len(v) : s[i] = t[n + i]
    <3> TAKE i \in 1..Len(v)
    <3>1. i \in 1..(n + Len(v) - (n + 1) + 1) /\ n + 1 + i - 1 = n + i
      BY <1>1
    <3> QED
      BY <2>2, <3>1
  <2>5. s \in Seq(Symbols \cup Range(v)) /\ v \in Seq(Symbols \cup Range(v))
    BY <2>2, SeqMonotonic
  <2>6. s = v <=> \A i \in 1..Len(v) : s[i] = v[i]
    BY <2>3, <2>5, SeqEqual
  <2>7. n + 1 + Len(v) - 1 = n + Len(v)
    BY <1>1
  <2> QED
    BY <2>4, <2>6, <2>7 DEF s
<1>4. At(t, n, v) <=> n + 1 \in Occurs(v, t)
  BY <1>2, <1>3 DEF At, Occurs
<1>5. At(t, n, v) => n + 1 \in 1..Len(t)
  BY <1>1 DEF At
<1> QED
  BY <1>4, <1>5

(***************************************************************************)
(* There is a first value in a text that is not clean, and only one.       *)
(***************************************************************************)
LEMMA FirstExists ==
  ASSUME NEW C, Patterns(C), NEW t \in Texts
  PROVE  /\ ~CleanOf(C, t) => \E n \in Nat, v \in C : First(C, t, n, v)
         /\ \A n, m, v, w : First(C, t, n, v) /\ First(C, t, m, w) => n = m /\ v = w
<1>1. ASSUME ~CleanOf(C, t) PROVE \E n \in Nat, v \in C : First(C, t, n, v)
  <2> DEFINE N == {n \in Nat : \E v \in C : At(t, n, v)}
  <2>1. N \subseteq Nat /\ N # {}
    BY <1>1 DEF CleanOf
  <2>2. \A m \in Nat, w \in C : At(t, m, w) => m \in N
    OBVIOUS
  <2> HIDE DEF N
  <2>3. PICK n \in N : \A m \in N : n <= m
    BY <2>1, Least
  <2> DEFINE L == {Len(v) : v \in {w \in C : At(t, n, w)}}
  <2>4. L \subseteq Nat /\ L # {}
    BY <2>3, Reaches DEF N
  <2>5. \A w \in C : At(t, n, w) => Len(w) \in L
    OBVIOUS
  <2>6. \A l \in L : \E v \in C : At(t, n, v) /\ l = Len(v)
    OBVIOUS
  <2> HIDE DEF L
  <2>7. PICK l \in L : \A k \in L : l <= k
    BY <2>4, Least
  <2>8. PICK v \in C : At(t, n, v) /\ l = Len(v)
    BY <2>6
  <2>9. ASSUME NEW w \in C, NEW m \in Nat, At(t, m, w)
        PROVE  n < m \/ (n = m /\ Len(v) <= Len(w))
    <3>1. n <= m /\ n \in Nat
      BY <2>1, <2>2, <2>3, <2>9
    <3>2. n = m => Len(v) <= Len(w)
      BY <2>5, <2>7, <2>8, <2>9
    <3> QED
      BY <3>1, <3>2
  <2> QED
    BY <2>1, <2>8, <2>9 DEF First
<1>2. ASSUME NEW n, NEW m, NEW v, NEW w, First(C, t, n, v), First(C, t, m, w)
      PROVE  n = m /\ v = w
  <2>1. n \in Nat /\ m \in Nat /\ v \in C /\ w \in C /\ At(t, n, v) /\ At(t, m, w)
    BY <1>2 DEF First
  <2>2. n < m \/ (n = m /\ Len(v) <= Len(w))
    BY <1>2, <2>1 DEF First
  <2>3. m < n \/ (m = n /\ Len(w) <= Len(v))
    BY <1>2, <2>1 DEF First
  <2>4. Len(v) \in Nat /\ Len(w) \in Nat
    BY <2>1, Reaches
  <2>5. n = m /\ Len(v) = Len(w)
    BY <2>1, <2>2, <2>3, <2>4
  <2>6. \A k \in 1..Len(v) : v[k] = w[k]
    BY <2>1, <2>5 DEF At
  <2>7. v \in Seq(Range(v) \cup Range(w)) /\ w \in Seq(Range(v) \cup Range(w))
    BY <2>1, SeqMonotonic DEF Patterns
  <2>8. v = w
    BY <2>5, <2>6, <2>7, SeqEqual
  <2> QED
    BY <2>5, <2>8
<1> QED
  BY <1>1, <1>2

(***************************************************************************)
(* The detector finds the first value.                                     *)
(***************************************************************************)
LEMMA Detects ==
  ASSUME Patterns(canaries), NEW t \in Texts
  PROVE  /\ CleanOf(canaries, t) => Find(t) = [start |-> Len(t) + 1, value |-> None]
         /\ \A n, v : First(canaries, t, n, v) => Find(t) = [start |-> n + 1, value |-> v]
<1> DEFINE hits == {[start |-> i, value |-> v] : v \in canaries, i \in 1..Len(t)}
           found == {h \in hits : h.start \in Occurs(h.value, t)}
           Best(h) == \A o \in found : \/ h.start < o.start
                                       \/ h.start = o.start /\ Len(h.value) <= Len(o.value)
<1>1. Len(t) \in Nat
  BY LenProperties DEF Texts
<1>2. \A v \in canaries, n \in Nat :
        At(t, n, v) <=> (n + 1 \in 1..Len(t) /\ n + 1 \in Occurs(v, t))
  BY OccursWhere DEF Patterns
<1>3. \A v \in canaries, n \in Nat : At(t, n, v) => [start |-> n + 1, value |-> v] \in found
  <2> TAKE v \in canaries, n \in Nat
  <2> DEFINE h == [start |-> n + 1, value |-> v]
  <2>1. SUFFICES ASSUME At(t, n, v) PROVE h \in found
    OBVIOUS
  <2>2. n + 1 \in 1..Len(t) /\ n + 1 \in Occurs(v, t)
    BY <1>2, <2>1
  <2>3. h \in hits
    BY <2>2
  <2>4. h.start = n + 1 /\ h.value = v
    OBVIOUS
  <2> HIDE DEF h, hits
  <2> QED
    BY <2>2, <2>3, <2>4
<1>4. ASSUME NEW h \in found
      PROVE  \E n \in Nat, v \in canaries : h = [start |-> n + 1, value |-> v] /\ At(t, n, v)
  <2>1. PICK v \in canaries, i \in 1..Len(t) : h = [start |-> i, value |-> v]
    OBVIOUS
  <2>2. h.start \in Occurs(h.value, t)
    OBVIOUS
  <2>3. h.start = i /\ h.value = v
    BY <2>1
  <2>4. i - 1 \in Nat /\ (i - 1) + 1 = i
    BY <1>1
  <2> HIDE DEF hits, found
  <2>5. At(t, i - 1, v)
    BY <1>2, <2>2, <2>3, <2>4
  <2> QED
    BY <2>1, <2>4, <2>5
<1>5. Find(t) = IF found = {} THEN [start |-> Len(t) + 1, value |-> None]
                ELSE CHOOSE h \in found : Best(h)
  BY DEF Find
<1> HIDE DEF hits, found
<1>6. ASSUME CleanOf(canaries, t) PROVE Find(t) = [start |-> Len(t) + 1, value |-> None]
  <2>1. found = {}
    BY <1>4, <1>6 DEF CleanOf
  <2> QED
    BY <1>5, <2>1
<1>7. ASSUME NEW n, NEW v, First(canaries, t, n, v)
      PROVE  Find(t) = [start |-> n + 1, value |-> v]
  <2> DEFINE g == [start |-> n + 1, value |-> v]
  <2>1. n \in Nat /\ v \in canaries /\ At(t, n, v)
    BY <1>7 DEF First
  <2>2. g \in found
    BY <1>3, <2>1
  <2>3. g.start = n + 1 /\ g.value = v
    OBVIOUS
  <2> HIDE DEF g
  <2>4. ASSUME NEW o \in found
        PROVE  g.start < o.start \/ (g.start = o.start /\ Len(g.value) <= Len(o.value))
    <3>1. PICK m \in Nat, w \in canaries : o = [start |-> m + 1, value |-> w] /\ At(t, m, w)
      BY <1>4
    <3>2. o.start = m + 1 /\ o.value = w
      BY <3>1
    <3>3. n < m \/ (n = m /\ Len(v) <= Len(w))
      BY <1>7, <3>1 DEF First
    <3> QED
      BY <2>1, <2>3, <3>2, <3>3
  <2>5. Best(g)
    BY <2>4
  <2>6. PICK f : f = (CHOOSE h \in found : Best(h)) /\ f \in found /\ Best(f)
    BY <2>2, <2>5
  <2>7. Find(t) = f
    BY <1>5, <2>2, <2>6
  <2>8. PICK m \in Nat, w \in canaries : f = [start |-> m + 1, value |-> w] /\ At(t, m, w)
    BY <1>4, <2>6
  <2>9. f.start = m + 1 /\ f.value = w
    BY <2>8
  <2>10. f.start < g.start \/ (f.start = g.start /\ Len(f.value) <= Len(g.value))
    BY <2>2, <2>6
  <2>11. g.start < f.start \/ (g.start = f.start /\ Len(g.value) <= Len(f.value))
    BY <2>4, <2>6
  <2>12. Len(v) \in Nat /\ Len(w) \in Nat
    BY <2>1, Reaches
  <2>13. n = m /\ Len(v) = Len(w)
    BY <2>1, <2>3, <2>9, <2>10, <2>11, <2>12
  <2>14. First(canaries, t, m, w)
    <3>1. ASSUME NEW u \in canaries, NEW k \in Nat, At(t, k, u)
          PROVE  m < k \/ (m = k /\ Len(w) <= Len(u))
      BY <1>7, <2>13, <3>1 DEF First
    <3> QED
      BY <2>8, <3>1 DEF First
  <2>15. v = w
    BY <1>7, <2>14, FirstExists
  <2> QED
    BY <2>7, <2>8, <2>13, <2>15
<1> QED
  BY <1>6, <1>7

(***************************************************************************)
(* A text that is cut twice.                                               *)
(***************************************************************************)
LEMMA CutTwice ==
  ASSUME NEW S, NEW t \in Seq(S), NEW n \in 0..Len(t), NEW m \in 0..(Len(t) - n)
  PROVE  /\ n + m \in 0..Len(t)
         /\ Take(t, n) \o Take(Drop(t, n), m) = Take(t, n + m)
         /\ Drop(Drop(t, n), m) = Drop(t, n + m)
<1> DEFINE a == Take(t, n)
           d == Drop(t, n)
           b == Take(d, m)
           e == Drop(d, m)
<1>1. Len(t) \in Nat /\ n + m \in 0..Len(t) /\ n + m \in Nat
  BY LenProperties
<1>2. /\ a \in Seq(S) /\ Len(a) = n /\ d \in Seq(S) /\ Len(d) = Len(t) - n /\ a \o d = t
  BY Parts
<1> HIDE DEF a, d
<1>3. /\ b \in Seq(S) /\ Len(b) = m /\ e \in Seq(S) /\ Len(e) = Len(t) - n - m /\ b \o e = d
  <2>1. m \in 0..Len(d)
    BY <1>2
  <2>2. Len(d) - m = Len(t) - n - m
    BY <1>2
  <2> QED
    BY <1>2, <2>1, <2>2, Parts
<1> HIDE DEF b, e
<1> DEFINE c == a \o b
<1>4. c \in Seq(S) /\ Len(c) = n + m
  BY <1>2, <1>3, Joined
<1>5. c \o e = t
  <2>1. (a \o b) \o e = a \o (b \o e)
    <3>1. a \in Seq(S) /\ b \in Seq(S) /\ e \in Seq(S)
      BY <1>2, <1>3
    <3>2. Associative(a, b, e)
      BY <3>1, ThreeJoined
    <3> QED
      BY <3>2 DEF Associative
  <2> QED
    BY <1>2, <1>3, <2>1
<1> HIDE DEF c
<1>6. Take(c \o e, n + m) = Take(c, n + m) /\ Drop(c \o e, n + m) = Drop(c, n + m) \o e
  <2>1. n + m \in 0..Len(c)
    BY <1>1, <1>4
  <2> QED
    BY <1>3, <1>4, <2>1, JoinedParts
<1>7. Take(c, n + m) = c /\ Drop(c, n + m) = <<>>
  <2>1. Take(c, Len(c)) = c
    BY <1>4, SubSeqFull DEF Take
  <2>2. n + m \in 0..Len(c) /\ Len(c) - (n + m) = 0
    BY <1>1, <1>4
  <2>3. Len(Drop(c, n + m)) = 0 /\ Drop(c, n + m) \in Seq(S)
    BY <1>4, <2>2, Parts
  <2> QED
    BY <1>4, <2>1, <2>3, EmptySeq
<1>8. <<>> \o e = e
  BY <1>3, ConcatEmptySeq
<1> QED
  BY <1>1, <1>5, <1>6, <1>7, <1>8 DEF a, b, c, d, e

(***************************************************************************)
(* The beginning of a clean text is clean, and so is what comes before the *)
(* first value of a text.                                                  *)
(***************************************************************************)
LEMMA CleanBefore ==
  ASSUME NEW C, Patterns(C), NEW t \in Texts
  PROVE  /\ \A s \in Texts : CleanOf(C, t \o s) => CleanOf(C, t)
         /\ \A n \in 0..Len(t) : CleanOf(C, t) => CleanOf(C, Take(t, n))
         /\ \A n, v : First(C, t, n, v) => n \in 0..Len(t) /\ CleanOf(C, Take(t, n))
<1>1. Len(t) \in Nat
  BY LenProperties DEF Texts
<1>2. ASSUME NEW s \in Texts, CleanOf(C, t \o s), NEW v \in C, NEW n \in Nat, At(t, n, v)
      PROVE  FALSE
  <2>1. v \in Seq(Range(v))
    BY DEF Patterns
  <2>2. At(t \o s, n, v)
    BY <1>2, <2>1, AtJoined DEF Texts
  <2> QED
    BY <1>2, <2>2 DEF CleanOf
<1>3. \A m \in 0..Len(t), v \in C, n \in Nat : At(Take(t, m), n, v) => At(t, n, v) /\ n + Len(v) <= m
  <2> TAKE m \in 0..Len(t), v \in C, n \in Nat
  <2>1. v \in Seq(Range(v))
    BY DEF Patterns
  <2> QED
    BY <2>1, AtParts DEF Texts
<1>4. ASSUME NEW n, NEW v, First(C, t, n, v)
      PROVE  n \in 0..Len(t) /\ CleanOf(C, Take(t, n))
  <2>1. n \in Nat /\ v \in C /\ At(t, n, v)
    BY <1>4 DEF First
  <2>2. n \in 0..Len(t)
    BY <1>1, <2>1, Reaches DEF At
  <2>3. ASSUME NEW w \in C, NEW m \in Nat, At(Take(t, n), m, w) PROVE FALSE
    <3>1. At(t, m, w) /\ m + Len(w) <= n /\ Len(w) \in Nat \ {0}
      BY <1>3, <2>2, <2>3, Reaches
    <3>2. n < m \/ (n = m /\ Len(v) <= Len(w))
      BY <1>4, <2>3, <3>1 DEF First
    <3> QED
      BY <2>1, <3>1, <3>2
  <2> QED
    BY <2>2, <2>3 DEF CleanOf
<1>5. \A n \in 0..Len(t) : CleanOf(C, t) => CleanOf(C, Take(t, n))
  BY <1>3 DEF CleanOf
<1> QED
  BY <1>2, <1>4, <1>5 DEF CleanOf

(***************************************************************************)
(* What comes before the first value, as the model writes it.              *)
(***************************************************************************)
LEMMA BeforeTheFirst ==
  ASSUME Patterns(canaries), NEW t \in Texts
  PROVE  /\ Clean(t) <=> CleanOf(canaries, t)
         /\ CleanOf(canaries, t) => BeforeCanary(t) = t
         /\ \A n, v : First(canaries, t, n, v) =>
              /\ BeforeCanary(t) = Take(t, n) /\ Find(t).value = v /\ v \in canaries /\ v # None
         /\ BeforeCanary(t) \in Texts /\ CleanOf(canaries, BeforeCanary(t))
<1>1. Len(t) \in Nat
  BY LenProperties DEF Texts
<1>2. ASSUME CleanOf(canaries, t) PROVE Clean(t) /\ BeforeCanary(t) = t
  <2>1. Find(t).start = Len(t) + 1 /\ Find(t).value = None
    BY <1>2, Detects
  <2>2. SubSeq(t, 1, Len(t)) = t
    BY SubSeqFull DEF Texts
  <2>3. (Len(t) + 1) - 1 = Len(t)
    BY <1>1
  <2> QED
    BY <2>1, <2>2, <2>3 DEF Clean, BeforeCanary
<1>3. ASSUME NEW n, NEW v, First(canaries, t, n, v)
      PROVE  /\ BeforeCanary(t) = Take(t, n) /\ Find(t).value = v /\ v \in canaries /\ v # None
             /\ n \in 0..Len(t)
  <2>1. Find(t) = [start |-> n + 1, value |-> v]
    BY <1>3, Detects
  <2>2. Find(t).start = n + 1 /\ Find(t).value = v
    BY <2>1
  <2>3. n \in Nat /\ v \in canaries /\ (n + 1) - 1 = n
    BY <1>3 DEF First
  <2>4. v # None
    BY <2>3 DEF Patterns, None
  <2> QED
    BY <1>3, <2>2, <2>3, <2>4, CleanBefore DEF BeforeCanary, Take
<1>4. ASSUME ~CleanOf(canaries, t) PROVE \E n, v : First(canaries, t, n, v)
  BY <1>4, FirstExists
<1>5. Clean(t) => CleanOf(canaries, t)
  BY <1>3, <1>4 DEF Clean
<1>6. BeforeCanary(t) \in Texts /\ CleanOf(canaries, BeforeCanary(t))
  <2>1. CASE CleanOf(canaries, t)
    BY <1>2, <2>1
  <2>2. CASE ~CleanOf(canaries, t)
    <3>1. PICK n, v : First(canaries, t, n, v)
      BY <1>4, <2>2
    <3>2. BeforeCanary(t) = Take(t, n) /\ n \in 0..Len(t) /\ CleanOf(canaries, Take(t, n))
      BY <1>3, <3>1, CleanBefore
    <3>3. Take(t, n) \in Texts
      BY <3>2, Parts DEF Texts
    <3> QED
      BY <3>2, <3>3
  <2> QED
    BY <2>1, <2>2
<1> QED
  BY <1>2, <1>3, <1>5, <1>6

\* What a detector that keeps a behind its first n symbols makes of p.
Detected(a, n, p) ==
  LET g == Guarded(Drop(a, n), p)
      t == a \o p
  IN /\ t \in Texts
     /\ g = [released |-> g.released, kept |-> g.kept, found |-> g.found]
     /\ g.released \in Texts /\ g.kept \in Texts
     /\ CleanOf(canaries, t) =>
          /\ g.found = None /\ g.kept = Drop(t, Cut(t, RequiredWindow))
          /\ Take(a, n) \o g.released = Take(t, Cut(t, RequiredWindow))
     /\ ~CleanOf(canaries, t) =>
          /\ g.found = Find(t).value /\ g.found \in canaries /\ g.found # None
          /\ g.kept = <<>> /\ Take(a, n) \o g.released = BeforeCanary(t)

(***************************************************************************)
(* While nothing was found, a detector that looks behind keeps all a value *)
(* could still begin in: it reports what the whole text would make it      *)
(* report, and has let pass as much as it would let pass of the whole.     *)
(***************************************************************************)
LEMMA Inspecting ==
  ASSUME Patterns(canaries), NEW a \in Texts, NEW p \in Texts, CleanOf(canaries, a),
         NEW n, n = Cut(a, RequiredWindow)
  PROVE  Detected(a, n, p)
<1> DEFINE t == a \o p
           d == Drop(t, n)
           w == RequiredWindow
<1>1. w \in Nat /\ \A v \in canaries : Len(v) \in Nat \ {0} /\ Len(v) - 1 <= w
  BY Reaches DEF RequiredWindow, Reach
<1>2. Len(a) \in Nat /\ n \in 0..Len(a) /\ (n # 0 => n = Len(a) - w)
  <2>1. Len(a) \in Nat
    BY LenProperties DEF Texts
  <2> HIDE DEF w
  <2>2. n = Cut(a, w)
    BY DEF w
  <2> QED
    BY <1>1, <2>1, <2>2 DEF Cut
<1>3. t \in Texts /\ Len(t) = Len(a) + Len(p) /\ Len(p) \in Nat
  BY Joined DEF Texts
<1>4. Take(t, n) = Take(a, n) /\ d = Drop(a, n) \o p
  BY <1>2, JoinedParts DEF Texts
<1> HIDE DEF w
<1>5. n \in 0..Len(t) /\ n \in Nat
  <2> HIDE DEF t
  <2> QED
    BY <1>2, <1>3
<1>6. d \in Texts /\ Len(d) = Len(t) - n
  <2> HIDE DEF t
  <2> QED
    BY <1>3, <1>5, Parts DEF Texts
<1>7. ASSUME NEW v \in canaries, NEW i \in Nat PROVE At(d, i, v) <=> At(t, n + i, v)
  <2>1. v \in Seq(Range(v))
    BY DEF Patterns
  <2> HIDE DEF t
  <2> QED
    BY <1>3, <1>5, <2>1, AtParts DEF Texts
<1>8. ASSUME NEW v \in canaries, NEW i \in Nat, At(t, i, v) PROVE i >= n /\ i + Len(v) > Len(a)
  <2>1. v \in Seq(Range(v))
    BY DEF Patterns
  <2>2. ~At(a, i, v)
    BY DEF CleanOf
  <2>3. ~(i + Len(v) <= Len(a))
    BY <1>8, <2>1, <2>2, AtJoined DEF Texts
  <2>4. Len(v) \in Nat \ {0} /\ Len(v) - 1 <= w
    BY <1>1
  <2> QED
    BY <1>1, <1>2, <2>3, <2>4
<1>9. CleanOf(canaries, t) <=> CleanOf(canaries, d)
  <2>1. ASSUME CleanOf(canaries, t) PROVE CleanOf(canaries, d)
    <3>1. ASSUME NEW v \in canaries, NEW i \in Nat, At(d, i, v) PROVE FALSE
      <4> HIDE DEF t, d
      <4>1. n + i \in Nat
        BY <1>5
      <4>2. At(t, n + i, v)
        BY <1>7, <3>1
      <4> QED
        BY <2>1, <4>1, <4>2 DEF CleanOf
    <3> QED
      BY <3>1 DEF CleanOf
  <2>2. ASSUME CleanOf(canaries, d) PROVE CleanOf(canaries, t)
    <3>1. ASSUME NEW v \in canaries, NEW i \in Nat, At(t, i, v) PROVE FALSE
      <4>1. i - n \in Nat /\ n + (i - n) = i
        BY <1>5, <1>8, <3>1
      <4>2. At(d, i - n, v)
        BY <1>7, <3>1, <4>1
      <4> QED
        BY <2>2, <4>1, <4>2 DEF CleanOf
    <3> QED
      BY <3>1 DEF CleanOf
  <2> QED
    BY <2>1, <2>2
<1> DEFINE found == Find(d)
           split == Split(d, RequiredWindow)
           g == Guarded(Drop(a, n), p)
<1>10. g = IF found.value # None
           THEN [released |-> SubSeq(d, 1, found.start - 1), kept |-> <<>>, found |-> found.value]
           ELSE [released |-> split.released, kept |-> split.kept, found |-> None]
  BY <1>4 DEF Guarded
<1>11. CASE CleanOf(canaries, t)
  <2>1. found.value = None
    BY <1>6, <1>9, <1>11, Detects
  <2>2. g = [released |-> split.released, kept |-> split.kept, found |-> None]
    BY <1>10, <2>1
  <2> DEFINE k == Cut(d, w)
  <2> HIDE DEF d, found
  <2>3. /\ k \in 0..Len(d) /\ split = [released |-> Take(d, k), kept |-> Drop(d, k)]
        /\ split.released \in Texts /\ split.kept \in Texts
    BY <1>1, <1>6, Splitting DEF w
  <2>4. split.released = Take(d, k) /\ split.kept = Drop(d, k)
    BY <2>3
  <2>5. k \in 0..(Len(t) - n) /\ n + k = Cut(t, w)
    <3> DEFINE x == Len(a)
               y == Len(t)
               z == Len(d)
    <3>1. /\ w \in Nat /\ x \in Nat /\ y \in Nat /\ n \in 0..x /\ x <= y
          /\ (n # 0 => n = x - w) /\ z = y - n
      <4> HIDE DEF t
      <4> QED
        BY <1>1, <1>2, <1>3, <1>6
    <3>2. /\ k = IF z <= w THEN 0 ELSE z - w
          /\ Cut(t, w) = IF y <= w THEN 0 ELSE y - w
      BY DEF Cut
    <3>3. k \in 0..(y - n)
      BY <2>3, <3>1
    <3> HIDE DEF x, y, z, k
    <3>4. CASE z <= w
      <4>1. n = IF y <= w THEN 0 ELSE y - w
        BY <3>1, <3>4
      <4> QED
        BY <3>1, <3>2, <3>3, <3>4, <4>1 DEF y
    <3>5. CASE ~(z <= w)
      <4>1. ~(y <= w) /\ n + (z - w) = y - w
        BY <3>1, <3>5
      <4> QED
        BY <3>1, <3>2, <3>3, <3>5, <4>1 DEF y
    <3> QED
      BY <3>4, <3>5
  <2> HIDE DEF k
  <2>6. Take(t, n) \o Take(d, k) = Take(t, n + k) /\ Drop(d, k) = Drop(t, n + k)
    <3> HIDE DEF t
    <3> QED
      BY <1>3, <1>5, <2>5, CutTwice DEF Texts, d
  <2> HIDE DEF split, g
  <2>7. /\ g.found = None /\ g.kept = Drop(t, n + k) /\ g.released = Take(d, k)
        /\ g.released \in Texts /\ g.kept \in Texts
        /\ g = [released |-> g.released, kept |-> g.kept, found |-> g.found]
    BY <2>2, <2>3, <2>4, <2>6
  <2>8. Take(a, n) \o g.released = Take(t, n + k)
    BY <1>4, <2>6, <2>7
  <2> HIDE DEF t
  <2> QED
    BY <1>3, <1>11, <2>5, <2>7, <2>8 DEF g, t, w, Detected
<1>12. CASE ~CleanOf(canaries, t)
  <2>1. PICK i \in Nat, v \in canaries : First(canaries, t, i, v)
    BY <1>3, <1>12, FirstExists
  <2>2. At(t, i, v) /\ i >= n /\ i - n \in Nat /\ n + (i - n) = i
    BY <1>5, <1>8, <2>1 DEF First
  <2>3. First(canaries, d, i - n, v)
    <3>1. At(d, i - n, v)
      BY <1>7, <2>2
    <3>2. ASSUME NEW u \in canaries, NEW m \in Nat, At(d, m, u)
          PROVE  i - n < m \/ (i - n = m /\ Len(v) <= Len(u))
      <4> HIDE DEF t, d
      <4>0. n + m \in Nat
        BY <1>5
      <4>1. At(t, n + m, u)
        BY <1>7, <3>2
      <4>2. i < n + m \/ (i = n + m /\ Len(v) <= Len(u))
        BY <2>1, <4>0, <4>1 DEF First
      <4> QED
        BY <1>5, <4>2
    <3> QED
      BY <2>2, <3>1, <3>2 DEF First
  <2>4. found = [start |-> (i - n) + 1, value |-> v]
    BY <1>6, <2>3, Detects
  <2>5. BeforeCanary(t) = Take(t, i) /\ Find(t).value = v /\ v # None
    BY <1>3, <2>1, BeforeTheFirst
  <2>6. ((i - n) + 1) - 1 = i - n
    BY <1>5, <2>2
  <2>7. g = [released |-> Take(d, i - n), kept |-> <<>>, found |-> v]
    <3>1. found.value = v /\ found.start = (i - n) + 1
      BY <2>4
    <3> HIDE DEF found
    <3> QED
      BY <1>10, <2>5, <2>6, <3>1 DEF Take
  <2>8. i \in 0..Len(t)
    BY <1>3, <2>1, CleanBefore
  <2> DEFINE k == i - n
  <2>9. k \in 0..(Len(t) - n) /\ k \in 0..Len(d) /\ n + k = i
    <3> HIDE DEF t, d
    <3> QED
      BY <1>3, <1>5, <1>6, <2>2, <2>8
  <2> HIDE DEF k
  <2>10. Take(t, n) \o Take(d, k) = Take(t, n + k)
    <3> HIDE DEF t
    <3> QED
      BY <1>3, <1>5, <2>9, CutTwice DEF Texts
  <2>11. Take(d, k) \in Texts /\ <<>> \in Texts
    <3> HIDE DEF d
    <3> QED
      BY <1>6, <2>9, Parts, EmptySeq DEF Texts
  <2> HIDE DEF g, d
  <2>12. /\ g.found = v /\ g.kept = <<>> /\ g.released = Take(d, k)
         /\ g = [released |-> g.released, kept |-> g.kept, found |-> g.found]
    BY <2>7 DEF k
  <2>13. Take(a, n) \o g.released = Take(t, i)
    BY <1>4, <2>9, <2>10, <2>12
  <2> HIDE DEF t
  <2> QED
    BY <1>3, <1>12, <2>1, <2>5, <2>11, <2>12, <2>13 DEF g, t, Detected
<1> QED
  BY <1>11, <1>12

(***************************************************************************)
(* What a detector has let pass comes before the first value of the text,  *)
(* however it goes on.                                                     *)
(***************************************************************************)
LEMMA PassedIsBefore ==
  ASSUME Patterns(canaries), NEW s \in Texts, NEW m \in 0..Len(s),
         CleanOf(canaries, Take(s, m))
  PROVE  LET a == Take(s, m)
             n == Cut(a, RequiredWindow)
         IN \E z \in Texts : BeforeCanary(s) = Take(a, n) \o z
<1> DEFINE a == Take(s, m)
           w == RequiredWindow
           n == Cut(a, w)
<1>1. w \in Nat /\ \A v \in canaries : Len(v) \in Nat \ {0} /\ Len(v) - 1 <= w
  BY Reaches DEF RequiredWindow, Reach
<1>2. a \in Texts /\ Len(a) = m /\ Len(s) \in Nat /\ Drop(s, m) \in Texts /\ a \o Drop(s, m) = s
  BY Parts, LenProperties DEF Texts
<1> HIDE DEF w, a
<1>3. n \in 0..m /\ (n # 0 => n = m - w)
  BY <1>1, <1>2 DEF Cut
<1> HIDE DEF n
<1> DEFINE f == Take(a, n)
           y == Drop(a, n)
<1>4. f \in Texts /\ Len(f) = n /\ y \in Texts /\ f \o y = a
  BY <1>2, <1>3, Parts DEF Texts
<1>5. CASE CleanOf(canaries, s)
  <2>1. BeforeCanary(s) = s
    BY <1>5, BeforeTheFirst
  <2> HIDE DEF f, y
  <2> DEFINE x == Drop(s, m)
  <2>2. x \in Texts /\ a \o x = s
    BY <1>2
  <2> HIDE DEF x
  <2>3. (f \o y) \o x = f \o (y \o x) /\ y \o x \in Texts
    <3>1. f \in Texts /\ y \in Texts /\ x \in Texts
      BY <1>4, <2>2
    <3>2. (f \o y) \o x = f \o (y \o x)
      <4>1. Associative(f, y, x)
        BY <3>1, Associates
      <4> QED
        BY <4>1 DEF Associative
    <3>3. y \o x \in Texts
      BY <3>1, Joined DEF Texts
    <3> QED
      BY <3>2, <3>3
  <2>4. s = f \o (y \o x)
    BY <1>4, <2>2, <2>3
  <2> QED
    BY <2>1, <2>3, <2>4 DEF f, n, a, w
<1>6. CASE ~CleanOf(canaries, s)
  <2>1. PICK i \in Nat, v \in canaries : First(canaries, s, i, v)
    BY <1>6, FirstExists
  <2>2. BeforeCanary(s) = Take(s, i) /\ i \in 0..Len(s)
    BY <2>1, BeforeTheFirst, CleanBefore
  <2>3. At(s, i, v) /\ v \in Seq(Range(v))
    BY <2>1 DEF First, Patterns
  <2>4. ~(i + Len(v) <= m)
    <3>1. At(a, i, v) <=> At(s, i, v) /\ i + Len(v) <= m
      BY <2>3, AtParts DEF Texts, a
    <3>2. ~At(a, i, v)
      BY <2>1 DEF CleanOf, a
    <3> QED
      BY <2>3, <3>1, <3>2
  <2>5. n <= i
    BY <1>1, <1>3, <2>1, <2>4
  <2> DEFINE b == Take(s, i)
  <2>6. b \in Texts /\ Len(b) = i /\ \A j \in 1..i : b[j] = s[j]
    BY <2>2, Parts DEF Texts
  <2>7. f = Take(s, n)
    <3>1. n \in 0..Len(a)
      BY <1>2, <1>3
    <3>2. Take(a \o Drop(s, m), n) = Take(a, n)
      BY <1>2, <3>1, JoinedParts DEF Texts
    <3> QED
      BY <1>2, <3>2
  <2>8. n \in 0..i /\ n \in 0..Len(s)
    BY <1>2, <1>3, <2>1, <2>2, <2>5
  <2>9. /\ Len(Take(s, n)) = n /\ \A j \in 1..n : Take(s, n)[j] = s[j]
    BY <2>8, Parts DEF Texts
  <2> HIDE DEF f, b
  <2>10. IsPrefix(f, b)
    <3>1. Len(f) <= Len(b)
      BY <1>4, <2>6, <2>8
    <3>2. \A j \in 1..Len(f) : f[j] = b[j]
      <4> TAKE j \in 1..Len(f)
      <4>1. j \in 1..n /\ j \in 1..i
        BY <1>4, <2>8
      <4> QED
        BY <2>6, <2>7, <2>9, <4>1
    <3> QED
      BY <1>4, <2>6, <3>1, <3>2, PrefixPoints DEF Texts
  <2>11. \E z \in Texts : b = f \o z
    <3>1. f \in Seq(Symbols) /\ b \in Seq(Symbols)
      BY <1>4, <2>6 DEF Texts
    <3>2. \E z \in Seq(Symbols) : b = f \o z
      BY <2>10, <3>1, PrefixRest
    <3> QED
      BY <3>2 DEF Texts
  <2> QED
    BY <2>2, <2>11 DEF b, f, n, a, w
<1> QED
  BY <1>5, <1>6

-----------------------------------------------------------------------------
(* One channel.                                                             *)

\* A channel of which a has arrived: nothing was found in it; while it may go
\* on, what its detector keeps and what has passed make up a; once it has
\* finished it has shown all of a and keeps nothing.
Flow(C, done, c, a, k, h, q, o) ==
  /\ {a, k, h, q, o} \subseteq Texts
  /\ CleanOf(C, a)
  /\ IF done THEN k = <<>> /\ h = <<>> /\ q = <<>> /\ o = Whole(c, a)
     ELSE /\ k = Drop(a, Cut(a, Reach(C)))
          /\ Passed(c, Take(a, Cut(a, Reach(C))), h, q, o)

(***************************************************************************)
(* A channel that keeps nothing and gets nothing shows nothing.            *)
(***************************************************************************)
LEMMA Nothing ==
  ASSUME NEW c, Patterns(canaries), window \in Nat
  PROVE  LET s == [held |-> <<>>, tail |-> <<>>] IN
         /\ Guarded(<<>>, <<>>) = [released |-> <<>>, kept |-> <<>>, found |-> None]
         /\ Shown(c, s, <<>>) = [shown |-> <<>>, held |-> <<>>, tail |-> <<>>]
         /\ AtEnd(c, s, <<>>) = <<>>
         /\ CleanOf(canaries, <<>>)
<1>1. <<>> \in Texts /\ <<>> \o <<>> = <<>> /\ Len(<<>>) = 0
  BY Joining, EmptySeq DEF Texts
<1>2. CleanOf(canaries, <<>>)
  BY <1>1, Reaches DEF CleanOf, At
<1>3. \A n \in Nat : Split(<<>>, n) = [released |-> <<>>, kept |-> <<>>]
  <2> TAKE n \in Nat
  <2>1. Split(<<>>, n) = [released |-> SubSeq(<<>>, 1, 0), kept |-> SubSeq(<<>>, 0 + 1, 0)]
    BY <1>1 DEF Split
  <2>2. SubSeq(<<>>, 1, 0) = <<>>
    OBVIOUS
  <2> QED
    BY <2>1, <2>2
<1>4. RequiredWindow \in Nat
  BY Reaches DEF RequiredWindow, Reach
<1>5. Guarded(<<>>, <<>>) = [released |-> <<>>, kept |-> <<>>, found |-> None]
  <2>1. Find(<<>>).value = None
    BY <1>1, <1>2, Detects
  <2> QED
    BY <1>1, <1>3, <1>4, <2>1 DEF Guarded
<1>6. Scan[<<>>].shown = <<>> /\ Scan[<<>>].held = <<>>
  BY PassedNothing
<1>7. Decide(<<>>) = <<>>
  BY DEF Decide
<1>8. Shown(c, [held |-> <<>>, tail |-> <<>>], <<>>) = [shown |-> <<>>, held |-> <<>>, tail |-> <<>>]
  BY <1>1, <1>3, <1>6 DEF Shown, Filter
<1>9. AtEnd(c, [held |-> <<>>, tail |-> <<>>], <<>>) = <<>>
  BY <1>1, <1>6, <1>7 DEF AtEnd, Filter
<1> QED
  BY <1>2, <1>5, <1>8, <1>9

(***************************************************************************)
(* A channel that gives up what it keeps has shown all that arrived.       *)
(***************************************************************************)
LEMMA FlowEnds ==
  ASSUME Patterns(canaries), window \in Nat, NEW done, NEW c, NEW a, NEW k, NEW h, NEW q, NEW o,
         Flow(canaries, done, c, a, k, h, q, o)
  PROVE  o \o AtLast(c, h, q, k) = Whole(c, a)
<1>0. a \in Texts /\ k \in Texts /\ h \in Texts /\ q \in Texts /\ o \in Texts
  BY DEF Flow
<1>1. CASE done
  <2>1. k = <<>> /\ h = <<>> /\ q = <<>> /\ o = Whole(c, a)
    BY <1>1 DEF Flow
  <2>2. AtLast(c, h, q, k) = <<>>
    BY <2>1, Nothing DEF AtLast
  <2>3. o \o <<>> = o
    BY <1>0, Joining DEF Texts
  <2> QED
    BY <2>1, <2>2, <2>3
<1>2. CASE ~done
  <2> DEFINE n == Cut(a, Reach(canaries))
             r == Take(a, n)
  <2>1. k = Drop(a, n) /\ Passed(c, r, h, q, o)
    BY <1>2 DEF Flow
  <2>2. n \in 0..Len(a)
    BY <1>0, Reaches, Splitting
  <2> HIDE DEF n
  <2>3. r \in Texts /\ r \o k = a
    BY <1>0, <2>1, <2>2, Parts DEF Texts
  <2> HIDE DEF r
  <2>4. o \o AtLast(c, h, q, k) = Whole(c, r \o k)
    <3>1. Passed(c, r, h, q, o) /\ k \in Texts
      BY <1>0, <2>1
    <3> QED
      BY <3>1, PassedAll
  <2> QED
    BY <2>3, <2>4
<1> QED
  BY <1>1, <1>2

(***************************************************************************)
(* An interrupt releases what comes before the first value, or all.        *)
(***************************************************************************)
LEMMA FlowInterrupted ==
  ASSUME Patterns(canaries), window \in Nat, NEW done, NEW c, NEW a, NEW k, NEW h, NEW q, NEW o,
         Flow(canaries, done, c, a, k, h, q, o), NEW p \in Texts, done => p = <<>>
  PROVE  LET g == Guarded(k, p) IN
         /\ a \o p \in Texts
         /\ g.found # None <=> ~CleanOf(canaries, a \o p)
         /\ g.found # None => g.found = Find(a \o p).value /\ g.found \in canaries
         /\ o \o AtLast(c, h, q, g.released \o g.kept)
              = Whole(c, BeforeCanary(a \o p))
<1> DEFINE g == Guarded(k, p)
           t == a \o p
<1>9. a \in Texts /\ k \in Texts /\ h \in Texts /\ q \in Texts /\ o \in Texts
  BY DEF Flow
<1>0. t \in Texts
  BY <1>9, Joined DEF Texts
<1>1. CASE done
  <2>1. k = <<>> /\ h = <<>> /\ q = <<>> /\ o = Whole(c, a) /\ p = <<>> /\ CleanOf(canaries, a)
    BY <1>1 DEF Flow
  <2>2. g.released = <<>> /\ g.kept = <<>> /\ g.found = None
    BY <2>1, Nothing
  <2>3. <<>> \o <<>> = <<>> /\ t = a /\ o \o <<>> = o
    BY <1>9, <2>1, Joining DEF Texts
  <2>4. AtLast(c, h, q, <<>>) = <<>>
    BY <2>1, Nothing DEF AtLast
  <2>5. BeforeCanary(a) = a
    BY <1>9, <2>1, BeforeTheFirst
  <2> HIDE DEF t, g
  <2>6. o \o AtLast(c, h, q, g.released \o g.kept) = Whole(c, BeforeCanary(t))
    BY <2>1, <2>2, <2>3, <2>4, <2>5
  <2> QED
    BY <1>0, <2>1, <2>2, <2>3, <2>6 DEF t, g
<1>2. CASE ~done
  <2> DEFINE n == Cut(a, RequiredWindow)
             r == Take(a, n)
  <2>1. k = Drop(a, n) /\ Passed(c, r, h, q, o) /\ CleanOf(canaries, a)
    BY <1>2 DEF Flow, RequiredWindow, Reach
  <2>2. n \in 0..Len(a)
    BY <1>9, Reaches, Splitting DEF RequiredWindow, Reach
  <2>9. n = Cut(a, RequiredWindow)
    OBVIOUS
  <2>3. /\ g.released \in Texts /\ g.kept \in Texts
        /\ CleanOf(canaries, t) =>
             /\ g.found = None /\ g.kept = Drop(t, Cut(t, RequiredWindow))
             /\ r \o g.released = Take(t, Cut(t, RequiredWindow))
        /\ ~CleanOf(canaries, t) =>
             /\ g.found = Find(t).value /\ g.found \in canaries /\ g.found # None
             /\ g.kept = <<>> /\ r \o g.released = BeforeCanary(t)
    <3>1. k = Drop(a, n) /\ CleanOf(canaries, a)
      BY <2>1
    <3> HIDE DEF n
    <3>2. Detected(a, n, p)
      BY <1>9, <2>9, <3>1, Inspecting
    <3> QED
      BY <3>1, <3>2 DEF Detected
  <2> HIDE DEF n
  <2>4. r \in Texts
    BY <1>9, <2>2, Parts DEF Texts
  <2> DEFINE x == g.released
             y == g.kept
  <2> HIDE DEF r, t, g
  <2>5. x \in Texts /\ y \in Texts /\ x \o y \in Texts
    BY <2>3, Joined DEF Texts
  <2> HIDE DEF x, y
  <2>6. o \o AtLast(c, h, q, x \o y) = Whole(c, r \o (x \o y))
    BY <2>1, <2>5, PassedAll
  <2>7. (r \o x) \o y = r \o (x \o y)
    <3>1. Associative(r, x, y)
      BY <2>4, <2>5, Associates
    <3> QED
      BY <3>1 DEF Associative
  <2>8. (r \o x) \o y = BeforeCanary(t)
    <3>1. CASE CleanOf(canaries, t)
      <4>1. BeforeCanary(t) = t
        BY <1>0, <3>1, BeforeTheFirst
      <4> DEFINE m == Cut(t, RequiredWindow)
      <4>2. m \in 0..Len(t)
        BY <1>0, Reaches, Splitting DEF RequiredWindow, Reach
      <4>3. r \o x = Take(t, m) /\ y = Drop(t, m)
        BY <2>3, <3>1 DEF x, y
      <4> HIDE DEF m
      <4>4. Take(t, m) \o Drop(t, m) = t
        BY <1>0, <4>2, Parts DEF Texts
      <4> QED
        BY <4>1, <4>3, <4>4
    <3>2. CASE ~CleanOf(canaries, t)
      <4>1. r \o x = BeforeCanary(t) /\ y = <<>> /\ BeforeCanary(t) \in Texts
        BY <1>0, <2>3, <3>2, BeforeTheFirst DEF x, y
      <4>2. BeforeCanary(t) \o <<>> = BeforeCanary(t)
        BY <4>1, Joining DEF Texts
      <4> QED
        BY <4>1, <4>2
    <3> QED
      BY <3>1, <3>2
  <2> QED
    BY <1>0, <2>3, <2>6, <2>7, <2>8 DEF x, y, g, t
<1> QED
  BY <1>1, <1>2

\* What a channel makes of a piece while it goes on.
Sent(c, h, q, k, p) == Shown(c, [held |-> h, tail |-> q], Guarded(k, p).released)

\* It flows with what has arrived and the piece, and would show all of it if it
\* ended with the piece.
Flows(done, c, a, k, h, q, o, p) ==
  LET g == Guarded(k, p)
      s == Sent(c, h, q, k, p)
  IN /\ a \o p \in Texts /\ g.kept \in Texts
     /\ s.held \in Texts /\ s.tail \in Texts /\ s.shown \in Texts
     /\ o \o s.shown \in Texts
     /\ Flow(canaries, done, c, a \o p, g.kept, s.held, s.tail, o \o s.shown)
     /\ o \o (s.shown \o AtEnd(c, s, g.kept)) = Whole(c, a \o p)

(***************************************************************************)
(* A channel that goes on, or finishes, with the piece of an event.        *)
(***************************************************************************)
LEMMA FlowReleased ==
  ASSUME Patterns(canaries), window \in Nat, NEW done, NEW c, NEW a, NEW k, NEW h, NEW q, NEW o,
         Flow(canaries, done, c, a, k, h, q, o), NEW p \in Texts, done => p = <<>>,
         CleanOf(canaries, a \o p)
  PROVE  Flows(done, c, a, k, h, q, o, p)
<1> DEFINE g == Guarded(k, p)
           s == Shown(c, [held |-> h, tail |-> q], g.released)
           t == a \o p
<1>9. a \in Texts /\ k \in Texts /\ h \in Texts /\ q \in Texts /\ o \in Texts
  BY DEF Flow
<1>0. t \in Texts /\ <<>> \in Texts
  BY <1>9, Joined, EmptySeq DEF Texts
<1>1. /\ g.kept \in Texts /\ s.held \in Texts /\ s.tail \in Texts
      /\ s.shown \in Texts /\ o \o s.shown \in Texts
      /\ Flow(canaries, done, c, t, g.kept, s.held, s.tail, o \o s.shown)
  <2>1. CASE done
    <3>1. k = <<>> /\ h = <<>> /\ q = <<>> /\ o = Whole(c, a) /\ p = <<>> /\ CleanOf(canaries, a)
      BY <2>1 DEF Flow
    <3>2. g.released = <<>> /\ g.kept = <<>>
      BY <3>1, Nothing
    <3> HIDE DEF g
    <3>3. s = [shown |-> <<>>, held |-> <<>>, tail |-> <<>>]
      BY <3>1, <3>2, Nothing
    <3> HIDE DEF s
    <3>4. s.shown = <<>> /\ s.held = <<>> /\ s.tail = <<>>
      BY <3>3
    <3>5. t = a /\ o \o <<>> = o
      BY <1>9, <3>1, Joining DEF Texts
    <3> HIDE DEF t
    <3>6. Flow(canaries, done, c, t, g.kept, s.held, s.tail, o \o s.shown)
      BY <1>0, <1>9, <2>1, <3>1, <3>2, <3>4, <3>5 DEF Flow
    <3> QED
      BY <1>0, <1>9, <3>2, <3>4, <3>5, <3>6
  <2>2. CASE ~done
    <3> DEFINE n == Cut(a, RequiredWindow)
               r == Take(a, n)
               m == Cut(t, RequiredWindow)
    <3>1. k = Drop(a, n) /\ Passed(c, r, h, q, o) /\ CleanOf(canaries, a)
      BY <2>2 DEF Flow, RequiredWindow, Reach
    <3>2. n \in 0..Len(a)
      BY <1>9, Reaches, Splitting DEF RequiredWindow, Reach
    <3>3. /\ g.released \in Texts /\ g.kept \in Texts
          /\ g.kept = Drop(t, m) /\ r \o g.released = Take(t, m)
      <4>1. n = Cut(a, RequiredWindow)
        OBVIOUS
      <4>2. k = Drop(a, n) /\ CleanOf(canaries, a)
        BY <3>1
      <4> HIDE DEF n
      <4>3. Detected(a, n, p)
        BY <1>9, <4>1, <4>2, Inspecting
      <4> QED
        BY <4>2, <4>3 DEF Detected, r
    <3> HIDE DEF n
    <3>4. r \in Texts
      BY <1>9, <3>2, Parts DEF Texts
    <3> DEFINE x == g.released
    <3>5. x \in Texts
      BY <3>3
    <3> HIDE DEF r, x
    <3>6. /\ s.shown \in Texts /\ s.held \in Texts /\ s.tail \in Texts /\ o \o s.shown \in Texts
          /\ Passed(c, r \o x, s.held, s.tail, o \o s.shown)
      BY <3>1, <3>5, PassedMore DEF x
    <3>7. m = Cut(t, Reach(canaries))
      BY DEF RequiredWindow, Reach
    <3>8. r \o x = Take(t, m) /\ g.kept = Drop(t, m) /\ g.kept \in Texts
      BY <3>3 DEF x
    <3> HIDE DEF s, m, t, g
    <3>9. CleanOf(canaries, t)
      BY DEF t
    <3>10. Flow(canaries, done, c, t, g.kept, s.held, s.tail, o \o s.shown)
      BY <1>0, <2>2, <3>6, <3>7, <3>8, <3>9 DEF Flow
    <3> QED
      BY <3>6, <3>8, <3>10
  <2> QED
    BY <2>1, <2>2
<1>2. AtEnd(c, s, g.kept) = AtLast(c, s.held, s.tail, g.kept)
  <2> HIDE DEF s, g
  <2> QED
    BY DEF AtLast, AtEnd
<1> DEFINE e == AtLast(c, s.held, s.tail, g.kept)
<1>3. (o \o s.shown) \o e = Whole(c, t)
  <2> HIDE DEF s, g, t
  <2> DEFINE oo == o \o s.shown
             kk == g.kept
             hh == s.held
             qq == s.tail
  <2>1. Flow(canaries, done, c, t, kk, hh, qq, oo)
    BY <1>1
  <2> HIDE DEF oo, kk, hh, qq
  <2>2. oo \o AtLast(c, hh, qq, kk) = Whole(c, t)
    BY <2>1, FlowEnds
  <2> QED
    BY <2>2 DEF oo, kk, hh, qq
<1>4. e \in Texts
  <2>1. \A hh, qq, kk \in Texts : AtLast(c, hh, qq, kk) \in Texts
    <3> TAKE hh, qq, kk \in Texts
    <3>1. CASE c \in ToolChannels
      BY <3>1 DEF AtLast, AtEnd
    <3>2. CASE c \notin ToolChannels
      <4> DEFINE f == Scan[hh \o kk]
      <4>1. hh \o kk \in Texts
        BY Joined DEF Texts
      <4>2. f.shown \in Texts /\ f.held \in Texts
        BY <4>1, ScanEquation DEF Scanned
      <4> HIDE DEF f
      <4>3. Decide(f.held) \in Texts
        BY <4>2, Results
      <4>4. AtLast(c, hh, qq, kk) = (qq \o f.shown) \o Decide(f.held)
        BY <3>2 DEF AtLast, AtEnd, Filter, f
      <4>5. qq \o f.shown \in Texts
        BY <4>2, Joined DEF Texts
      <4>6. (qq \o f.shown) \o Decide(f.held) \in Texts
        BY <4>3, <4>5, Joined DEF Texts
      <4> QED
        BY <4>4, <4>6
    <3> QED
      BY <3>1, <3>2
  <2> HIDE DEF s, g
  <2> QED
    BY <1>1, <2>1
<1>5. o \o (s.shown \o e) = (o \o s.shown) \o e
  <2> DEFINE z == s.shown
  <2>1. z \in Texts
    BY <1>1
  <2> HIDE DEF e, z
  <2>2. o \o (z \o e) = (o \o z) \o e
    <3>1. o \in Texts /\ z \in Texts /\ e \in Texts
      BY <1>4, <1>9, <2>1 DEF e
    <3>2. Associative(o, z, e)
      BY <3>1, Associates
    <3> QED
      BY <3>2 DEF Associative
  <2> QED
    BY <2>2 DEF z
<1> HIDE DEF s, g, e, t
<1>6. o \o (s.shown \o AtEnd(c, s, g.kept)) = Whole(c, t)
  BY <1>2, <1>3, <1>5 DEF e
<1> QED
  BY <1>0, <1>1, <1>6 DEF s, g, t, Sent, Flows

-----------------------------------------------------------------------------
(* The channels of an event.                                                *)

(***************************************************************************)
(* The first of some channels is one of them; texts come before tool       *)
(* calls, and among tool calls none of the others comes before it.         *)
(***************************************************************************)
LEMMA FirstOfHits ==
  ASSUME NEW hits, hits \subseteq Channels, hits # {}
  PROVE  /\ FirstOf(hits) \in hits
         /\ ~(hits \subseteq ToolChannels) => FirstOf(hits) \in TextChannels
         /\ hits \subseteq ToolChannels => \A i, j \in DOMAIN ToolOrder :
              ToolOrder[i] = FirstOf(hits) /\ j < i => ToolOrder[j] \notin hits
<1> DEFINE order == TextOrder \o ToolOrder
           x == Len(TextOrder)
           y == Len(ToolOrder)
           T == {i \in DOMAIN order : order[i] \in hits}
<1>1. TextOrder \in Seq(Channels) /\ ToolOrder \in Seq(Channels)
  <2>1. TextChannels \subseteq Channels /\ ToolChannels \subseteq Channels
    BY DEF Channels
  <2>2. TextOrder \in Seq(TextChannels) /\ ToolOrder \in Seq(ToolChannels)
    BY GuardConstants
  <2> QED
    BY <2>1, <2>2, SeqMonotonic
<1>2. /\ order \in Seq(Channels) /\ Len(order) = x + y /\ x \in Nat /\ y \in Nat
      /\ \A i \in 1..x : order[i] = TextOrder[i]
      /\ \A i \in 1..y : order[x + i] = ToolOrder[i]
  BY <1>1, Joined
<1>3. DOMAIN TextOrder = 1..x /\ DOMAIN ToolOrder = 1..y /\ DOMAIN order = 1..(x + y)
  BY <1>1, <1>2, LenProperties
<1>4. /\ \A c \in TextChannels : \E i \in 1..x : TextOrder[i] = c
      /\ \A c \in ToolChannels : \E i \in 1..y : ToolOrder[i] = c
      /\ \A i \in 1..x : TextOrder[i] \in TextChannels
      /\ \A i \in 1..y : ToolOrder[i] \in ToolChannels
  BY <1>3 DEF TextChannels, ToolChannels, Range
<1>5. \A i, j \in 1..y : ToolOrder[i] = ToolOrder[j] => i = j
  BY <1>3, GuardConstants
<1>6. FirstOf(hits) = order[Min(T)]
  BY DEF FirstOf
<1> HIDE DEF order, x, y
<1>7. T = {i \in 1..(x + y) : order[i] \in hits}
  BY <1>3
<1>8. \A c \in hits : \E i \in T : order[i] = c /\ (c \in TextChannels => i <= x)
  <2> TAKE c \in hits
  <2>1. CASE c \in TextChannels
    <3>1. PICK i \in 1..x : TextOrder[i] = c
      BY <1>4, <2>1
    <3>2. order[i] = c /\ i \in 1..(x + y) /\ i <= x
      BY <1>2, <3>1
    <3> QED
      BY <1>7, <3>2
  <2>2. CASE c \notin TextChannels
    <3>1. PICK i \in 1..y : ToolOrder[i] = c
      BY <1>4, <2>2 DEF Channels
    <3>2. order[x + i] = c /\ x + i \in 1..(x + y)
      BY <1>2, <3>1
    <3> QED
      BY <1>7, <2>2, <3>2
  <2> QED
    BY <2>1, <2>2
<1>9. T \subseteq Nat /\ T # {}
  BY <1>2, <1>7, <1>8
<1> DEFINE m == Min(T)
<1>10. m \in T /\ \A j \in T : m <= j
  <2>1. PICK i \in T : \A j \in T : i <= j
    BY <1>9, Least
  <2> HIDE DEF T
  <2> QED
    BY <2>1 DEF Min
<1> HIDE DEF T, m
<1>11. FirstOf(hits) = order[m] /\ m \in 1..(x + y) /\ order[m] \in hits
  BY <1>6, <1>7, <1>10 DEF m
<1>12. ASSUME ~(hits \subseteq ToolChannels) PROVE order[m] \in TextChannels
  <2>1. PICK c \in hits : c \in TextChannels
    BY <1>12 DEF Channels
  <2>2. PICK i \in T : i <= x
    BY <1>8, <2>1
  <2>3. m \in 1..x
    BY <1>2, <1>9, <1>10, <1>11, <2>2
  <2> QED
    BY <1>2, <1>4, <2>3
<1>13. ASSUME hits \subseteq ToolChannels, NEW i \in 1..y, NEW j \in 1..y,
              ToolOrder[i] = order[m], j < i, ToolOrder[j] \in hits
       PROVE  FALSE
  <2>1. m \notin 1..x
    <3>1. SUFFICES ASSUME m \in 1..x PROVE FALSE
      OBVIOUS
    <3>2. order[m] \in TextChannels
      BY <1>2, <1>4, <3>1
    <3>3. TextChannels \intersect ToolChannels = {}
      BY GuardConstants
    <3> QED
      BY <1>11, <1>13, <3>2, <3>3
  <2>2. m - x \in 1..y /\ x + (m - x) = m
    BY <1>2, <1>11, <2>1
  <2>3. ToolOrder[m - x] = order[m]
    BY <1>2, <2>2
  <2>4. i = m - x
    BY <1>5, <1>13, <2>2, <2>3
  <2>5. x + j \in T
    <3>1. x + j \in 1..(x + y) /\ order[x + j] = ToolOrder[j]
      BY <1>2, <1>13
    <3> QED
      BY <1>7, <1>13, <3>1
  <2>6. m <= x + j
    BY <1>10, <2>5
  <2> QED
    BY <1>2, <1>11, <1>13, <2>4, <2>6
<1> QED
  BY <1>3, <1>11, <1>12, <1>13

-----------------------------------------------------------------------------
(* The invariant.                                                           *)

Typed ==
  /\ phase \in {"starting", "refused", "open", "complete", "failed", "interrupted", "left"}
  /\ streaming \in BOOLEAN /\ window \in Windows
  /\ Patterns(canaries)
  /\ script \in Scripts /\ finished \subseteq ChoiceIds
  /\ at \in [Channels -> Nat] /\ \A c \in Channels : at[c] <= Len(script[c])
  /\ carry \in [Channels -> Texts] /\ held \in [Channels -> Texts]
  /\ tail \in [Channels -> Texts] /\ out \in [Channels -> Texts]
  /\ match \in canaries \union {None}

\* Before the start nothing has happened.
Fresh ==
  phase = "starting" =>
    /\ finished = {} /\ match = None
    /\ \A c \in Channels : /\ at[c] = 0 /\ out[c] = <<>>
                           /\ carry[c] = <<>> /\ held[c] = <<>> /\ tail[c] = <<>>

\* Every channel of an open answer flows.
Flowing ==
  phase = "open" => \A c \in Channels :
    Flow(canaries, ChoiceOf[c] \in finished, c, Arrived(c), carry[c], held[c], tail[c], out[c])

\* What was shown is the beginning of what some clean text shows.
Given(C, c, o) == \E x \in Texts : CleanOf(C, x) /\ IsPrefix(o, Whole(c, x))

Giving == \A c \in Channels : Given(canaries, c, out[c])

Ended == phase \in {"complete", "failed"} => \A c \in Channels : out[c] = Whole(c, Arrived(c))

\* A channel has shown all that is safe of a.
Stopped(C, c, a, o) ==
  \/ CleanOf(C, a) /\ o = Whole(c, a)
  \/ \E n, v : First(C, a, n, v) /\ o = Whole(c, Take(a, n))

Broken ==
  phase = "interrupted" =>
    /\ \E c \in Channels, n \in Nat : First(canaries, Arrived(c), n, match)
    /\ streaming => \A c \in TextChannels : Stopped(canaries, c, Arrived(c), out[c])

GuardInv == Typed /\ Fresh /\ Flowing /\ Giving /\ Ended /\ Broken

(***************************************************************************)
(* What is known of the texts in every state of the invariant.             *)
(***************************************************************************)
LEMMA StateTexts ==
  ASSUME Typed, NEW c \in Channels
  PROVE  /\ script[c] \in Texts /\ at[c] \in 0..Len(script[c]) /\ window \in Nat
         /\ Arrived(c) = Take(script[c], at[c]) /\ Arrived(c) \in Texts
         /\ carry[c] \in Texts /\ held[c] \in Texts /\ tail[c] \in Texts /\ out[c] \in Texts
<1>1. script[c] \in Texts /\ window \in Nat
  BY GuardConstants DEF Typed
<1>2. at[c] \in Nat /\ Len(script[c]) \in Nat /\ at[c] <= Len(script[c])
  BY <1>1, LenProperties DEF Typed, Texts
<1>3. at[c] \in 0..Len(script[c])
  BY <1>2
<1>4. Arrived(c) = Take(script[c], at[c])
  BY DEF Arrived, Take
<1>5. Arrived(c) \in Texts
  BY <1>1, <1>3, <1>4, Parts DEF Texts
<1>6. carry[c] \in Texts /\ held[c] \in Texts /\ tail[c] \in Texts /\ out[c] \in Texts
  BY DEF Typed
<1> QED
  BY <1>1, <1>3, <1>4, <1>5, <1>6

(***************************************************************************)
(* All that a clean text shows is given, and so is nothing.                *)
(***************************************************************************)
LEMMA WholeIsGiven ==
  ASSUME NEW C, NEW c, NEW x \in Texts, CleanOf(C, x)
  PROVE  Given(C, c, Whole(c, x)) /\ Given(C, c, <<>>)
<1> DEFINE w == Whole(c, x)
<1>1. w \in Texts
  BY WholeIsResult
<1> HIDE DEF w
<1>2. <<>> \in Texts /\ w \o <<>> = w /\ <<>> \o w = w
  BY <1>1, Joining DEF Texts
<1>3. IsPrefix(w, w \o <<>>) /\ IsPrefix(<<>>, <<>> \o w)
  BY <1>1, <1>2, PrefixJoined DEF Texts
<1>4. IsPrefix(w, w) /\ IsPrefix(<<>>, w)
  BY <1>2, <1>3
<1> QED
  BY <1>4 DEF Given, w

(***************************************************************************)
(* A channel that flows has shown no more than a clean text shows.         *)
(***************************************************************************)
LEMMA FlowGives ==
  ASSUME Patterns(canaries), NEW done, NEW c, NEW a, NEW k, NEW h, NEW q, NEW o,
         Flow(canaries, done, c, a, k, h, q, o)
  PROVE  Given(canaries, c, o)
<1>0. a \in Texts /\ k \in Texts /\ CleanOf(canaries, a)
  BY DEF Flow
<1>1. CASE done
  BY <1>0, <1>1, WholeIsGiven DEF Flow
<1>2. CASE ~done
  <2> DEFINE n == Cut(a, Reach(canaries))
             r == Take(a, n)
  <2>1. k = Drop(a, n) /\ Passed(c, r, h, q, o)
    BY <1>2 DEF Flow
  <2>2. n \in 0..Len(a)
    BY <1>0, Reaches, Splitting
  <2> HIDE DEF n
  <2>3. r \o k = a
    BY <1>0, <2>1, <2>2, Parts DEF Texts
  <2> HIDE DEF r
  <2>4. IsPrefix(o, Whole(c, r \o k))
    <3>1. Passed(c, r, h, q, o) /\ k \in Texts
      BY <1>0, <2>1
    <3> QED
      BY <3>1, PassedAll
  <2> QED
    BY <1>0, <2>3, <2>4 DEF Given
<1> QED
  BY <1>1, <1>2

-----------------------------------------------------------------------------
(* The operations.                                                          *)

\* What a channel gets with an event, what its detector makes of it, and what
\* has arrived then.
Piece(sizes, c) == SubSeq(script[c], at[c] + 1, at[c] + sizes[c])
Fed(sizes, c) == Guarded(carry[c], Piece(sizes, c))
Hits(sizes) == {c \in Channels : Fed(sizes, c).found # None}
Soon(sizes, c) == Take(script[c], at[c] + sizes[c])

(***************************************************************************)
(* What has arrived and the piece are what has arrived then.               *)
(***************************************************************************)
LEMMA Pieces ==
  ASSUME Typed, NEW sizes \in [Channels -> Nat], NEW c \in Channels,
         at[c] + sizes[c] <= Len(script[c])
  PROVE  /\ Piece(sizes, c) \in Texts /\ Soon(sizes, c) \in Texts
         /\ Arrived(c) \in Texts /\ Arrived(c) \o Piece(sizes, c) = Soon(sizes, c)
         /\ at[c] + sizes[c] \in 0..Len(script[c])
         /\ sizes[c] = 0 => Piece(sizes, c) = <<>>
<1> DEFINE s == script[c]
           m == at[c]
           z == sizes[c]
<1>1. /\ s \in Texts /\ m \in 0..Len(s) /\ Len(s) \in Nat /\ z \in Nat /\ m + z <= Len(s)
      /\ Arrived(c) = SubSeq(s, 1, m) /\ Arrived(c) \in Texts
  BY StateTexts, LenProperties DEF Texts, Take
<1>2. Piece(sizes, c) = SubSeq(s, m + 1, m + z) /\ Soon(sizes, c) = SubSeq(s, 1, m + z)
  BY DEF Piece, Soon, Take
<1> HIDE DEF s, m, z
<1>3. /\ 1 \in 1..(Len(s) + 1) /\ m \in (1 - 1)..Len(s) /\ m + z \in m..Len(s)
      /\ m + z \in 0..Len(s)
  BY <1>1
<1>4. SubSeq(s, 1, m) \o SubSeq(s, m + 1, m + z) = SubSeq(s, 1, m + z)
  BY <1>1, <1>3, ConcatAdjacentSubSeq DEF Texts
<1>5. SubSeq(s, 1, m + z) \in Texts
  BY <1>1, <1>3, Parts DEF Texts, Take
<1>6. /\ SubSeq(s, m + 1, m + z) \in Texts
      /\ z = 0 => SubSeq(s, m + 1, m + z) = <<>>
  <2>1. m + 1 \in Int /\ m + z \in Int /\ \A i \in (m + 1)..(m + z) : i \in 1..Len(s)
    BY <1>1
  <2>2. \A i \in (m + 1)..(m + z) : s[i] \in Symbols
    BY <1>1, <2>1, ElementOfSeq DEF Texts
  <2> DEFINE x == m + 1
             y == m + z
  <2>3. x \in Int /\ y \in Int /\ (z = 0 => ~(x <= y)) /\ \A i \in x..y : s[i] \in Symbols
    BY <1>1, <2>1, <2>2
  <2> HIDE DEF x, y
  <2>4. /\ SubSeq(s, x, y) \in Seq(Symbols)
        /\ Len(SubSeq(s, x, y)) = IF x <= y THEN y - x + 1 ELSE 0
    BY <2>3, SubSeqProperties
  <2>5. z = 0 => Len(SubSeq(s, x, y)) = 0
    BY <2>3, <2>4
  <2>6. z = 0 => SubSeq(s, x, y) = <<>>
    BY <2>4, <2>5, Joining
  <2> QED
    BY <2>4, <2>6 DEF x, y, Texts
<1> QED
  BY <1>1, <1>2, <1>3, <1>4, <1>5, <1>6 DEF s, m, z

(***************************************************************************)
(* The detectors of the texts are always fed, those of the tool calls up   *)
(* to the first that holds a value.                                        *)
(***************************************************************************)
LEMMA Feeding ==
  ASSUME NEW sizes
  PROVE  LET seen == Inspected(sizes) IN
         /\ seen.hits = Hits(sizes)
         /\ \A c \in TextChannels : seen.step[c] = Fed(sizes, c)
         /\ \A c \in ToolChannels : \/ seen.step[c] = Fed(sizes, c)
              \/ seen.step[c] = [released |-> <<>>, kept |-> carry[c], found |-> None]
         /\ Hits(sizes) = {} => \A c \in Channels : seen.step[c] = Fed(sizes, c)
         /\ Hits(sizes) # {} => /\ FirstOf(Hits(sizes)) \in Hits(sizes)
              /\ seen.step[FirstOf(Hits(sizes))].found = Fed(sizes, FirstOf(Hits(sizes))).found
<1> DEFINE fed == [c \in Channels |-> Fed(sizes, c)]
           hits == {c \in Channels : fed[c].found # None}
           scanned == {c \in Channels :
             \/ c \in TextChannels
             \/ hits \subseteq ToolChannels /\ \A i, j \in DOMAIN ToolOrder :
                  ToolOrder[i] = c /\ j < i => ToolOrder[j] \notin hits}
           step == [c \in Channels |-> IF c \in scanned THEN fed[c]
                     ELSE [released |-> <<>>, kept |-> carry[c], found |-> None]]
<1>1. Inspected(sizes) = [step |-> step, hits |-> hits]
  BY DEF Inspected, Fed, Piece
<1>2. hits = Hits(sizes) /\ hits \subseteq Channels
  BY DEF Hits
<1>3. \A c \in Channels : fed[c] = Fed(sizes, c)
  OBVIOUS
<1>4. /\ \A c \in TextChannels : c \in Channels /\ c \in scanned
      /\ \A c \in ToolChannels : c \in Channels
      /\ hits = {} => \A c \in Channels : c \in scanned
      /\ hits # {} => FirstOf(hits) \in hits /\ FirstOf(hits) \in scanned
  <2>1. TextChannels \subseteq Channels /\ ToolChannels \subseteq Channels
    BY DEF Channels
  <2>2. hits = {} => \A c \in Channels : c \in scanned
    OBVIOUS
  <2>3. ASSUME hits # {} PROVE FirstOf(hits) \in hits /\ FirstOf(hits) \in scanned
    <3> HIDE DEF hits
    <3>1. /\ FirstOf(hits) \in hits
          /\ ~(hits \subseteq ToolChannels) => FirstOf(hits) \in TextChannels
          /\ hits \subseteq ToolChannels => \A i, j \in DOMAIN ToolOrder :
               ToolOrder[i] = FirstOf(hits) /\ j < i => ToolOrder[j] \notin hits
      BY <1>2, <2>3, FirstOfHits
    <3> QED
      BY <1>2, <3>1
  <2> QED
    BY <2>1, <2>2, <2>3
<1> HIDE DEF hits, scanned, fed
<1>5. \A c \in Channels : step[c] = IF c \in scanned THEN fed[c]
                     ELSE [released |-> <<>>, kept |-> carry[c], found |-> None]
  OBVIOUS
<1> HIDE DEF step
<1>6. Inspected(sizes).step = step /\ Inspected(sizes).hits = hits
  BY <1>1
<1>7. \A c \in TextChannels : step[c] = Fed(sizes, c)
  BY <1>3, <1>4, <1>5
<1>8. \A c \in ToolChannels : \/ step[c] = Fed(sizes, c)
        \/ step[c] = [released |-> <<>>, kept |-> carry[c], found |-> None]
  BY <1>3, <1>4, <1>5
<1>9. hits = {} => \A c \in Channels : step[c] = Fed(sizes, c)
  BY <1>3, <1>4, <1>5
<1>10. hits # {} => FirstOf(hits) \in hits /\ step[FirstOf(hits)] = Fed(sizes, FirstOf(hits))
  BY <1>2, <1>3, <1>4, <1>5
<1> QED
  BY <1>2, <1>6, <1>7, <1>8, <1>9, <1>10

(***************************************************************************)
(* Finitely many numbers have a bound.                                     *)
(***************************************************************************)
LEMMA Bounded ==
  ASSUME NEW n \in Nat, NEW f \in [1..n -> Nat]
  PROVE  \E b \in Nat : \A i \in 1..n : f[i] <= b
<1> DEFINE T == {m \in Nat : m <= n => \E b \in Nat : \A i \in 1..m : f[i] <= b}
<1>1. 0 \in T
  OBVIOUS
<1>2. ASSUME NEW m \in Nat, m \in T PROVE m + 1 \in T
  <2>1. SUFFICES ASSUME m + 1 <= n PROVE \E b \in Nat : \A i \in 1..(m + 1) : f[i] <= b
    OBVIOUS
  <2>2. PICK b \in Nat : \A i \in 1..m : f[i] <= b
    BY <1>2, <2>1
  <2>3. m + 1 \in 1..n /\ f[m + 1] \in Nat
    BY <2>1
  <2>4. PICK d \in Nat : d >= b /\ d >= f[m + 1]
    BY <2>3
  <2>5. \A i \in 1..(m + 1) : (i \in 1..m \/ i = m + 1) /\ i \in 1..n
    BY <2>1
  <2>6. \A i \in 1..(m + 1) : f[i] <= d
    BY <2>2, <2>3, <2>4, <2>5
  <2> QED
    BY <2>6
<1>3. Nat \subseteq T
  <2> HIDE DEF T
  <2> QED
    BY <1>1, <1>2, Counting
<1>4. n \in T
  BY <1>3
<1> QED
  BY <1>4

(***************************************************************************)
(* A policy that can be built and merged installs values a detector can    *)
(* look for.                                                               *)
(***************************************************************************)
LEMMA Installed ==
  ASSUME NEW p \in Policies, NEW s \in Secrets, Buildable(p), Mergeable(p, s)
  PROVE  Patterns({q.value : q \in Range(p \o s)})
<1> DEFINE values == {q.value : q \in Range(p \o s)}
<1>1. /\ p \in Seq(Range(p)) /\ s \in Seq(Range(s))
      /\ \A i \in DOMAIN p : /\ p[i].value \in Seq(Range(p[i].value))
                             /\ Marker \notin Range(p[i].value)
      /\ \A i \in DOMAIN s : /\ s[i].value \in Seq(Range(s[i].value))
                             /\ Marker \notin Range(s[i].value)
  BY GuardConstants
<1>2. /\ \A i \in DOMAIN p : p[i].value # <<>>
      /\ \A i \in DOMAIN s : s[i].value # <<>>
  <2>1. \A i \in DOMAIN p : Len(p[i].value) >= MinValue
    BY DEF Buildable, Range
  <2>2. Len(<<>>) = 0 /\ ~(0 >= MinValue)
    BY GuardConstants
  <2>3. \A i \in DOMAIN s : s[i].value # <<>>
    BY DEF Mergeable, Range, None
  <2> QED
    BY <2>1, <2>2, <2>3
<1> DEFINE both == p \o s
<1>3. /\ Len(p) \in Nat /\ Len(s) \in Nat /\ DOMAIN p = 1..Len(p) /\ DOMAIN s = 1..Len(s)
      /\ DOMAIN both = 1..(Len(p) + Len(s))
      /\ \A i \in 1..Len(p) : both[i] = p[i]
      /\ \A i \in 1..Len(s) : both[Len(p) + i] = s[i]
  <2>1. p \in Seq(Range(p) \union Range(s)) /\ s \in Seq(Range(p) \union Range(s))
    BY <1>1, SeqMonotonic
  <2>2. /\ both \in Seq(Range(p) \union Range(s)) /\ Len(both) = Len(p) + Len(s)
        /\ Len(p) \in Nat /\ Len(s) \in Nat
        /\ \A i \in 1..Len(p) : both[i] = p[i]
        /\ \A i \in 1..Len(s) : both[Len(p) + i] = s[i]
    BY <2>1, Joined
  <2> HIDE DEF both
  <2>3. DOMAIN p = 1..Len(p) /\ DOMAIN s = 1..Len(s) /\ DOMAIN both = 1..Len(both)
    BY <1>1, <2>2, LenProperties
  <2> QED
    BY <2>2, <2>3
<1> HIDE DEF both
<1>4. ASSUME NEW i \in DOMAIN both
      PROVE  /\ both[i].value \in Seq(Range(both[i].value)) /\ both[i].value # <<>>
             /\ Marker \notin Range(both[i].value)
  <2>1. CASE i \in 1..Len(p)
    BY <1>1, <1>2, <1>3, <2>1
  <2>2. CASE i \notin 1..Len(p)
    <3>1. i - Len(p) \in 1..Len(s) /\ i = Len(p) + (i - Len(p))
      BY <1>3, <2>2
    <3>2. PICK j \in 1..Len(s) : i = Len(p) + j
      BY <3>1
    <3>3. both[i] = s[j]
      BY <1>3, <3>2
    <3> QED
      BY <1>1, <1>2, <1>3, <3>3
  <2> QED
    BY <2>1, <2>2
<1>5. ASSUME NEW v \in values
      PROVE  \E i \in DOMAIN both : v = both[i].value
  BY DEF Range, both
<1>6. \A v \in values : v \in Seq(Range(v)) /\ v # <<>> /\ \A k \in 1..Len(v) : v[k] # Marker
  <2>1. SUFFICES ASSUME NEW v \in values
                 PROVE  v \in Seq(Range(v)) /\ v # <<>> /\ \A k \in 1..Len(v) : v[k] # Marker
    OBVIOUS
  <2>2. v \in Seq(Range(v)) /\ v # <<>> /\ Marker \notin Range(v)
    BY <1>4, <1>5
  <2>3. \A k \in 1..Len(v) : v[k] \in Range(v)
    BY <2>2, ElementOfSeq
  <2> QED
    BY <2>2, <2>3
<1>7. \E b \in Nat : \A v \in values : Len(v) <= b
  <2> DEFINE n == Len(p) + Len(s)
             f == [i \in 1..n |-> Len(both[i].value)]
  <2>1. n \in Nat /\ DOMAIN both = 1..n
    BY <1>3
  <2> HIDE DEF n
  <2>2. f \in [1..n -> Nat]
    <3>1. \A i \in 1..n : Len(both[i].value) \in Nat
      BY <1>4, <2>1, LenProperties
    <3> QED
      BY <3>1
  <2> HIDE DEF f
  <2>3. PICK b \in Nat : \A i \in 1..n : f[i] <= b
    BY <2>1, <2>2, Bounded
  <2>4. \A i \in 1..n : Len(both[i].value) <= b
    BY <2>3 DEF f
  <2>5. \A v \in values : Len(v) <= b
    <3> HIDE DEF values
    <3> QED
      BY <1>5, <2>1, <2>4
  <2> QED
    BY <2>5
<1> QED
  BY <1>6, <1>7 DEF Patterns

(***************************************************************************)
(* The start.                                                              *)
(***************************************************************************)
LEMMA Starting ==
  ASSUME GuardInv, NEW p \in Policies, NEW s \in Secrets, Start(p, s)
  PROVE  GuardInv'
<1>0. /\ Typed /\ Fresh /\ Giving /\ phase = "starting" /\ Patterns(canaries)
      /\ UNCHANGED <<streaming, window, script, at, finished, carry, held, tail, out, match>>
  BY DEF GuardInv, Start, Typed, chain
<1>1. CASE phase' = "refused" /\ UNCHANGED canaries
  <2>1. Typed' /\ Fresh' /\ Flowing' /\ Ended' /\ Broken'
    BY <1>0, <1>1 DEF Typed, Fresh, Flowing, Ended, Broken
  <2>2. Giving'
    BY <1>0, <1>1 DEF Giving
  <2> QED
    BY <2>1, <2>2 DEF GuardInv
<1>2. CASE ~(phase' = "refused" /\ UNCHANGED canaries)
  <2> DEFINE C == {q.value : q \in Range(p \o s)}
  <2>1. Buildable(p) /\ Mergeable(p, s) /\ phase' = "open" /\ canaries' = C
    BY <1>2 DEF Start
  <2>2. Patterns(C)
    BY <2>1, Installed
  <2> HIDE DEF C
  <2>3. Typed'
    <3>1. match' \in canaries' \union {None}
      BY <1>0 DEF Fresh
    <3> QED
      BY <1>0, <2>1, <2>2, <3>1 DEF Typed
  <2>4. CleanOf(C, <<>>) /\ Reach(C) \in Nat
    <3>1. Reach(C) \in Nat /\ \A v \in C : Len(v) \in Nat \ {0}
      BY <2>2, Reaches
    <3>2. Len(<<>>) = 0 /\ \A n \in Nat, m \in Nat \ {0} : ~(n + m <= 0)
      OBVIOUS
    <3> QED
      BY <3>1, <3>2 DEF CleanOf, At
  <2>5. ASSUME NEW c \in Channels
        PROVE  /\ Flow(C, FALSE, c, <<>>, <<>>, <<>>, <<>>, <<>>)
               /\ Given(C, c, <<>>)
    <3>1. <<>> \in Texts /\ Len(<<>>) = 0 /\ Cut(<<>>, Reach(C)) = 0
      BY <2>4 DEF Cut, Texts
    <3>2. Take(<<>>, 0) = <<>> /\ Drop(<<>>, 0) = <<>>
      BY DEF Take, Drop
    <3>3. Passed(c, <<>>, <<>>, <<>>, <<>>)
      BY PassedNothing
    <3> QED
      BY <2>4, <3>1, <3>2, <3>3, WholeIsGiven DEF Flow
  <2>6. ASSUME NEW c \in Channels
        PROVE  /\ Arrived(c)' = <<>> /\ carry'[c] = <<>> /\ held'[c] = <<>> /\ tail'[c] = <<>>
               /\ out'[c] = <<>> /\ (ChoiceOf[c] \in finished') = FALSE
    <3>1. script[c] \in Texts
      BY <1>0, StateTexts
    <3>2. SubSeq(script[c], 1, 0) = <<>>
      BY <3>1, SubSeqEmpty DEF Texts
    <3> QED
      BY <1>0, <3>2 DEF Fresh, Arrived
  <2>7. Flowing'
    BY <2>1, <2>5, <2>6 DEF Flowing
  <2>8. Giving'
    BY <2>1, <2>5, <2>6 DEF Giving
  <2>9. Fresh' /\ Ended' /\ Broken'
    BY <2>1 DEF Fresh, Ended, Broken
  <2> QED
    BY <2>3, <2>7, <2>8, <2>9 DEF GuardInv
<1> QED
  BY <1>1, <1>2

(***************************************************************************)
(* A step on the way of an open answer leaves the canaries as they are, so *)
(* what is known of them holds after it.                                   *)
(***************************************************************************)
LEMMA StillTyped ==
  ASSUME Typed, UNCHANGED <<streaming, window, canaries, script>>,
         phase' \in {"open", "complete", "failed", "interrupted", "left"},
         at' \in [Channels -> Nat], \A c \in Channels : at'[c] <= Len(script[c]),
         finished' \subseteq ChoiceIds,
         carry' \in [Channels -> Texts], held' \in [Channels -> Texts],
         tail' \in [Channels -> Texts], out' \in [Channels -> Texts],
         match' \in canaries \union {None}
  PROVE  Typed' /\ Fresh'
BY DEF Typed, Fresh

(***************************************************************************)
(* A whole answer.                                                         *)
(***************************************************************************)
LEMMA Answering ==
  ASSUME GuardInv, AnswerWhole
  PROVE  GuardInv'
<1>0. /\ Typed /\ Giving /\ Patterns(canaries) /\ ~streaming
      /\ at' = [c \in Channels |-> Len(script[c])]
      /\ UNCHANGED <<streaming, window, canaries, script, finished, carry, held, tail>>
  BY DEF GuardInv, AnswerWhole, Typed, chain
<1>1. ASSUME NEW c \in Channels
      PROVE  /\ script[c] \in Texts /\ Len(script[c]) \in Nat /\ at'[c] = Len(script[c])
             /\ Arrived(c)' = script[c]
  <2>1. script[c] \in Texts /\ Len(script[c]) \in Nat /\ at'[c] = Len(script[c])
    BY <1>0, StateTexts, LenProperties DEF Texts
  <2>2. SubSeq(script[c], 1, Len(script[c])) = script[c]
    BY <2>1, SubSeqFull DEF Texts
  <2> QED
    BY <1>0, <2>1, <2>2 DEF Arrived
<1>2. at' \in [Channels -> Nat] /\ \A c \in Channels : at'[c] <= Len(script[c])
  BY <1>0, <1>1
<1>3. CASE FoundInResult # {}
  <2>1. /\ phase' = "interrupted" /\ match' = Find(script[FirstOf(FoundInResult)]).value
        /\ UNCHANGED out
    BY <1>3 DEF AnswerWhole
  <2>2. FirstOf(FoundInResult) \in FoundInResult
    <3>1. FoundInResult \subseteq Channels
      BY DEF FoundInResult
    <3> QED
      BY <1>3, <3>1, FirstOfHits
  <2> DEFINE d == FirstOf(FoundInResult)
  <2>3. d \in Channels /\ Find(script[d]).value # None
    BY <2>2 DEF FoundInResult
  <2>4. match' = Find(script[d]).value
    BY <2>1
  <2> HIDE DEF d
  <2>5. ~CleanOf(canaries, script[d]) /\ script[d] \in Texts
    BY <1>0, <1>1, <2>3, BeforeTheFirst DEF Clean
  <2>6. PICK n \in Nat, v \in canaries : First(canaries, script[d], n, v)
    BY <1>0, <2>5, FirstExists
  <2>7. match' = v
    BY <1>0, <2>4, <2>5, <2>6, BeforeTheFirst
  <2>8. Typed' /\ Fresh'
    BY <1>0, <1>2, <2>1, <2>7, StillTyped DEF Typed
  <2>9. Broken'
    BY <1>0, <1>1, <2>3, <2>6, <2>7 DEF Broken
  <2>10. Giving'
    BY <1>0, <2>1 DEF Giving
  <2>11. Flowing' /\ Ended'
    BY <2>1 DEF Flowing, Ended
  <2> QED
    BY <2>8, <2>9, <2>10, <2>11 DEF GuardInv
<1>4. CASE FoundInResult = {}
  <2>1. /\ phase' = "complete" /\ out' = [c \in Channels |-> Whole(c, script[c])]
        /\ UNCHANGED match
    BY <1>4 DEF AnswerWhole
  <2>2. ASSUME NEW c \in Channels
        PROVE  /\ Whole(c, script[c]) \in Texts /\ out'[c] = Whole(c, script[c])
               /\ Given(canaries, c, Whole(c, script[c]))
    <3>1. Find(script[c]).value = None
      BY <1>4 DEF FoundInResult
    <3>2. script[c] \in Texts /\ CleanOf(canaries, script[c])
      BY <1>0, <1>1, <3>1, BeforeTheFirst DEF Clean
    <3> QED
      BY <2>1, <3>2, WholeIsResult, WholeIsGiven
  <2>3. out' \in [Channels -> Texts]
    BY <2>1, <2>2
  <2>4. Typed' /\ Fresh'
    BY <1>0, <1>2, <2>1, <2>3, StillTyped DEF Typed
  <2>5. Giving'
    BY <1>0, <2>2 DEF Giving
  <2>6. Ended'
    BY <1>1, <2>2 DEF Ended
  <2>7. Flowing' /\ Broken'
    BY <2>1 DEF Flowing, Broken
  <2> QED
    BY <2>4, <2>5, <2>6, <2>7 DEF GuardInv
<1> QED
  BY <1>3, <1>4

(***************************************************************************)
(* The end of a stream, regular or not.                                    *)
(***************************************************************************)
LEMMA Ending ==
  ASSUME GuardInv, NEW how \in {"complete", "failed"}, Flush(how)
  PROVE  GuardInv'
<1>0. /\ Typed /\ Flowing /\ Patterns(canaries) /\ phase = "open"
      /\ phase' = how
      /\ out' = [c \in Channels |-> out[c] \o AtEnd(c, State(c), carry[c])]
      /\ carry' = Empty /\ held' = Empty /\ tail' = Empty
      /\ UNCHANGED <<streaming, window, canaries, script, at, finished, match>>
  BY DEF GuardInv, Flush, Typed, Emptied
<1>1. ASSUME NEW c \in Channels
      PROVE  /\ out'[c] = Whole(c, Arrived(c)) /\ Whole(c, Arrived(c)) \in Texts
             /\ Given(canaries, c, Whole(c, Arrived(c)))
             /\ Arrived(c)' = Arrived(c)
  <2> DEFINE done == ChoiceOf[c] \in finished
  <2>1. Flow(canaries, done, c, Arrived(c), carry[c], held[c], tail[c], out[c]) /\ window \in Nat
    BY <1>0, StateTexts DEF Flowing
  <2>2. out[c] \o AtLast(c, held[c], tail[c], carry[c]) = Whole(c, Arrived(c))
    <3> DEFINE a == Arrived(c)
               k == carry[c]
               h == held[c]
               q == tail[c]
               o == out[c]
    <3>1. Patterns(canaries) /\ window \in Nat /\ Flow(canaries, done, c, a, k, h, q, o)
      BY <1>0, <2>1
    <3> HIDE DEF done, a, k, h, q, o
    <3>2. o \o AtLast(c, h, q, k) = Whole(c, a)
      BY <3>1, FlowEnds
    <3> QED
      BY <3>2 DEF a, k, h, q, o
  <2> HIDE DEF done
  <2>3. out'[c] = out[c] \o AtLast(c, held[c], tail[c], carry[c])
    BY <1>0 DEF AtLast, State
  <2>4. Arrived(c) \in Texts /\ CleanOf(canaries, Arrived(c))
    BY <2>1 DEF Flow
  <2> QED
    BY <1>0, <2>2, <2>3, <2>4, WholeIsResult, WholeIsGiven DEF Arrived
<1>2. out' \in [Channels -> Texts]
  <2>1. \A c \in Channels : out[c] \o AtEnd(c, State(c), carry[c]) \in Texts
    <3>1. \A c \in Channels : out'[c] = out[c] \o AtEnd(c, State(c), carry[c])
      BY <1>0
    <3> QED
      BY <1>1, <3>1
  <2> QED
    BY <1>0, <2>1
<1>3. Empty \in [Channels -> Texts]
  <2>1. <<>> \in Texts
    BY DEF Texts
  <2> QED
    BY <2>1 DEF Empty
<1>4. Typed' /\ Fresh'
  <2>1. at' \in [Channels -> Nat] /\ \A c \in Channels : at'[c] <= Len(script[c])
    BY <1>0 DEF Typed
  <2> QED
    BY <1>0, <1>2, <1>3, <2>1, StillTyped DEF Typed
<1>5. Giving'
  BY <1>0, <1>1 DEF Giving
<1>6. Ended'
  BY <1>1 DEF Ended
<1>7. Flowing' /\ Broken'
  BY <1>0 DEF Flowing, Broken
<1> QED
  BY <1>4, <1>5, <1>6, <1>7 DEF GuardInv

(***************************************************************************)
(* What a channel does with its part of an event.                          *)
(***************************************************************************)
LEMMA Arriving ==
  ASSUME GuardInv, NEW sizes \in [Channels -> Nat], NEW ends, Event(sizes, ends),
         \A c \in Channels : at[c] + sizes[c] <= Len(script[c])
  PROVE  /\ Typed /\ Patterns(canaries) /\ window \in Nat /\ phase = "open" /\ streaming
         /\ UNCHANGED <<streaming, window, canaries, script>>
         /\ at' \in [Channels -> Nat] /\ \A c \in Channels : at'[c] <= Len(script[c])
         /\ \A c \in Channels :
              /\ Flow(canaries, ChoiceOf[c] \in finished, c,
                      Arrived(c), carry[c], held[c], tail[c], out[c])
              /\ Piece(sizes, c) \in Texts /\ Soon(sizes, c) \in Texts
              /\ Arrived(c) \o Piece(sizes, c) = Soon(sizes, c)
              /\ (ChoiceOf[c] \in finished => Piece(sizes, c) = <<>>)
              /\ Arrived(c)' = Soon(sizes, c)
<1>1. /\ Typed /\ Patterns(canaries) /\ phase = "open" /\ streaming
      /\ UNCHANGED <<streaming, window, canaries, script>>
      /\ at' = [c \in Channels |-> at[c] + sizes[c]]
      /\ \A c \in Channels : sizes[c] > 0 => ChoiceOf[c] \notin finished
  BY DEF GuardInv, Typed, Event
<1>2. window \in Nat /\ \A c \in Channels : at[c] \in Nat
  BY <1>1, GuardConstants DEF Typed
<1>3. at' \in [Channels -> Nat] /\ \A c \in Channels : at'[c] <= Len(script[c])
  BY <1>1, <1>2
<1>4. ASSUME NEW c \in Channels
      PROVE  /\ Flow(canaries, ChoiceOf[c] \in finished, c,
                     Arrived(c), carry[c], held[c], tail[c], out[c])
             /\ Piece(sizes, c) \in Texts /\ Soon(sizes, c) \in Texts
             /\ Arrived(c) \o Piece(sizes, c) = Soon(sizes, c)
             /\ (ChoiceOf[c] \in finished => Piece(sizes, c) = <<>>)
             /\ Arrived(c)' = Soon(sizes, c)
  <2>1. Flow(canaries, ChoiceOf[c] \in finished, c,
             Arrived(c), carry[c], held[c], tail[c], out[c])
    BY <1>1 DEF GuardInv, Flowing
  <2>2. /\ Piece(sizes, c) \in Texts /\ Soon(sizes, c) \in Texts
        /\ Arrived(c) \o Piece(sizes, c) = Soon(sizes, c)
        /\ (sizes[c] = 0 => Piece(sizes, c) = <<>>)
    BY <1>1, Pieces
  <2>3. sizes[c] \in Nat /\ (ChoiceOf[c] \in finished => sizes[c] = 0)
    BY <1>1
  <2>4. Arrived(c)' = Soon(sizes, c)
    BY <1>1 DEF Arrived, Soon, Take
  <2> QED
    BY <2>1, <2>2, <2>3, <2>4
<1> QED
  BY <1>1, <1>2, <1>3, <1>4

(***************************************************************************)
(* An event that interrupts the answer.                                    *)
(***************************************************************************)
LEMMA Interrupting ==
  ASSUME GuardInv, NEW sizes \in [Channels -> Nat], NEW ends, Event(sizes, ends),
         \A c \in Channels : at[c] + sizes[c] <= Len(script[c]),
         Inspected(sizes).hits # {}, Interrupt(Inspected(sizes).step, Inspected(sizes).hits)
  PROVE  GuardInv'
<1> DEFINE step == Inspected(sizes).step
           hits == Hits(sizes)
<1>1. Inspected(sizes).hits = hits
  BY Feeding
<1>2. /\ phase' = "interrupted" /\ match' = step[FirstOf(hits)].found
      /\ out' = [c \in Channels |->
               out[c] \o AtEnd(c, State(c), step[c].released \o step[c].kept)]
      /\ carry' = Empty /\ held' = Empty /\ tail' = Empty
      /\ UNCHANGED finished
  BY <1>1 DEF Interrupt, Emptied
<1>3. /\ Typed /\ Patterns(canaries) /\ window \in Nat /\ phase = "open" /\ streaming
      /\ UNCHANGED <<streaming, window, canaries, script>>
      /\ at' \in [Channels -> Nat] /\ \A c \in Channels : at'[c] <= Len(script[c])
      /\ \A c \in Channels :
              /\ Flow(canaries, ChoiceOf[c] \in finished, c,
                      Arrived(c), carry[c], held[c], tail[c], out[c])
              /\ Piece(sizes, c) \in Texts /\ Soon(sizes, c) \in Texts
              /\ Arrived(c) \o Piece(sizes, c) = Soon(sizes, c)
              /\ (ChoiceOf[c] \in finished => Piece(sizes, c) = <<>>)
              /\ Arrived(c)' = Soon(sizes, c)
  BY Arriving
<1>4. /\ \A c \in TextChannels : step[c] = Fed(sizes, c)
      /\ \A c \in ToolChannels : \/ step[c] = Fed(sizes, c)
              \/ step[c] = [released |-> <<>>, kept |-> carry[c], found |-> None]
      /\ FirstOf(hits) \in hits /\ step[FirstOf(hits)].found = Fed(sizes, FirstOf(hits)).found
  BY <1>1, Feeding
<1> HIDE DEF step
<1>5. ASSUME NEW c \in Channels
      PROVE  /\ Fed(sizes, c).found # None <=> ~CleanOf(canaries, Soon(sizes, c))
             /\ Fed(sizes, c).found # None =>
                  Fed(sizes, c).found = Find(Soon(sizes, c)).value
             /\ out[c] \o AtLast(c, held[c], tail[c], Fed(sizes, c).released \o Fed(sizes, c).kept)
                  = Whole(c, BeforeCanary(Soon(sizes, c)))
             /\ out[c] \o AtLast(c, held[c], tail[c], carry[c]) = Whole(c, Arrived(c))
             /\ Arrived(c) \in Texts /\ CleanOf(canaries, Arrived(c))
  <2> DEFINE done == ChoiceOf[c] \in finished
             a == Arrived(c)
             p == Piece(sizes, c)
             t == Soon(sizes, c)
             k == carry[c]
             h == held[c]
             q == tail[c]
             o == out[c]
             g == Guarded(k, p)
  <2>1. /\ Patterns(canaries) /\ window \in Nat
        /\ Flow(canaries, done, c, a, k, h, q, o)
        /\ p \in Texts /\ (done => p = <<>>)
    BY <1>3
  <2>2. Fed(sizes, c) = g /\ a \o p = t
    BY <1>3 DEF Fed
  <2> HIDE DEF done, a, p, t, k, h, q, o
  <2>3. /\ g.found # None <=> ~CleanOf(canaries, a \o p)
        /\ g.found # None => g.found = Find(a \o p).value
        /\ o \o AtLast(c, h, q, g.released \o g.kept) = Whole(c, BeforeCanary(a \o p))
    BY <2>1, FlowInterrupted
  <2>4. o \o AtLast(c, h, q, k) = Whole(c, a)
    BY <2>1, FlowEnds
  <2>5. a \in Texts /\ CleanOf(canaries, a)
    BY <2>1 DEF Flow
  <2> HIDE DEF g
  <2>6. /\ Fed(sizes, c).found # None <=> ~CleanOf(canaries, t)
        /\ Fed(sizes, c).found # None => Fed(sizes, c).found = Find(t).value
        /\ o \o AtLast(c, h, q, Fed(sizes, c).released \o Fed(sizes, c).kept)
             = Whole(c, BeforeCanary(t))
    BY <2>2, <2>3
  <2> QED
    BY <2>4, <2>5, <2>6 DEF a, t, k, h, q, o
<1>6. ASSUME NEW c \in Channels
      PROVE  out'[c] = out[c] \o AtLast(c, held[c], tail[c], step[c].released \o step[c].kept)
  BY <1>2 DEF AtLast, State
<1>7. ASSUME NEW c \in Channels
      PROVE  BeforeCanary(Soon(sizes, c)) \in Texts
             /\ CleanOf(canaries, BeforeCanary(Soon(sizes, c)))
  BY <1>3, BeforeTheFirst
<1>8. ASSUME NEW c \in Channels
      PROVE  \/ out'[c] = Whole(c, BeforeCanary(Soon(sizes, c)))
             \/ c \in ToolChannels /\ out'[c] = Whole(c, Arrived(c))
  <2>1. CASE step[c] = Fed(sizes, c)
    BY <1>5, <1>6, <2>1
  <2>2. CASE c \in ToolChannels
             /\ step[c] = [released |-> <<>>, kept |-> carry[c], found |-> None]
    <3>1. step[c].released = <<>> /\ step[c].kept = carry[c]
      BY <2>2
    <3>2. carry[c] \in Texts
      BY <1>3, StateTexts
    <3>3. <<>> \o carry[c] = carry[c]
      BY <3>2, Joining DEF Texts
    <3>4. out'[c] = out[c] \o AtLast(c, held[c], tail[c], carry[c])
      BY <1>6, <3>1, <3>3
    <3> QED
      BY <1>5, <2>2, <3>4
  <2> QED
    BY <1>4, <2>1, <2>2 DEF Channels
<1>9. ASSUME NEW c \in Channels
      PROVE  out'[c] \in Texts /\ Given(canaries, c, out'[c])
  <2>1. CASE out'[c] = Whole(c, BeforeCanary(Soon(sizes, c)))
    <3> DEFINE x == BeforeCanary(Soon(sizes, c))
    <3>1. x \in Texts /\ CleanOf(canaries, x) /\ out'[c] = Whole(c, x)
      BY <1>7, <2>1
    <3> HIDE DEF x
    <3> QED
      BY <3>1, WholeIsResult, WholeIsGiven
  <2>2. CASE out'[c] = Whole(c, Arrived(c))
    <3> DEFINE x == Arrived(c)
    <3>1. x \in Texts /\ CleanOf(canaries, x) /\ out'[c] = Whole(c, x)
      BY <1>5, <2>2
    <3> HIDE DEF x
    <3> QED
      BY <3>1, WholeIsResult, WholeIsGiven
  <2> QED
    BY <1>8, <2>1, <2>2
<1>10. out' \in [Channels -> Texts]
  <2>1. DOMAIN out' = Channels /\ out' = [c \in Channels |-> out'[c]]
    BY <1>2
  <2> QED
    BY <1>9, <2>1
<1> DEFINE d == FirstOf(hits)
<1>11. d \in Channels /\ Fed(sizes, d).found # None /\ match' = Fed(sizes, d).found
  BY <1>2, <1>4 DEF Hits
<1> HIDE DEF d, hits
<1>12. PICK n \in Nat, v \in canaries : First(canaries, Soon(sizes, d), n, v)
  BY <1>3, <1>5, <1>11, FirstExists
<1>13. match' = v
  BY <1>3, <1>5, <1>11, <1>12, BeforeTheFirst
<1>14. Typed' /\ Fresh'
  <2>1. Empty \in [Channels -> Texts]
    <3>1. <<>> \in Texts
      BY DEF Texts
    <3> QED
      BY <3>1 DEF Empty
  <2>2. finished' \subseteq ChoiceIds
    BY <1>2, <1>3 DEF Typed
  <2> QED
    BY <1>2, <1>3, <1>10, <1>13, <2>1, <2>2, StillTyped
<1>15. Giving'
  BY <1>3, <1>9 DEF Giving
<1>16. Broken'
  <2>1. \E c \in Channels, m \in Nat : First(canaries', Arrived(c)', m, match')
    BY <1>3, <1>11, <1>12, <1>13
  <2>2. ASSUME NEW c \in TextChannels
        PROVE  Stopped(canaries', c, Arrived(c)', out'[c])
    <3> DEFINE t == Soon(sizes, c)
    <3>1. c \in Channels /\ c \notin ToolChannels
      BY GuardConstants DEF Channels
    <3>2. out'[c] = Whole(c, BeforeCanary(t)) /\ t \in Texts /\ Arrived(c)' = t
      BY <1>3, <1>8, <3>1
    <3> HIDE DEF t
    <3>3. CASE CleanOf(canaries, t)
      BY <1>3, <3>2, <3>3, BeforeTheFirst DEF Stopped
    <3>4. CASE ~CleanOf(canaries, t)
      <4>1. PICK m \in Nat, w \in canaries : First(canaries, t, m, w)
        BY <1>3, <3>2, <3>4, FirstExists
      <4>2. BeforeCanary(t) = Take(t, m)
        BY <1>3, <3>2, <4>1, BeforeTheFirst
      <4> QED
        BY <1>3, <3>2, <4>1, <4>2 DEF Stopped
    <3> QED
      BY <3>3, <3>4
  <2> QED
    BY <2>1, <2>2 DEF Broken
<1>17. Flowing' /\ Ended'
  BY <1>2 DEF Flowing, Ended
<1> QED
  BY <1>14, <1>15, <1>16, <1>17 DEF GuardInv

(***************************************************************************)
(* An event in which nothing is found.                                     *)
(***************************************************************************)
LEMMA Releasing ==
  ASSUME GuardInv, NEW sizes \in [Channels -> Nat], NEW ends \in SUBSET ChoiceIds,
         Event(sizes, ends),
         \A c \in Channels : at[c] + sizes[c] <= Len(script[c]),
         Inspected(sizes).hits = {}, Release(Inspected(sizes).step, ends)
  PROVE  GuardInv'
<1> DEFINE step == Inspected(sizes).step
           going == [c \in Channels |-> Shown(c, State(c), step[c].released)]
           after == [c \in Channels |->
             IF ChoiceOf[c] \in ends
             THEN [shown |-> going[c].shown \o AtEnd(c, going[c], step[c].kept),
                   held |-> <<>>, tail |-> <<>>, kept |-> <<>>]
             ELSE [shown |-> going[c].shown, held |-> going[c].held,
                   tail |-> going[c].tail, kept |-> step[c].kept]]
<1>1. /\ out' = [c \in Channels |-> out[c] \o after[c].shown]
      /\ carry' = [c \in Channels |-> after[c].kept]
      /\ held' = [c \in Channels |-> after[c].held]
      /\ tail' = [c \in Channels |-> after[c].tail]
      /\ finished' = finished \union ends
      /\ UNCHANGED <<phase, match>>
  BY DEF Release
<1>2. /\ Typed /\ Patterns(canaries) /\ window \in Nat /\ phase = "open" /\ streaming
      /\ UNCHANGED <<streaming, window, canaries, script>>
      /\ at' \in [Channels -> Nat] /\ \A c \in Channels : at'[c] <= Len(script[c])
      /\ \A c \in Channels :
              /\ Flow(canaries, ChoiceOf[c] \in finished, c,
                      Arrived(c), carry[c], held[c], tail[c], out[c])
              /\ Piece(sizes, c) \in Texts /\ Soon(sizes, c) \in Texts
              /\ Arrived(c) \o Piece(sizes, c) = Soon(sizes, c)
              /\ (ChoiceOf[c] \in finished => Piece(sizes, c) = <<>>)
              /\ Arrived(c)' = Soon(sizes, c)
  BY Arriving
<1>3. Hits(sizes) = {} /\ \A c \in Channels : step[c] = Fed(sizes, c)
  BY Feeding
<1> HIDE DEF step
<1>4. \A c \in Channels : Fed(sizes, c).found = None
  BY <1>3 DEF Hits
<1>5. ASSUME NEW c \in Channels
      PROVE  LET s == going[c]
                 x == step[c].kept
             IN /\ x \in Texts /\ s.held \in Texts /\ s.tail \in Texts /\ s.shown \in Texts
                /\ out[c] \o s.shown \in Texts /\ Soon(sizes, c) \in Texts
                /\ CleanOf(canaries, Soon(sizes, c))
                /\ Flow(canaries, ChoiceOf[c] \in finished, c, Soon(sizes, c),
                        x, s.held, s.tail, out[c] \o s.shown)
                /\ out[c] \o (s.shown \o AtEnd(c, s, x)) = Whole(c, Soon(sizes, c))
  <2> DEFINE done == ChoiceOf[c] \in finished
             a == Arrived(c)
             p == Piece(sizes, c)
             t == Soon(sizes, c)
             k == carry[c]
             h == held[c]
             q == tail[c]
             o == out[c]
             g == Guarded(k, p)
             s == Sent(c, h, q, k, p)
  <2> HIDE DEF after
  <2>1. /\ Patterns(canaries) /\ window \in Nat
        /\ Flow(canaries, done, c, a, k, h, q, o)
        /\ p \in Texts /\ (done => p = <<>>)
    BY <1>2
  <2>9. a \o p = t /\ t \in Texts
    BY <1>2
  <2>2. g.found = None /\ step[c] = g
    BY <1>3, <1>4 DEF Fed
  <2>3. going[c] = s
    BY <2>2 DEF State, Sent
  <2> HIDE DEF going, done, a, p, t, k, h, q, o
  <2>4. /\ g.found # None <=> ~CleanOf(canaries, a \o p)
        /\ o \o AtLast(c, h, q, g.released \o g.kept) = Whole(c, BeforeCanary(a \o p))
    <3> HIDE DEF s
    <3> QED
      BY <2>1, FlowInterrupted
  <2>5. CleanOf(canaries, a \o p)
    BY <2>2, <2>4
  <2>6. /\ a \o p \in Texts /\ g.kept \in Texts
        /\ s.held \in Texts /\ s.tail \in Texts /\ s.shown \in Texts
        /\ o \o s.shown \in Texts
        /\ Flow(canaries, done, c, a \o p, g.kept, s.held, s.tail, o \o s.shown)
        /\ o \o (s.shown \o AtEnd(c, s, g.kept)) = Whole(c, a \o p)
    <3>1. /\ Patterns(canaries) /\ window \in Nat
          /\ Flow(canaries, done, c, a, k, h, q, o)
          /\ p \in Texts /\ (done => p = <<>>) /\ CleanOf(canaries, a \o p)
      BY <2>1, <2>5
    <3>2. Flows(done, c, a, k, h, q, o, p)
      <4> HIDE DEF g, s
      <4> QED
        BY <3>1, FlowReleased
    <3> QED
      BY <3>2 DEF Flows
  <2> HIDE DEF g, s
  <2> QED
    BY <2>2, <2>3, <2>5, <2>6, <2>9 DEF done, t, o
<1> HIDE DEF going
<1>6. ASSUME NEW c \in Channels
      PROVE  /\ {carry'[c], held'[c], tail'[c], out'[c]} \subseteq Texts
             /\ Flow(canaries, ChoiceOf[c] \in finished', c, Soon(sizes, c),
                     carry'[c], held'[c], tail'[c], out'[c])
  <2> DEFINE s == going[c]
             x == step[c].kept
             t == Soon(sizes, c)
             b == after[c]
  <2>0. /\ carry'[c] = b.kept /\ held'[c] = b.held /\ tail'[c] = b.tail
        /\ out'[c] = out[c] \o b.shown /\ finished' = finished \union ends
    <3> HIDE DEF after
    <3> QED
      BY <1>1
  <2>1. /\ x \in Texts /\ s.held \in Texts /\ s.tail \in Texts /\ s.shown \in Texts
        /\ out[c] \o s.shown \in Texts /\ t \in Texts /\ CleanOf(canaries, t)
        /\ Flow(canaries, ChoiceOf[c] \in finished, c, t,
                x, s.held, s.tail, out[c] \o s.shown)
        /\ out[c] \o (s.shown \o AtEnd(c, s, x)) = Whole(c, t)
    BY <1>5
  <2>2. CASE ChoiceOf[c] \in ends
    <3>1. b = [shown |-> s.shown \o AtEnd(c, s, x),
               held |-> <<>>, tail |-> <<>>, kept |-> <<>>]
      BY <2>2
    <3>2. /\ carry'[c] = <<>> /\ held'[c] = <<>> /\ tail'[c] = <<>>
          /\ out'[c] = out[c] \o (s.shown \o AtEnd(c, s, x))
          /\ ChoiceOf[c] \in finished'
      <4> HIDE DEF s, x, b
      <4> QED
        BY <2>0, <2>2, <3>1
    <3>3. out'[c] = Whole(c, t) /\ Whole(c, t) \in Texts /\ <<>> \in Texts
      <4>1. out'[c] = Whole(c, t) /\ t \in Texts
        BY <2>1, <3>2
      <4> HIDE DEF t
      <4> QED
        BY <4>1, WholeIsResult DEF Texts
    <3>4. {carry'[c], held'[c], tail'[c], out'[c]} \subseteq Texts
      BY <3>2, <3>3
    <3>5. Flow(canaries, TRUE, c, t, <<>>, <<>>, <<>>, Whole(c, t))
      <4> HIDE DEF s, x, t, b
      <4> QED
        BY <2>1, <3>3 DEF Flow
    <3>6. (ChoiceOf[c] \in finished') = TRUE
      BY <3>2
    <3> HIDE DEF s, x, b
    <3> QED
      BY <3>2, <3>3, <3>4, <3>5, <3>6
  <2>3. CASE ChoiceOf[c] \notin ends
    <3>1. b = [shown |-> s.shown, held |-> s.held, tail |-> s.tail, kept |-> x]
      BY <2>3
    <3>2. /\ carry'[c] = x /\ held'[c] = s.held /\ tail'[c] = s.tail
          /\ out'[c] = out[c] \o s.shown
          /\ ChoiceOf[c] \in finished' <=> ChoiceOf[c] \in finished
      <4> HIDE DEF s, x, b
      <4> QED
        BY <2>0, <2>3, <3>1
    <3>3. {carry'[c], held'[c], tail'[c], out'[c]} \subseteq Texts
      BY <2>1, <3>2
    <3>4. Flow(canaries, ChoiceOf[c] \in finished', c, t, x, s.held, s.tail, out[c] \o s.shown)
      <4> HIDE DEF s, x, b, t
      <4> QED
        BY <2>1, <3>2 DEF Flow
    <3> HIDE DEF s, x, b
    <3> QED
      BY <3>2, <3>3, <3>4
  <2> QED
    BY <2>2, <2>3
<1>7. /\ carry' \in [Channels -> Texts] /\ held' \in [Channels -> Texts]
      /\ tail' \in [Channels -> Texts] /\ out' \in [Channels -> Texts]
  <2> HIDE DEF after
  <2>1. /\ carry' = [c \in Channels |-> carry'[c]] /\ held' = [c \in Channels |-> held'[c]]
        /\ tail' = [c \in Channels |-> tail'[c]] /\ out' = [c \in Channels |-> out'[c]]
    BY <1>1
  <2> QED
    BY <1>6, <2>1
<1>8. Typed' /\ Fresh'
  <2>1. finished' \subseteq ChoiceIds /\ match' \in canaries \union {None}
    BY <1>1, <1>2 DEF Typed
  <2>2. phase' = "open"
    BY <1>1, <1>2
  <2> QED
    BY <1>2, <1>7, <2>1, <2>2, StillTyped
<1>9. Flowing'
  BY <1>2, <1>6 DEF Flowing
<1>10. Giving'
  <2>1. \A c \in Channels : Given(canaries, c, out'[c])
    BY <1>2, <1>6, FlowGives
  <2> QED
    BY <1>2, <2>1 DEF Giving
<1>11. Ended' /\ Broken'
  BY <1>1, <1>2 DEF Ended, Broken
<1> QED
  BY <1>8, <1>9, <1>10, <1>11 DEF GuardInv

(***************************************************************************)
(* The invariant holds at first and after every step.                      *)
(***************************************************************************)
LEMMA GuardInvHoldsAtFirst ==
  ASSUME Init
  PROVE  GuardInv
<1>1. <<>> \in Texts /\ Empty \in [Channels -> Texts] /\ \A c \in Channels : Empty[c] = <<>>
  <2>1. <<>> \in Texts
    BY DEF Texts
  <2> QED
    BY <2>1 DEF Empty
<1>2. Patterns({}) /\ CleanOf({}, <<>>)
  <2>1. \E b \in Nat : \A v \in {} : Len(v) <= b
    BY 0 \in Nat
  <2> QED
    BY <2>1 DEF Patterns, CleanOf
<1>3. Typed
  <2>1. at \in [Channels -> Nat] /\ \A c \in Channels : at[c] <= Len(script[c])
    <3>1. \A c \in Channels : Len(script[c]) \in Nat /\ at[c] = 0
      <4>1. \A c \in Channels : script[c] \in Seq(Symbols)
        BY GuardConstants DEF Init, Texts
      <4> QED
        BY <4>1, LenProperties DEF Init
    <3> QED
      BY <3>1 DEF Init
  <2>2. match \in canaries \union {None} /\ finished \subseteq ChoiceIds
    BY DEF Init
  <2> QED
    BY <1>1, <1>2, <2>1, <2>2 DEF Init, Typed
<1>4. Fresh
  BY <1>1 DEF Init, Fresh
<1>5. Giving
  BY <1>1, <1>2, WholeIsGiven DEF Init, Giving
<1>6. Flowing /\ Ended /\ Broken
  BY DEF Init, Flowing, Ended, Broken
<1> QED
  BY <1>3, <1>4, <1>5, <1>6 DEF GuardInv

(***************************************************************************)
(* Every operation, and a step that does nothing, keeps the invariant.     *)
(***************************************************************************)
LEMMA GuardInvStays ==
  ASSUME GuardInv, [Next]_vars
  PROVE  GuardInv'
<1>1. ASSUME NEW p \in Policies, NEW s \in Secrets, Start(p, s)
      PROVE  GuardInv'
  BY <1>1, Starting
<1>2. CASE AnswerWhole
  BY <1>2, Answering
<1>3. CASE Deliver
  <2>1. PICK sizes \in Sizes, ends \in SUBSET ChoiceIds :
          /\ \A c \in Channels : at[c] + sizes[c] <= Len(script[c])
          /\ Event(sizes, ends)
    BY <1>3 DEF Deliver
  <2>2. sizes \in [Channels -> Nat]
    <3>1. Sizes \subseteq [Channels -> 0..MaxPiece]
      BY DEF Sizes
    <3>2. 0..MaxPiece \subseteq Nat
      BY GuardConstants
    <3> QED
      BY <3>1, <3>2
  <2>3. \/ Inspected(sizes).hits # {} /\ Interrupt(Inspected(sizes).step, Inspected(sizes).hits)
        \/ Inspected(sizes).hits = {} /\ Release(Inspected(sizes).step, ends)
    BY <2>1 DEF Event
  <2>4. CASE Inspected(sizes).hits # {}
             /\ Interrupt(Inspected(sizes).step, Inspected(sizes).hits)
    BY <2>1, <2>2, <2>4, Interrupting
  <2>5. CASE Inspected(sizes).hits = {} /\ Release(Inspected(sizes).step, ends)
    BY <2>1, <2>2, <2>5, Releasing
  <2> QED
    BY <2>3, <2>4, <2>5
<1>4. CASE StreamEnds
  BY <1>4, Ending DEF StreamEnds
<1>5. CASE StreamFails
  BY <1>5, Ending DEF StreamFails
<1>6. CASE CallerLeaves
  BY <1>6 DEF CallerLeaves, chain, GuardInv, Typed, Fresh, Flowing, Giving, Ended, Broken, Arrived
<1>7. CASE UNCHANGED vars
  BY <1>7 DEF vars, chain, GuardInv, Typed, Fresh, Flowing, Giving, Ended, Broken, Arrived
<1> QED
  BY <1>1, <1>2, <1>3, <1>4, <1>5, <1>6, <1>7 DEF Next

(***************************************************************************)
(* The invariant holds of every state of the release boundary.             *)
(***************************************************************************)
LEMMA GuardInvAlways == Spec => []GuardInv
<1>1. Init => GuardInv
  BY GuardInvHoldsAtFirst
<1>2. GuardInv /\ [Next]_vars => GuardInv'
  BY GuardInvStays
<1> QED
  BY <1>1, <1>2, PTL DEF Spec

-----------------------------------------------------------------------------
(* The properties.                                                          *)

(***************************************************************************)
(* What is given holds no value: where one stood in it, it would have      *)
(* stood in the clean text.                                                *)
(***************************************************************************)
LEMMA GivenIsClean ==
  ASSUME Patterns(canaries), NEW c, NEW o \in Texts, Given(canaries, c, o)
  PROVE  CleanOf(canaries, o)
<1>1. SUFFICES ASSUME NEW v \in canaries, NEW n \in Nat, At(o, n, v)
               PROVE  FALSE
  BY DEF CleanOf
<1>2. PICK x \in Texts : CleanOf(canaries, x) /\ IsPrefix(o, Whole(c, x))
  BY DEF Given
<1>3. v \in Seq(Range(v)) /\ v # <<>> /\ \A k \in 1..Len(v) : v[k] # Marker
  BY DEF Patterns
<1> DEFINE w == Whole(c, x)
<1>4. w \in Texts /\ w = IF c \in ToolChannels THEN x ELSE Result(x)
  BY <1>2, WholeIsResult
<1> HIDE DEF w
<1>5. At(w, n, v)
  <2>1. Len(o) <= Len(w) /\ \A i \in 1..Len(o) : o[i] = w[i]
    BY <1>2, <1>4, PrefixPoints DEF Texts, w
  <2>2. Len(o) \in Nat /\ Len(w) \in Nat /\ Len(v) \in Nat
    BY <1>3, <1>4, LenProperties DEF Texts
  <2>3. n + Len(v) <= Len(o) /\ \A k \in 1..Len(v) : o[n + k] = v[k]
    BY <1>1 DEF At
  <2>4. n + Len(v) <= Len(w) /\ \A k \in 1..Len(v) : n + k \in 1..Len(o)
    BY <2>1, <2>2, <2>3
  <2> QED
    BY <2>1, <2>3, <2>4 DEF At
<1>6. \E j \in Nat : At(x, j, v)
  <2>1. CASE c \in ToolChannels
    BY <1>4, <1>5, <2>1
  <2>2. CASE c \notin ToolChannels
    <3>1. At(Result(x), n, v)
      BY <1>4, <1>5, <2>2
    <3> QED
      BY <1>2, <1>3, <3>1, ShownStood
  <2> QED
    BY <2>1, <2>2
<1> QED
  BY <1>2, <1>6 DEF CleanOf

(***************************************************************************)
(* In every state the texts are texts, no channel has received more than   *)
(* the model says on it, and the reported canary is one of the installed.  *)
(***************************************************************************)
THEOREM GuardTypes == Spec => []TypeOK
<1>1. ASSUME GuardInv PROVE TypeOK
  <2>0. Typed
    BY <1>1 DEF GuardInv
  <2>1. \A v \in canaries : v \in Seq(Range(v)) \ {<<>>}
    BY <2>0 DEF Typed, Patterns
  <2>2. \A c \in Channels : /\ at[c] \in 0..Len(script[c])
                            /\ {carry[c], held[c], tail[c], out[c]} \subseteq Texts
    BY <2>0, StateTexts
  <2> QED
    BY <2>0, <2>1, <2>2 DEF Typed, TypeOK
<1> QED
  BY <1>1, GuardInvAlways, PTL

(***************************************************************************)
(* However the backend cuts the texts of an answer into pieces, no channel *)
(* shows a configured value, and an open channel shows no more than the    *)
(* text before its first value will have shown (StreamingEvidenceGuard).   *)
(***************************************************************************)
THEOREM NoCanaryIsShown == Spec => []NothingPastACanary
<1>1. ASSUME GuardInv PROVE NothingPastACanary
  <2>0. Typed /\ Flowing /\ Giving /\ Patterns(canaries)
    BY <1>1 DEF GuardInv, Typed
  <2>1. SUFFICES ASSUME NEW c \in Channels
                 PROVE  /\ Clean(out[c])
                        /\ phase = "open" /\ ChoiceOf[c] \notin finished =>
                             IsPrefix(out[c], Whole(c, BeforeCanary(script[c])))
    BY DEF NothingPastACanary
  <2>2. /\ script[c] \in Texts /\ at[c] \in 0..Len(script[c]) /\ out[c] \in Texts
        /\ Arrived(c) = Take(script[c], at[c])
    BY <2>0, StateTexts
  <2>3. Clean(out[c])
    <3> DEFINE o == out[c]
    <3>1. o \in Texts /\ Given(canaries, c, o)
      BY <2>0, <2>2 DEF Giving
    <3> HIDE DEF o
    <3>2. Clean(o)
      BY <2>0, <3>1, GivenIsClean, BeforeTheFirst
    <3> QED
      BY <3>2 DEF o
  <2>4. ASSUME phase = "open", ChoiceOf[c] \notin finished
        PROVE  IsPrefix(out[c], Whole(c, BeforeCanary(script[c])))
    <3> DEFINE s == script[c]
               m == at[c]
               a == Take(s, m)
               n == Cut(a, RequiredWindow)
               h == held[c]
               q == tail[c]
               o == out[c]
    <3>1. Flow(canaries, ChoiceOf[c] \in finished, c, a, carry[c], h, q, o)
      BY <2>0, <2>2, <2>4 DEF Flowing
    <3>2. CleanOf(canaries, a) /\ Passed(c, Take(a, n), h, q, o)
      BY <2>4, <3>1 DEF Flow, Reach, RequiredWindow
    <3>3. s \in Texts /\ m \in 0..Len(s)
      BY <2>2
    <3> HIDE DEF s, m, h, q, o
    <3>4. PICK z \in Texts : BeforeCanary(s) = Take(a, n) \o z
      BY <2>0, <3>2, <3>3, PassedIsBefore
    <3> DEFINE r == Take(a, n)
    <3>5. Passed(c, r, h, q, o) /\ z \in Texts /\ BeforeCanary(s) = r \o z
      BY <3>2, <3>4
    <3> HIDE DEF r, a, n
    <3>6. IsPrefix(o, Whole(c, r \o z))
      BY <3>5, PassedAll
    <3> QED
      BY <3>5, <3>6 DEF o, s
  <2> QED
    BY <2>3, <2>4
<1> QED
  BY <1>1, GuardInvAlways, PTL

(***************************************************************************)
(* A channel that has ended has shown what sanitize_model_text would have  *)
(* made of all that arrived on it, whatever the pieces were.               *)
(***************************************************************************)
THEOREM NothingIsSwallowed == Spec => []NothingIsLost
<1>1. ASSUME GuardInv PROVE NothingIsLost
  <2>1. ASSUME NEW c \in Channels, phase \in {"complete", "failed"}
        PROVE  out[c] = Whole(c, Arrived(c))
    BY <1>1, <2>1 DEF GuardInv, Ended
  <2>2. ASSUME NEW c \in Channels, phase = "open", ChoiceOf[c] \in finished
        PROVE  out[c] = Whole(c, Arrived(c))
    BY <1>1, <2>2 DEF GuardInv, Flowing, Flow
  <2> QED
    BY <2>1, <2>2 DEF NothingIsLost
<1> QED
  BY <1>1, GuardInvAlways, PTL

(***************************************************************************)
(* An interrupt reports the first canary of one of the channels, and the   *)
(* texts of an interrupted stream are shown up to their first canary, all  *)
(* of those that hold none.                                                *)
(***************************************************************************)
THEOREM InterruptReleasesTheSafePart == Spec => []InterruptKeepsTheRest
<1>1. ASSUME GuardInv, phase = "interrupted"
      PROVE  /\ match \in canaries
             /\ \E c \in Channels : Find(Arrived(c)).value = match
             /\ streaming => \A c \in TextChannels :
                  out[c] = Whole(c, IF Clean(Arrived(c)) THEN Arrived(c)
                                    ELSE BeforeCanary(Arrived(c)))
  <2>0. Typed /\ Patterns(canaries) /\ Broken
    BY <1>1 DEF GuardInv, Typed
  <2>1. PICK c \in Channels, n \in Nat : First(canaries, Arrived(c), n, match)
    BY <1>1, <2>0 DEF Broken
  <2>2. Arrived(c) \in Texts
    BY <2>0, StateTexts
  <2>3. match \in canaries /\ Find(Arrived(c)).value = match
    BY <2>0, <2>1, <2>2, BeforeTheFirst
  <2>4. ASSUME streaming, NEW d \in TextChannels
        PROVE  out[d] = Whole(d, IF Clean(Arrived(d)) THEN Arrived(d)
                                 ELSE BeforeCanary(Arrived(d)))
    <3> DEFINE t == Arrived(d)
               o == out[d]
    <3>1. Stopped(canaries, d, t, o)
      BY <1>1, <2>0, <2>4 DEF Broken
    <3>2. t \in Texts
      BY <2>0, StateTexts DEF Channels
    <3> HIDE DEF t, o
    <3>3. CASE CleanOf(canaries, t) /\ o = Whole(d, t)
      BY <2>0, <3>2, <3>3, BeforeTheFirst DEF t, o
    <3>4. CASE \E m, v : First(canaries, t, m, v) /\ o = Whole(d, Take(t, m))
      <4>1. PICK m, v : First(canaries, t, m, v) /\ o = Whole(d, Take(t, m))
        BY <3>4
      <4>2. ~Clean(t) /\ BeforeCanary(t) = Take(t, m)
        <5>1. BeforeCanary(t) = Take(t, m) /\ Find(t).value = v /\ v # None
          BY <2>0, <3>2, <4>1, BeforeTheFirst
        <5> QED
          BY <5>1 DEF Clean
      <4> QED
        BY <4>1, <4>2 DEF t, o
    <3> QED
      BY <3>1, <3>3, <3>4 DEF Stopped
  <2> QED
    BY <2>3, <2>4
<1>2. GuardInv => InterruptKeepsTheRest
  BY <1>1 DEF InterruptKeepsTheRest
<1> QED
  BY <1>2, GuardInvAlways, PTL

(***************************************************************************)
(* However the tag is cut, spaced or slashed, what a text channel shows    *)
(* has no place at which StreamingEvidenceTagGuard would block a tag.      *)
(***************************************************************************)
THEOREM ReservedTagsStayInside == Spec => []NoReservedTagShown
<1>1. ASSUME GuardInv, NEW c \in TextChannels, NEW i \in 1..Len(out[c])
      PROVE  Classify(SubSeq(out[c], i, Len(out[c])), phase \in {"complete", "failed"}).verdict
               # "block"
  <2> DEFINE o == out[c]
             a == Arrived(c)
  <2>0. Typed /\ c \in Channels /\ c \notin ToolChannels
    BY <1>1, GuardConstants DEF GuardInv, Channels
  <2>1. o \in Texts /\ a \in Texts /\ Len(o) \in Nat
    BY <2>0, StateTexts, LenProperties DEF Texts
  <2>2. i \in 1..Len(o) /\ i - 1 \in 0..(Len(o) - 1)
    BY <2>1
  <2>3. SubSeq(o, i, Len(o)) = Drop(o, i - 1)
    <3>1. (i - 1) + 1 = i
      BY <2>2
    <3> QED
      BY <3>1 DEF Drop
  <2>4. CASE phase \in {"complete", "failed"}
    <3>1. o = Whole(c, a)
      BY <1>1, <2>0, <2>4 DEF GuardInv, Ended
    <3> HIDE DEF o, a
    <3>2. o = Result(a)
      BY <2>0, <2>1, <3>1, WholeIsResult
    <3>3. ~Tagged(Drop(o, i - 1))
      BY <2>1, <2>2, <3>2, ResultUntagged
    <3>4. Classify(SubSeq(o, i, Len(o)), TRUE).verdict # "block"
      BY <2>3, <3>3 DEF Tagged
    <3>5. (phase \in {"complete", "failed"}) = TRUE
      BY <2>4
    <3> QED
      BY <3>4, <3>5 DEF o
  <2>5. CASE phase \notin {"complete", "failed"}
    <3>1. Given(canaries, c, o)
      BY <1>1, <2>0 DEF GuardInv, Giving
    <3> HIDE DEF o, a
    <3>2. PICK x \in Texts : IsPrefix(o, Whole(c, x))
      BY <3>1 DEF Given
    <3>3. IsPrefix(o, Result(x))
      BY <2>0, <3>2, WholeIsResult
    <3>4. Classify(Drop(o, i - 1), FALSE).verdict # "block"
      BY <2>1, <2>2, <3>3, BeginningUntagged
    <3>5. (phase \in {"complete", "failed"}) = FALSE
      BY <2>5
    <3> QED
      BY <2>3, <3>4, <3>5 DEF o
  <2> QED
    BY <2>4, <2>5
<1>2. GuardInv => NoReservedTagShown
  BY <1>1 DEF NoReservedTagShown
<1> QED
  BY <1>2, GuardInvAlways, PTL
=============================================================================
