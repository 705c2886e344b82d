--------------------------- MODULE SequenceLemmas ---------------------------
(***************************************************************************)
(* Facts about sequences that the proofs about channels and buffers share. *)
(*                                                                         *)
(* Flatten is defined by recursion on the length of its argument.  What    *)
(* it does when a chunk is put behind the others or the first is taken is  *)
(* proved by induction, which is stated for sets of numbers: the provers   *)
(* instantiate a set where they cannot instantiate a predicate.            *)
(***************************************************************************)
EXTENDS Chunks, WellFoundedInduction, TLAPS

-----------------------------------------------------------------------------
(* Induction.                                                              *)

\* Induction, for a set of numbers.
LEMMA AllNat ==
  ASSUME NEW T, 0 \in T, \A n \in Nat : n \in T => n + 1 \in T
  PROVE  \A n \in Nat : n \in T
<1> DEFINE R == OpToRel(<, Nat)
<1> SUFFICES ASSUME Nat \ T # {} PROVE FALSE
  OBVIOUS
<1>1. \E x \in Nat \ T : \A y \in Nat \ T : <<y, x>> \notin R
  <2>1. IsWellFoundedOn(R, Nat)
    BY NatLessThanWellFounded, Zenon
  <2>2. Nat \ T \subseteq Nat
    OBVIOUS
  <2> HIDE DEF R
  <2> QED
    BY <2>1, <2>2, WFMin, Zenon
<1>2. PICK x \in Nat \ T : \A y \in Nat \ T : ~(y < x)
  BY <1>1, Zenon DEF OpToRel
<1>3. x # 0
  BY <1>2
<1>4. x - 1 \in Nat /\ x - 1 < x
  BY <1>3
<1>5. x - 1 \in T
  BY <1>2, <1>4
<1> QED
  BY <1>2, <1>4, <1>5

\* Induction over the indices of a sequence, for a set of them.
LEMMA AllUpTo ==
  ASSUME NEW m \in Nat, NEW T,
         1 \in T, \A i \in 1..m : i \in T /\ i + 1 \in 1..m => i + 1 \in T
  PROVE  \A i \in 1..m : i \in T
<1> DEFINE U == {n \in Nat : n + 1 \in 1..m => n + 1 \in T}
<1>1. 0 \in U
  OBVIOUS
<1>2. ASSUME NEW n \in Nat, n \in U
      PROVE  n + 1 \in U
  <2> SUFFICES ASSUME (n + 1) + 1 \in 1..m PROVE (n + 1) + 1 \in T
    OBVIOUS
  <2>1. n + 1 \in 1..m
    OBVIOUS
  <2>2. n + 1 \in T
    BY <1>2, <2>1
  <2> QED
    BY <2>1, <2>2
<1>3. \A n \in Nat : n \in U
  <2> HIDE DEF U
  <2>1. \A n \in Nat : n \in U => n + 1 \in U
    BY <1>2, Zenon
  <2> QED
    BY <1>1, <2>1, AllNat, Zenon
<1> TAKE i \in 1..m
<1>4. i - 1 \in Nat /\ (i - 1) + 1 = i
  OBVIOUS
<1>5. i - 1 \in U
  BY <1>3, <1>4, Zenon
<1> QED
  BY <1>4, <1>5

-----------------------------------------------------------------------------
(* Sequences and their concatenation.                                      *)

LEMMA SeqEqual ==
  ASSUME NEW S, NEW s \in Seq(S), NEW t \in Seq(S),
         Len(s) = Len(t), \A i \in 1..Len(s) : s[i] = t[i]
  PROVE  s = t
OBVIOUS

LEMMA ConcatFacts ==
  ASSUME NEW S, NEW a \in Seq(S), NEW b \in Seq(S)
  PROVE  /\ a \o b \in Seq(S)
         /\ Len(a \o b) = Len(a) + Len(b)
         /\ \A j \in 1..(Len(a) + Len(b)) :
              (a \o b)[j] = IF j <= Len(a) THEN a[j] ELSE b[j - Len(a)]
<1>1. a \o b \in Seq(S)
  OBVIOUS
<1>2. Len(a \o b) = Len(a) + Len(b)
  OBVIOUS
<1>3. ASSUME NEW j \in 1..(Len(a) + Len(b))
      PROVE  (a \o b)[j] = IF j <= Len(a) THEN a[j] ELSE b[j - Len(a)]
  OBVIOUS
<1> QED
  BY <1>1, <1>2, <1>3

LEMMA AppendFacts ==
  ASSUME NEW S, NEW a \in Seq(S), NEW x \in S
  PROVE  /\ Append(a, x) \in Seq(S) /\ Append(a, x) # <<>>
         /\ Len(a) \in Nat /\ Len(Append(a, x)) = Len(a) + 1
         /\ \A i \in 1..Len(a) : Append(a, x)[i] = a[i]
         /\ Append(a, x)[Len(a) + 1] = x
OBVIOUS

LEMMA ConcatEmpty ==
  ASSUME NEW S, NEW a \in Seq(S)
  PROVE  a \o <<>> = a /\ <<>> \o a = a
OBVIOUS

\* Concatenation may be regrouped.
Assoc(a, b, c) == (a \o b) \o c = a \o (b \o c)

LEMMA AssocHolds ==
  ASSUME NEW S, NEW a \in Seq(S), NEW b \in Seq(S), NEW c \in Seq(S)
  PROVE  Assoc(a, b, c)
BY DEF Assoc

LEMMA ConcatType ==
  ASSUME NEW S, NEW a \in Seq(S), NEW b \in Seq(S)
  PROVE  a \o b \in Seq(S) /\ Len(a \o b) = Len(a) + Len(b)
OBVIOUS

-----------------------------------------------------------------------------
(* Flatten is defined by recursion on the length of its argument.  What it *)
(* does when a chunk is put behind the others or the first is taken is     *)
(* proved by induction.                                                    *)

\* The function that Flatten computes with: f[i] is the concatenation of
\* the first i elements of q.
IsFlatten(f, q) ==
  f = [i \in 1..Len(q) |-> IF i = 1 THEN q[i] ELSE f[i - 1] \o q[i]]

LEMMA FlattenExists ==
  ASSUME NEW S, NEW q \in Seq(Seq(S))
  PROVE  \E f : IsFlatten(f, q)
<1> DEFINE Good(f, n) ==
             \A i \in 1..n : f[i] = IF i = 1 THEN q[i] ELSE f[i - 1] \o q[i]
           T == {n \in Nat : \E f : DOMAIN f = 1..n /\ f = [i \in 1..n |-> f[i]]
                                      /\ Good(f, n)}
<1>1. 0 \in T
  <2> DEFINE e == [i \in 1..0 |-> q]
  <2>1. DOMAIN e = 1..0 /\ e = [i \in 1..0 |-> e[i]] /\ Good(e, 0)
    OBVIOUS
  <2> QED
    BY <2>1, Zenon
<1>2. ASSUME NEW n \in Nat, n \in T
      PROVE  n + 1 \in T
  <2>1. PICK f : DOMAIN f = 1..n /\ f = [i \in 1..n |-> f[i]] /\ Good(f, n)
    BY <1>2
  <2> DEFINE g == [i \in 1..(n + 1) |->
                     IF i <= n THEN f[i]
                     ELSE IF i = 1 THEN q[i] ELSE f[i - 1] \o q[i]]
  <2>2. DOMAIN g = 1..(n + 1) /\ g = [i \in 1..(n + 1) |-> g[i]]
    OBVIOUS
  <2>3. \A i \in 1..n : g[i] = f[i]
    OBVIOUS
  <2>4. g[n + 1] = IF n + 1 = 1 THEN q[n + 1] ELSE f[n] \o q[n + 1]
    OBVIOUS
  <2> HIDE DEF g
  <2>5. ASSUME NEW i \in 1..(n + 1)
        PROVE  g[i] = IF i = 1 THEN q[i] ELSE g[i - 1] \o q[i]
    <3>1. CASE i = n + 1
      <4>1. i # 1 => n \in 1..n /\ i - 1 = n
        BY <3>1
      <4> QED
        BY <2>3, <2>4, <3>1, <4>1
    <3>2. CASE i # n + 1
      <4>1. i \in 1..n /\ (i # 1 => i - 1 \in 1..n)
        BY <3>2
      <4> QED
        BY <2>1, <2>3, <4>1, Zenon
    <3> QED
      BY <3>1, <3>2
  <2>6. Good(g, n + 1)
    BY <2>5
  <2>7. \E h : /\ DOMAIN h = 1..(n + 1) /\ h = [i \in 1..(n + 1) |-> h[i]]
               /\ Good(h, n + 1)
    BY <2>2, <2>6, Zenon
  <2>8. n + 1 \in Nat
    OBVIOUS
  <2> QED
    BY <2>7, <2>8, Zenon
<1>3. Len(q) \in Nat
  OBVIOUS
<1>4. Len(q) \in T
  <2> HIDE DEF T
  <2>1. \A n \in Nat : n \in T => n + 1 \in T
    BY <1>2, Zenon
  <2> QED
    BY <1>1, <1>3, <2>1, AllNat, Zenon
<1>5. PICK f : f = [i \in 1..Len(q) |-> f[i]] /\ Good(f, Len(q))
  BY <1>4
<1>6. f = [i \in 1..Len(q) |-> IF i = 1 THEN q[i] ELSE f[i - 1] \o q[i]]
  BY <1>5, Zenon
<1> QED
  BY <1>6, Zenon DEF IsFlatten

LEMMA FlattenIs ==
  ASSUME NEW S, NEW q \in Seq(Seq(S)), q # <<>>
  PROVE  \E f : IsFlatten(f, q) /\ Flatten(q) = f[Len(q)]
<1> DEFINE F == CHOOSE f : IsFlatten(f, q)
<1>1. IsFlatten(F, q)
  BY FlattenExists, Zenon
<1>2. Len(q) # 0
  OBVIOUS
<1>3. Flatten(q) = F[Len(q)]
  BY <1>2, Zenon DEF Flatten, IsFlatten
<1> QED
  BY <1>1, <1>3, Zenon

\* The elements of that function, and that they are sequences.
FlattenRule(f, q, S) ==
  /\ f[1] = q[1]
  /\ \A i \in 2..Len(q) : f[i] = f[i - 1] \o q[i]
  /\ \A i \in 1..Len(q) : f[i] \in Seq(S)

LEMMA FlattenSteps ==
  ASSUME NEW S, NEW q \in Seq(Seq(S)), q # <<>>, NEW f, IsFlatten(f, q)
  PROVE  FlattenRule(f, q, S)
<1>1. Len(q) \in Nat \ {0} /\ \A i \in 1..Len(q) : q[i] \in Seq(S)
  OBVIOUS
<1>2. \A i \in 1..Len(q) : f[i] = IF i = 1 THEN q[i] ELSE f[i - 1] \o q[i]
  <2> TAKE i \in 1..Len(q)
  <2>1. [j \in 1..Len(q) |-> IF j = 1 THEN q[j] ELSE f[j - 1] \o q[j]][i]
          = IF i = 1 THEN q[i] ELSE f[i - 1] \o q[i]
    OBVIOUS
  <2> QED
    BY <2>1, Zenon DEF IsFlatten
<1>3. f[1] = q[1]
  <2>1. 1 \in 1..Len(q)
    BY <1>1
  <2> QED
    BY <1>2, <2>1, Zenon
<1>4. \A i \in 2..Len(q) : f[i] = f[i - 1] \o q[i]
  <2>1. \A i \in 2..Len(q) : i \in 1..Len(q) /\ i # 1
    BY <1>1
  <2> QED
    BY <1>2, <2>1, Zenon
<1> DEFINE T == {i \in 1..Len(q) : f[i] \in Seq(S)}
<1>5. 1 \in T
  BY <1>1, <1>3
<1>6. ASSUME NEW i \in 1..Len(q), i \in T, i + 1 \in 1..Len(q)
      PROVE  i + 1 \in T
  <2>1. i + 1 \in 2..Len(q) /\ (i + 1) - 1 = i
    BY <1>1, <1>6
  <2>2. f[i + 1] = f[i] \o q[i + 1]
    BY <1>4, <2>1, Zenon
  <2>3. f[i] \in Seq(S) /\ q[i + 1] \in Seq(S)
    BY <1>1, <1>6
  <2>4. f[i + 1] \in Seq(S)
    BY <2>2, <2>3, ConcatFacts, Zenon
  <2> QED
    BY <1>6, <2>4, Zenon
<1>7. \A i \in 1..Len(q) : i \in T
  <2> HIDE DEF T
  <2>1. Len(q) \in Nat
    BY <1>1
  <2> QED
    BY <1>5, <1>6, <2>1, AllUpTo, Zenon
<1>8. \A i \in 1..Len(q) : f[i] \in Seq(S)
  BY <1>7, Zenon
<1> QED
  BY <1>3, <1>4, <1>8, Zenon DEF FlattenRule

LEMMA FlattenEmpty == Flatten(<<>>) = <<>>
BY DEF Flatten

LEMMA FlattenType ==
  ASSUME NEW S, NEW q \in Seq(Seq(S))
  PROVE  Flatten(q) \in Seq(S)
<1>1. CASE q = <<>>
  <2>1. <<>> \in Seq(S)
    OBVIOUS
  <2> QED
    BY <1>1, <2>1, FlattenEmpty, Zenon
<1>2. CASE q # <<>>
  <2>1. PICK f : IsFlatten(f, q) /\ Flatten(q) = f[Len(q)]
    BY <1>2, FlattenIs, Zenon
  <2>2. Len(q) \in 1..Len(q)
    BY <1>2
  <2>3. FlattenRule(f, q, S)
    BY <1>2, <2>1, FlattenSteps, Zenon
  <2>4. f[Len(q)] \in Seq(S)
    BY <2>2, <2>3, Zenon DEF FlattenRule
  <2> QED
    BY <2>1, <2>4, Zenon
<1> QED
  BY <1>1, <1>2

\* What a channel holds when a chunk is put behind the others.
LEMMA FlattenAppend ==
  ASSUME NEW S, NEW q \in Seq(Seq(S)), NEW c \in Seq(S)
  PROVE  Flatten(Append(q, c)) = Flatten(q) \o c
<1> DEFINE r == Append(q, c)
<1>1. /\ r \in Seq(Seq(S)) /\ r # <<>>
      /\ Len(q) \in Nat /\ Len(r) = Len(q) + 1
      /\ \A i \in 1..Len(q) : r[i] = q[i]
      /\ r[Len(q) + 1] = c
  BY AppendFacts, Zenon
<1> HIDE DEF r
<1>2. PICK g : IsFlatten(g, r) /\ Flatten(r) = g[Len(r)]
  BY <1>1, FlattenIs, Zenon
<1>3. g[1] = r[1] /\ \A i \in 2..Len(r) : g[i] = g[i - 1] \o r[i]
  <2>1. FlattenRule(g, r, S)
    BY <1>1, <1>2, FlattenSteps, Zenon
  <2> QED
    BY <2>1, Zenon DEF FlattenRule
<1>4. CASE q = <<>>
  <2>1. Len(q) = 0 /\ Len(r) = 1 /\ r[1] = c
    BY <1>1, <1>4
  <2>2. <<>> \o c = c
    OBVIOUS
  <2> QED
    BY <1>2, <1>3, <1>4, <2>1, <2>2, FlattenEmpty, Zenon DEF r
<1>5. CASE q # <<>>
  <2>1. PICK f : IsFlatten(f, q) /\ Flatten(q) = f[Len(q)]
    BY <1>5, FlattenIs, Zenon
  <2>2. f[1] = q[1] /\ \A i \in 2..Len(q) : f[i] = f[i - 1] \o q[i]
    <3>1. FlattenRule(f, q, S)
      BY <1>5, <2>1, FlattenSteps, Zenon
    <3> QED
      BY <3>1, Zenon DEF FlattenRule
  <2>3. Len(q) \in 1..Len(q) /\ 1 \in 1..Len(q)
    BY <1>1, <1>5
  <2> DEFINE T == {i \in 1..Len(q) : g[i] = f[i]}
  <2>4. 1 \in T
    <3>1. g[1] = f[1]
      BY <1>1, <1>3, <2>2, <2>3, Zenon
    <3> QED
      BY <2>3, <3>1, Zenon
  <2>5. ASSUME NEW i \in 1..Len(q), i \in T, i + 1 \in 1..Len(q)
        PROVE  i + 1 \in T
    <3>1. i + 1 \in 2..Len(q) /\ i + 1 \in 2..Len(r) /\ (i + 1) - 1 = i
      BY <1>1, <2>5
    <3>2. g[i + 1] = g[i] \o r[i + 1] /\ f[i + 1] = f[i] \o q[i + 1]
      BY <1>3, <2>2, <3>1, Zenon
    <3>3. g[i + 1] = f[i + 1]
      BY <1>1, <2>5, <3>2, Zenon
    <3> QED
      BY <2>5, <3>3, Zenon
  <2>6. \A i \in 1..Len(q) : i \in T
    <3> HIDE DEF T
    <3> QED
      BY <1>1, <2>4, <2>5, AllUpTo, Zenon
  <2>7. g[Len(q)] = f[Len(q)]
    BY <2>3, <2>6, Zenon
  <2>8. Len(r) \in 2..Len(r) /\ Len(r) - 1 = Len(q)
    BY <1>1, <2>3
  <2>9. g[Len(r)] = f[Len(q)] \o c
    BY <1>1, <1>3, <2>7, <2>8, Zenon
  <2> QED
    BY <1>2, <2>1, <2>9, Zenon DEF r
<1> QED
  BY <1>4, <1>5

\* What a channel holds when its oldest chunk is taken.
LEMMA FlattenTail ==
  ASSUME NEW S, NEW q \in Seq(Seq(S)), q # <<>>
  PROVE  Flatten(q) = Head(q) \o Flatten(Tail(q))
<1> DEFINE t == Tail(q)
<1>1. /\ t \in Seq(Seq(S)) /\ Len(q) \in Nat \ {0} /\ Len(t) = Len(q) - 1
      /\ Head(q) \in Seq(S) /\ Head(q) = q[1]
      /\ \A i \in 1..Len(t) : t[i] = q[i + 1]
      /\ \A i \in 1..Len(t) : t[i] \in Seq(S)
  OBVIOUS
<1> HIDE DEF t
<1>2. PICK f : IsFlatten(f, q) /\ Flatten(q) = f[Len(q)]
  BY FlattenIs, Zenon
<1>3. f[1] = q[1] /\ \A i \in 2..Len(q) : f[i] = f[i - 1] \o q[i]
  <2>1. FlattenRule(f, q, S)
    BY <1>2, FlattenSteps, Zenon
  <2> QED
    BY <2>1, Zenon DEF FlattenRule
<1>4. CASE t = <<>>
  <2>1. Len(q) = 1
    BY <1>1, <1>4
  <2>2. Head(q) \o <<>> = Head(q)
    BY <1>1, ConcatEmpty, Zenon
  <2> QED
    BY <1>1, <1>2, <1>3, <1>4, <2>1, <2>2, FlattenEmpty, Zenon DEF t
<1>5. CASE t # <<>>
  <2>1. PICK h : IsFlatten(h, t) /\ Flatten(t) = h[Len(t)]
    BY <1>1, <1>5, FlattenIs, Zenon
  <2>2. /\ h[1] = t[1] /\ \A i \in 2..Len(t) : h[i] = h[i - 1] \o t[i]
        /\ \A i \in 1..Len(t) : h[i] \in Seq(S)
    <3>1. FlattenRule(h, t, S)
      BY <1>1, <1>5, <2>1, FlattenSteps, Zenon
    <3> QED
      BY <3>1, Zenon DEF FlattenRule
  <2>3. Len(t) \in Nat /\ Len(t) \in 1..Len(t) /\ 1 \in 1..Len(t)
    BY <1>1, <1>5
  <2> DEFINE T == {i \in 1..Len(t) : f[i + 1] = Head(q) \o h[i]}
  <2>4. 1 \in T
    <3>1. 1 + 1 \in 2..Len(q) /\ (1 + 1) - 1 = 1
      BY <1>1, <2>3
    <3>2. f[1 + 1] = f[1] \o q[1 + 1]
      BY <1>3, <3>1, Zenon
    <3>3. h[1] = q[1 + 1]
      BY <1>1, <2>2, <2>3, Zenon
    <3>4. f[1 + 1] = Head(q) \o h[1]
      BY <1>1, <1>3, <3>2, <3>3, Zenon
    <3> QED
      BY <2>3, <3>4, Zenon
  <2>5. ASSUME NEW i \in 1..Len(t), i \in T, i + 1 \in 1..Len(t)
        PROVE  i + 1 \in T
    <3>1. /\ i + 1 \in 2..Len(t) /\ (i + 1) - 1 = i
          /\ (i + 1) + 1 \in 2..Len(q) /\ ((i + 1) + 1) - 1 = i + 1
      BY <1>1, <2>5
    <3>2. f[(i + 1) + 1] = f[i + 1] \o q[(i + 1) + 1]
      BY <1>3, <3>1, Zenon
    <3>3. h[i + 1] = h[i] \o t[i + 1] /\ t[i + 1] = q[(i + 1) + 1]
      BY <1>1, <2>2, <2>5, <3>1, Zenon
    <3>4. f[i + 1] = Head(q) \o h[i]
      BY <2>5, Zenon
    <3>5. Head(q) \in Seq(S) /\ h[i] \in Seq(S) /\ t[i + 1] \in Seq(S)
      BY <1>1, <2>2, <2>5, Zenon
    <3>6. Assoc(Head(q), h[i], t[i + 1])
      BY <3>5, AssocHolds, Zenon
    <3>7. f[(i + 1) + 1] = Head(q) \o h[i + 1]
      BY <3>2, <3>3, <3>4, <3>6, Zenon DEF Assoc
    <3> QED
      BY <2>5, <3>7, Zenon
  <2>6. \A i \in 1..Len(t) : i \in T
    <3> HIDE DEF T
    <3> QED
      BY <2>3, <2>4, <2>5, AllUpTo, Zenon
  <2>7. f[Len(t) + 1] = Head(q) \o h[Len(t)]
    BY <2>3, <2>6, Zenon
  <2>8. Len(t) + 1 = Len(q)
    BY <1>1
  <2> QED
    BY <1>2, <2>1, <2>7, <2>8, Zenon DEF t
<1> QED
  BY <1>4, <1>5

-----------------------------------------------------------------------------
(* Sequences laid end to end.                                              *)

Line(a, b, c, d) == ((a \o b) \o c) \o d

\* What is taken from the front of the second goes to the end of the first.
Handed(x, y, u, v) == x \o y = u \o v

LEMMA EndToEnd ==
  ASSUME NEW S, NEW q \in Seq(S)
  PROVE  /\ \A x \in S : Append(q, x) = q \o <<x>>
         /\ q # <<>> => q = <<Head(q)>> \o Tail(q) /\ Head(q) \in S
         /\ q \o <<>> = q /\ <<>> \o q = q
<1>1. \A x \in S : Append(q, x) = q \o <<x>>
  OBVIOUS
<1>2. q # <<>> => q = <<Head(q)>> \o Tail(q) /\ Head(q) \in S
  <2> HAVE q # <<>>
  <2>1. Head(q) \in S /\ Tail(q) \in Seq(S) /\ Len(Tail(q)) = Len(q) - 1
        /\ Len(q) \in Nat \ {0} /\ Head(q) = q[1]
        /\ \A i \in 1..Len(q) - 1 : Tail(q)[i] = q[i + 1]
    OBVIOUS
  <2> DEFINE r == <<Head(q)>> \o Tail(q)
             h == <<Head(q)>>
             t == Tail(q)
  <2>2. h \in Seq(S) /\ Len(h) = 1 /\ h[1] = q[1]
    BY <2>1
  <2> HIDE DEF h, t
  <2>3. /\ h \o t \in Seq(S) /\ Len(h \o t) = Len(h) + Len(t)
        /\ \A i \in 1..Len(h) + Len(t) :
             (h \o t)[i] = IF i <= Len(h) THEN h[i] ELSE t[i - Len(h)]
    BY <2>1, <2>2, ConcatFacts, Zenon DEF t
  <2>4. Len(h \o t) = Len(q) /\ \A i \in 1..Len(q) : (h \o t)[i] = q[i]
    BY <2>1, <2>2, <2>3 DEF t
  <2>5. h \o t = q
    BY <2>3, <2>4, SeqEqual, Zenon
  <2> QED
    BY <2>1, <2>5 DEF h, t
<1>3. q \o <<>> = q /\ <<>> \o q = q
  BY ConcatEmpty
<1> QED
  BY <1>1, <1>2, <1>3, Zenon

SameLine(a, b, c, d, u, v, w, x) == Line(a, b, c, d) = Line(u, v, w, x)

LEMMA LineHanded ==
  ASSUME NEW S, NEW a \in Seq(S), NEW b \in Seq(S), NEW c \in Seq(S),
         NEW d \in Seq(S), NEW u \in Seq(S), NEW v \in Seq(S)
  PROVE  /\ Handed(a, b, u, v) => SameLine(a, b, c, d, u, v, c, d)
         /\ Handed(b, c, u, v) => SameLine(a, b, c, d, a, u, v, d)
         /\ Handed(c, d, u, v) => SameLine(a, b, c, d, a, b, u, v)
<1>1. a \o b \in Seq(S)
  BY ConcatType, Zenon
<1>2. Assoc(a, b, c) /\ Assoc(a, u, v)
  BY AssocHolds, Zenon
<1>3. Assoc(a \o b, c, d) /\ Assoc(a \o b, u, v)
  BY <1>1, AssocHolds, Zenon
<1>4. ASSUME Handed(a, b, u, v) PROVE SameLine(a, b, c, d, u, v, c, d)
  BY <1>4, Zenon DEF Handed, SameLine, Line
<1>5. ASSUME Handed(b, c, u, v) PROVE SameLine(a, b, c, d, a, u, v, d)
  BY <1>2, <1>5, Zenon DEF Handed, SameLine, Line, Assoc
<1>6. ASSUME Handed(c, d, u, v) PROVE SameLine(a, b, c, d, a, b, u, v)
  BY <1>3, <1>6, Zenon DEF Handed, SameLine, Line, Assoc
<1> QED
  BY <1>4, <1>5, <1>6, Zenon

\* The rest of a line behind its first two parts.
Regrouped(p, c, d, e) == ((p \o c) \o d) \o e = p \o ((c \o d) \o e)

LEMMA Regroup ==
  ASSUME NEW S, NEW p \in Seq(S), NEW c \in Seq(S), NEW d \in Seq(S),
         NEW e \in Seq(S)
  PROVE  Regrouped(p, c, d, e)
<1>1. c \o d \in Seq(S)
  BY ConcatType, Zenon
<1>2. Assoc(p, c, d)
  BY AssocHolds, Zenon
<1>3. Assoc(p, c \o d, e)
  BY <1>1, AssocHolds, Zenon
<1> QED
  BY <1>2, <1>3, Zenon DEF Assoc, Regrouped

LEMMA HandedBy ==
  ASSUME NEW S, NEW x \in Seq(S), NEW h \in Seq(S), NEW t \in Seq(S)
  PROVE  Handed(x, h \o t, x \o h, t)
<1>1. Assoc(x, h, t)
  BY AssocHolds, Zenon
<1> QED
  BY <1>1, Zenon DEF Assoc, Handed

-----------------------------------------------------------------------------
(* Numbers in increasing order, up to a bound.                             *)

Rising(s, n) ==
  /\ \A i, j \in DOMAIN s : i < j => s[i] < s[j]
  /\ \A i \in DOMAIN s : s[i] <= n

\* The elements of two sequences end to end.
Joined(a, b) ==
  /\ Len(a \o b) = Len(a) + Len(b) /\ DOMAIN (a \o b) = 1..Len(a) + Len(b)
  /\ \A i \in 1..Len(a) : (a \o b)[i] = a[i]
  /\ \A i \in 1..Len(b) : (a \o b)[Len(a) + i] = b[i]

LEMMA Joins ==
  ASSUME NEW S, NEW a \in Seq(S), NEW b \in Seq(S)
  PROVE  Joined(a, b)
BY DEF Joined

LEMMA RisingDrop ==
  ASSUME NEW x \in Seq(Nat), NEW y \in Seq(Nat), NEW z \in Seq(Nat), NEW n,
         Rising((x \o y) \o z, n)
  PROVE  Rising(x \o z, n)
<1> DEFINE w == x \o y
           l == w \o z
           s == x \o z
           h(i) == IF i <= Len(x) THEN i ELSE i + Len(y)
<1>1. Len(x) \in Nat /\ Len(y) \in Nat /\ Len(z) \in Nat
  OBVIOUS
<1>2. w \in Seq(Nat)
  BY ConcatType, Zenon
<1>3. Joined(x, y) /\ Joined(x, z)
  BY Joins, Zenon
<1>4. Joined(w, z)
  BY <1>2, Joins, Zenon
<1>5. /\ Len(w) = Len(x) + Len(y) /\ \A i \in 1..Len(x) : w[i] = x[i]
  BY <1>3, Zenon DEF Joined
<1>6. /\ DOMAIN s = 1..Len(x) + Len(z)
      /\ \A i \in 1..Len(x) : s[i] = x[i]
      /\ \A i \in 1..Len(z) : s[Len(x) + i] = z[i]
  BY <1>3, Zenon DEF Joined
<1>7. /\ DOMAIN l = 1..Len(w) + Len(z)
      /\ \A i \in 1..Len(w) : l[i] = w[i]
      /\ \A i \in 1..Len(z) : l[Len(w) + i] = z[i]
  BY <1>4, Zenon DEF Joined
<1> HIDE DEF w, l, s
<1>8. ASSUME NEW i \in DOMAIN s
      PROVE  h(i) \in DOMAIN l /\ l[h(i)] = s[i]
  <2>1. i \in 1..Len(x) + Len(z)
    BY <1>6, Zenon
  <2>2. CASE i <= Len(x)
    <3>1. i \in 1..Len(x) /\ i \in 1..Len(w) /\ i \in 1..Len(w) + Len(z)
          /\ h(i) = i
      BY <1>1, <1>5, <2>1, <2>2
    <3> QED
      BY <1>5, <1>6, <1>7, <3>1, Zenon
  <2>3. CASE ~(i <= Len(x))
    <3>1. PICK k \in 1..Len(z) : i = Len(x) + k
      <4>1. i - Len(x) \in 1..Len(z) /\ i = Len(x) + (i - Len(x))
        BY <1>1, <2>1, <2>3
      <4> QED
        BY <4>1, Zenon
    <3>2. h(i) = Len(w) + k /\ Len(w) + k \in 1..Len(w) + Len(z)
      BY <1>1, <1>5, <2>3, <3>1
    <3> QED
      BY <1>6, <1>7, <3>1, <3>2, Zenon
  <2> QED
    BY <2>2, <2>3, Zenon
<1>9. ASSUME NEW i \in DOMAIN s, NEW j \in DOMAIN s, i < j
      PROVE  h(i) < h(j)
  BY <1>1, <1>6, <1>9
<1> HIDE DEF h
<1>10. Rising(l, n)
  BY Zenon DEF l, w
<1>11. Rising(s, n)
  BY <1>8, <1>9, <1>10, Zenon DEF Rising
<1> QED
  BY <1>11, Zenon DEF s

LEMMA RisingMore ==
  ASSUME NEW s \in Seq(Nat), NEW n \in Nat, Rising(s, n)
  PROVE  Rising(Append(s, n + 1), n + 1)
<1>1. /\ Len(s) \in Nat /\ DOMAIN s = 1..Len(s)
      /\ DOMAIN Append(s, n + 1) = 1..Len(s) + 1
      /\ \A i \in 1..Len(s) : Append(s, n + 1)[i] = s[i] /\ s[i] \in Nat
      /\ Append(s, n + 1)[Len(s) + 1] = n + 1
  OBVIOUS
<1> DEFINE t == Append(s, n + 1)
<1> HIDE DEF t
<1>2. /\ \A i \in 1..Len(s) : t[i] = s[i] /\ s[i] \in Nat /\ s[i] <= n
      /\ t[Len(s) + 1] = n + 1 /\ DOMAIN t = 1..Len(s) + 1
  BY <1>1, Zenon DEF Rising, t
<1>3. ASSUME NEW i \in DOMAIN t, NEW j \in DOMAIN t, i < j
      PROVE  t[i] < t[j]
  <2>1. i \in 1..Len(s)
    BY <1>1, <1>2, <1>3
  <2>2. CASE j = Len(s) + 1
    BY <1>2, <2>1, <2>2
  <2>3. CASE j # Len(s) + 1
    <3>1. j \in 1..Len(s)
      BY <1>1, <1>2, <1>3, <2>3
    <3> QED
      BY <1>1, <1>2, <1>3, <2>1, <3>1 DEF Rising
  <2> QED
    BY <2>2, <2>3, Zenon
<1>4. ASSUME NEW i \in DOMAIN t
      PROVE  t[i] <= n + 1
  BY <1>1, <1>2
<1> QED
  BY <1>3, <1>4 DEF Rising, t

LEMMA CountingUp ==
  ASSUME NEW n \in Nat
  PROVE  /\ [i \in 1..n |-> i] \in Seq(Nat)
         /\ Append([i \in 1..n |-> i], n + 1) = [i \in 1..n + 1 |-> i]
<1> DEFINE s == [i \in 1..n |-> i]
           a == Append(s, n + 1)
           b == [i \in 1..n + 1 |-> i]
<1>1. s \in Seq(Nat) /\ Len(s) = n /\ \A i \in 1..n : s[i] = i
  OBVIOUS
<1>2. b \in Seq(Nat) /\ Len(b) = n + 1 /\ \A i \in 1..n + 1 : b[i] = i
  OBVIOUS
<1> HIDE DEF s, b
<1>3. /\ a \in Seq(Nat) /\ Len(a) = n + 1
      /\ \A i \in 1..n : a[i] = s[i] /\ a[n + 1] = n + 1
  BY <1>1
<1>4. \A i \in 1..n + 1 : a[i] = b[i]
  <2>1. a[n + 1] = n + 1
    BY <1>1
  <2>2. \A i \in 1..n + 1 : i \in 1..n \/ i = n + 1
    OBVIOUS
  <2> HIDE DEF a
  <2>3. \A i \in 1..n : a[i] = i
    BY <1>1, <1>3, Zenon
  <2> QED
    BY <1>2, <2>1, <2>2, <2>3, Zenon
<1> HIDE DEF a
<1>5. a = b
  BY <1>2, <1>3, <1>4, SeqEqual
<1> QED
  BY <1>1, <1>5, Zenon DEF a, b, s

-----------------------------------------------------------------------------
(* Five sequences end to end.                                             *)

Way(a, b, c, d, e) == Line(a, b, c, d) \o e
SameWay(a, b, c, d, e, u, v, w, x, y) == Way(a, b, c, d, e) = Way(u, v, w, x, y)

LEMMA WayHanded ==
  ASSUME NEW S, NEW a \in Seq(S), NEW b \in Seq(S), NEW c \in Seq(S),
         NEW d \in Seq(S), NEW e \in Seq(S), NEW u \in Seq(S), NEW v \in Seq(S)
  PROVE  /\ Handed(a, b, u, v) => SameWay(a, b, c, d, e, u, v, c, d, e)
         /\ Handed(b, c, u, v) => SameWay(a, b, c, d, e, a, u, v, d, e)
         /\ Handed(c, d, u, v) => SameWay(a, b, c, d, e, a, b, u, v, e)
         /\ Handed(d, e, u, v) => SameWay(a, b, c, d, e, a, b, c, u, v)
<1>1. ASSUME Handed(a, b, u, v) PROVE SameWay(a, b, c, d, e, u, v, c, d, e)
  <2>1. SameLine(a, b, c, d, u, v, c, d)
    BY <1>1, LineHanded, Zenon
  <2> QED
    BY <2>1, Zenon DEF SameLine, SameWay, Way
<1>2. ASSUME Handed(b, c, u, v) PROVE SameWay(a, b, c, d, e, a, u, v, d, e)
  <2>1. SameLine(a, b, c, d, a, u, v, d)
    BY <1>2, LineHanded, Zenon
  <2> QED
    BY <2>1, Zenon DEF SameLine, SameWay, Way
<1>3. ASSUME Handed(c, d, u, v) PROVE SameWay(a, b, c, d, e, a, b, u, v, e)
  <2>1. SameLine(a, b, c, d, a, b, u, v)
    BY <1>3, LineHanded, Zenon
  <2> QED
    BY <2>1, Zenon DEF SameLine, SameWay, Way
<1>4. ASSUME Handed(d, e, u, v) PROVE SameWay(a, b, c, d, e, a, b, c, u, v)
  <2>1. (a \o b) \o c \in Seq(S)
    <3>1. a \o b \in Seq(S)
      BY ConcatType, Zenon
    <3> QED
      BY <3>1, ConcatType, Zenon
  <2>2. Assoc((a \o b) \o c, d, e) /\ Assoc((a \o b) \o c, u, v)
    BY <2>1, AssocHolds, Zenon
  <2> QED
    BY <1>4, <2>2, Zenon DEF Handed, Assoc, SameWay, Way, Line
<1> QED
  BY <1>1, <1>2, <1>3, <1>4, Zenon

\* What may be dropped on the way leaves the rest in order.
LEMMA DropWaiting ==
  ASSUME NEW a \in Seq(Nat), NEW b \in Seq(Nat), NEW c \in Seq(Nat),
         NEW d \in Seq(Nat), NEW e \in Seq(Nat), NEW n,
         Rising(Way(a, b, c, d, e), n)
  PROVE  Rising(Way(a, <<>>, c, d, e), n)
<1> DEFINE z == (c \o d) \o e
<1>1. a \o b \in Seq(Nat) /\ c \o d \in Seq(Nat)
  BY ConcatType, Zenon
<1>2. z \in Seq(Nat)
  BY <1>1, ConcatType, Zenon
<1>3. Regrouped(a \o b, c, d, e) /\ Regrouped(a, c, d, e)
  BY <1>1, Regroup, Zenon
<1>4. Rising((a \o b) \o z, n)
  BY <1>3, Zenon DEF Regrouped, Way, Line
<1>5. a \o <<>> = a
  BY EndToEnd, Zenon
<1>6. Way(a, <<>>, c, d, e) = a \o z
  BY <1>3, <1>5, Zenon DEF Regrouped, Way, Line
<1> HIDE DEF z
<1>7. Rising(a \o z, n)
  BY <1>2, <1>4, RisingDrop, Zenon
<1> QED
  BY <1>6, <1>7, Zenon

LEMMA DropFirst ==
  ASSUME NEW a \in Seq(Nat), NEW b \in Seq(Nat), NEW y \in Seq(Nat),
         NEW t \in Seq(Nat), NEW d \in Seq(Nat), NEW e \in Seq(Nat), NEW n,
         Rising(Way(a, b, y \o t, d, e), n)
  PROVE  Rising(Way(a, b, t, d, e), n)
<1> DEFINE p == a \o b
           c == y \o t
           z == (t \o d) \o e
<1>1. p \in Seq(Nat) /\ c \in Seq(Nat) /\ t \o d \in Seq(Nat)
  BY ConcatType, Zenon
<1>2. z \in Seq(Nat)
  BY <1>1, ConcatType, Zenon
<1> HIDE DEF p, c
<1>3. /\ Regrouped(p, c, d, e) /\ Regrouped(p, t, d, e)
      /\ Regrouped(y, t, d, e)
  BY <1>1, Regroup, Zenon
<1>4. Assoc(p, y, z)
  BY <1>1, <1>2, AssocHolds, Zenon
<1>5. (c \o d) \o e = y \o z
  BY <1>3, Zenon DEF Regrouped, c
<1>6. Way(a, b, c, d, e) = p \o ((c \o d) \o e) /\ Way(a, b, t, d, e) = p \o z
  BY <1>3, Zenon DEF Regrouped, Way, Line, p
<1> HIDE DEF z
<1>7. Rising((p \o y) \o z, n)
  BY <1>4, <1>5, <1>6, Zenon DEF Assoc, c
<1>8. Rising(p \o z, n)
  BY <1>1, <1>2, <1>7, RisingDrop, Zenon
<1> QED
  BY <1>6, <1>8, Zenon

LEMMA DropUnsent ==
  ASSUME NEW a \in Seq(Nat), NEW b \in Seq(Nat), NEW c \in Seq(Nat),
         NEW d \in Seq(Nat), NEW e \in Seq(Nat), NEW n,
         Rising(Way(a, b, c, d, e), n)
  PROVE  Rising(Way(a, b, c, <<>>, e), n)
<1> DEFINE p == (a \o b) \o c
<1>1. p \in Seq(Nat)
  <2>1. a \o b \in Seq(Nat)
    BY ConcatType, Zenon
  <2> QED
    BY <2>1, ConcatType, Zenon
<1>2. /\ Way(a, b, c, d, e) = (p \o d) \o e
      /\ Way(a, b, c, <<>>, e) = (p \o <<>>) \o e
  BY Zenon DEF Way, Line
<1> HIDE DEF p
<1>3. p \o <<>> = p
  BY <1>1, EndToEnd, Zenon
<1>4. Rising((p \o d) \o e, n)
  BY <1>2, Zenon
<1>5. Rising(p \o e, n)
  BY <1>1, <1>4, RisingDrop, Zenon
<1> QED
  BY <1>2, <1>3, <1>5, Zenon

LEMMA DropRead ==
  ASSUME NEW a \in Seq(Nat), NEW b \in Seq(Nat), NEW c \in Seq(Nat),
         NEW d \in Seq(Nat), NEW e \in Seq(Nat), NEW n,
         Rising(Way(a, b, c, d, e), n)
  PROVE  Rising(Way(a, b, c, d, <<>>), n)
<1> DEFINE q == Line(a, b, c, d)
<1>1. q \in Seq(Nat)
  <2>1. a \o b \in Seq(Nat)
    BY ConcatType, Zenon
  <2>2. (a \o b) \o c \in Seq(Nat)
    BY <2>1, ConcatType, Zenon
  <2> QED
    BY <2>2, ConcatType, Zenon DEF Line
<1>2. Way(a, b, c, d, e) = q \o e /\ Way(a, b, c, d, <<>>) = q \o <<>>
  BY Zenon DEF Way
<1> HIDE DEF q
<1>3. q \o e \in Seq(Nat) /\ <<>> \in Seq(Nat)
  BY <1>1, ConcatType
<1>4. (q \o e) \o <<>> = q \o e
  <2>1. \A w \in Seq(Nat) : w \o <<>> = w
    BY EndToEnd, Zenon
  <2> QED
    BY <1>3, <2>1, Zenon
<1>5. Rising((q \o e) \o <<>>, n)
  BY <1>2, <1>4, Zenon
<1>6. Rising(q \o <<>>, n)
  BY <1>1, <1>3, <1>5, RisingDrop, Zenon
<1> QED
  BY <1>2, <1>6, Zenon

=============================================================================
