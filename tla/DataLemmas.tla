----------------------------- MODULE DataLemmas -----------------------------
(***************************************************************************)
(* Facts about numbers, sets and sequences that several components' proofs *)
(* rest on.  Induction is used in its first-order form: a nonempty set of  *)
(* naturals has a least element, so a claim about all lengths is proved by *)
(* looking at the least length it fails for.                               *)
(***************************************************************************)
EXTENDS Integers, SequencesExt, SequenceTheorems, FiniteSetTheorems, TLAPS

(* The least-number principle. *)
LEMMA LeastNumber ==
  ASSUME NEW T \in SUBSET Nat, T # {}
  PROVE  \E n \in T : \A m \in T : n <= m
<1>1. PICK n \in T : \A m \in T : <<m, n>> \notin OpToRel(<, Nat)
  BY WFMin, NatLessThanWellFounded
<1>2. \A m \in T : ~(m < n)
  BY <1>1 DEF OpToRel
<1>3. QED
  BY <1>2

(* The maximum of a set of bounded naturals is its greatest element. *)
LEMMA MaxIsGreatest ==
  ASSUME NEW n \in Nat, NEW T \in SUBSET (0..n), T # {}
  PROVE  Max(T) \in T /\ \A x \in T : x <= Max(T)
<1> DEFINE D == {n - x : x \in T}
<1>1. D \in SUBSET Nat /\ D # {}
  <2>1. \A x \in T : n - x \in Nat
    OBVIOUS
  <2>2. QED
    BY <2>1
<1> HIDE DEF D
<1>2. PICK d \in D : \A e \in D : d <= e
  BY <1>1, LeastNumber
<1> USE DEF D
<1>3. PICK x \in T : d = n - x
  BY <1>2
<1>4. \A y \in T : x >= y
  <2> TAKE y \in T
  <2>1. n - y \in D
    OBVIOUS
  <2>2. d <= n - y
    BY <1>2, <2>1
  <2>3. x \in 0..n /\ y \in 0..n
    OBVIOUS
  <2>4. QED
    BY <1>3, <2>2, <2>3
<1>5. \A y, z \in T : y >= z <=> z <= y
  OBVIOUS
<1> HIDE DEF D
<1>6. Max(T) \in T /\ \A y \in T : Max(T) >= y
  BY <1>3, <1>4, Zenon DEF Max
<1>7. QED
  BY <1>5, <1>6

(* And the greatest element is the maximum. *)
LEMMA GreatestIsMax ==
  ASSUME NEW n \in Nat, NEW T \in SUBSET (0..n), NEW x \in T, \A y \in T : y <= x
  PROVE  Max(T) = x
<1>1. Max(T) \in T /\ \A y \in T : y <= Max(T)
  BY MaxIsGreatest
<1>2. Max(T) <= x /\ x <= Max(T) /\ x \in 0..n /\ Max(T) \in 0..n
  BY <1>1
<1>3. QED
  BY <1>2

(* The minimum of a nonempty set of naturals is its least element. *)
LEMMA MinIsLeast ==
  ASSUME NEW T \in SUBSET Nat, T # {}
  PROVE  Min(T) \in T /\ \A x \in T : Min(T) <= x
<1>1. PICK n \in T : \A m \in T : n <= m
  BY LeastNumber
<1>2. QED
  BY <1>1, Zenon DEF Min

-----------------------------------------------------------------------------
(* FlattenSeq, one element at a time. *)

(* The function FlattenSeq is defined by: f[i] is the concatenation of the *)
(* first i sequences of s. *)
Partials(f, s, n) == f = [i \in 1..n |-> IF i = 1 THEN s[i] ELSE f[i - 1] \o s[i]]

(* There is one of every length. *)
LEMMA PartialsExist ==
  ASSUME NEW s, NEW n \in Nat
  PROVE  \E f : Partials(f, s, n)
<1> DEFINE T == {m \in Nat : ~ \E f : Partials(f, s, m)}
<1> SUFFICES T = {}
  OBVIOUS
<1> SUFFICES ASSUME T # {} PROVE FALSE
  OBVIOUS
<1>1. PICK m \in T : \A k \in T : m <= k
  <2>1. T \in SUBSET Nat
    OBVIOUS
  <2> HIDE DEF T
  <2>2. QED
    BY <2>1, LeastNumber
<1>2. m # 0
  <2>1. Partials([i \in 1..0 |-> 0], s, 0)
    BY DEF Partials
  <2>2. QED
    BY <2>1
<1>3. PICK f : Partials(f, s, m - 1)
  BY <1>1, <1>2
<1> DEFINE e == IF m = 1 THEN s[m] ELSE f[m - 1] \o s[m]
           g == [i \in 1..m |-> IF i = m THEN e ELSE f[i]]
<1>4. \A i \in 1..m : g[i] = IF i = 1 THEN s[i] ELSE g[i - 1] \o s[i]
  <2> TAKE i \in 1..m
  <2> m \in Nat /\ i \in Nat /\ 1 <= i /\ i <= m
    BY <1>1
  <2>1. CASE i = m
    <3>1. g[i] = IF m = 1 THEN s[m] ELSE f[m - 1] \o s[m]
      BY <2>1
    <3>2. m # 1 => m - 1 \in 1..m /\ m - 1 # m
      OBVIOUS
    <3>3. m # 1 => g[m - 1] = f[m - 1]
      BY <3>2
    <3>4. QED
      BY <2>1, <3>1, <3>3
  <2>2. CASE i # m
    <3>1. i \in 1..(m - 1)
      BY <2>2
    <3>2. f[i] = IF i = 1 THEN s[i] ELSE f[i - 1] \o s[i]
      BY <1>3, <3>1 DEF Partials
    <3>3. g[i] = f[i]
      BY <2>2
    <3>4. i # 1 => i - 1 \in 1..m /\ i - 1 # m
      OBVIOUS
    <3>5. i # 1 => g[i - 1] = f[i - 1]
      BY <3>4
    <3>6. QED
      BY <3>2, <3>3, <3>5
  <2>3. QED
    BY <2>1, <2>2
<1>5. Partials(g, s, m)
  <2>1. g = [i \in 1..m |-> g[i]]
    OBVIOUS
  <2>2. [i \in 1..m |-> g[i]] = [i \in 1..m |-> IF i = 1 THEN s[i] ELSE g[i - 1] \o s[i]]
    BY <1>4, Zenon
  <2>3. QED
    BY <2>1, <2>2 DEF Partials
<1>6. QED
  BY <1>1, <1>5

Agree(f, g, n) == \A i \in 1..n : f[i] = g[i]

(* It does not depend on what comes after. *)
LEMMA PartialsAgree ==
  ASSUME NEW f, NEW g, NEW s, NEW t, NEW n \in Nat, NEW k \in Nat, n <= k,
         Partials(f, s, n), Partials(g, t, k), Agree(s, t, n)
  PROVE  Agree(f, g, n)
<1> USE DEF Agree
<1> DEFINE T == {i \in 1..n : f[i] # g[i]}
<1> SUFFICES ASSUME T # {} PROVE FALSE
  OBVIOUS
<1>1. PICK m \in T : \A j \in T : m <= j
  <2>1. T \in SUBSET Nat
    OBVIOUS
  <2> HIDE DEF T
  <2>2. QED
    BY <2>1, LeastNumber
<1>2. /\ f[m] = IF m = 1 THEN s[m] ELSE f[m - 1] \o s[m]
      /\ g[m] = IF m = 1 THEN t[m] ELSE g[m - 1] \o t[m]
  <2>1. m \in 1..n /\ m \in 1..k
    BY <1>1
  <2>2. QED
    BY <2>1 DEF Partials
<1>3. m # 1 => f[m - 1] = g[m - 1]
  <2>1. m # 1 => m - 1 \in 1..n /\ ~(m <= m - 1)
    BY <1>1
  <2>2. QED
    BY <1>1, <2>1
<1>4. QED
  BY <1>1, <1>2, <1>3

(* And its last value is FlattenSeq. *)
LEMMA FlattenIsLastPrefix ==
  ASSUME NEW s, Len(s) # 0, Len(s) \in Nat
  PROVE  \E f : Partials(f, s, Len(s)) /\ FlattenSeq(s) = f[Len(s)]
<1> DEFINE f == CHOOSE f : Partials(f, s, Len(s))
<1>1. Partials(f, s, Len(s))
  BY PartialsExist
<1>2. FlattenSeq(s) = f[Len(s)]
  BY DEF FlattenSeq, Partials
<1>3. QED
  BY <1>1, <1>2

(* Its values are sequences of the same elements. *)
LEMMA PartialsType ==
  ASSUME NEW S, NEW s \in Seq(Seq(S)), NEW f, Partials(f, s, Len(s))
  PROVE  \A i \in 1..Len(s) : f[i] \in Seq(S)
<1> DEFINE T == {i \in 1..Len(s) : f[i] \notin Seq(S)}
<1> SUFFICES ASSUME T # {} PROVE FALSE
  OBVIOUS
<1>1. PICK m \in T : \A j \in T : m <= j
  <2>1. T \in SUBSET Nat
    OBVIOUS
  <2> HIDE DEF T
  <2>2. QED
    BY <2>1, LeastNumber
<1>2. Len(s) \in Nat /\ m \in 1..Len(s) /\ s[m] \in Seq(S)
  BY <1>1, ElementOfSeq, LenProperties
<1>3. f[m] = IF m = 1 THEN s[m] ELSE f[m - 1] \o s[m]
  BY <1>2 DEF Partials
<1>4. m # 1 => f[m - 1] \in Seq(S)
  <2>1. m # 1 => m - 1 \in 1..Len(s) /\ ~(m <= m - 1)
    BY <1>2
  <2>2. QED
    BY <1>1, <2>1
<1>5. f[m] \in Seq(S)
  BY <1>2, <1>3, <1>4, ConcatProperties
<1>6. QED
  BY <1>1, <1>5

(* Nothing flattens to nothing. *)
LEMMA FlattenEmpty == FlattenSeq(<<>>) = <<>>
  BY DEF FlattenSeq

(* The result is a sequence of the inner elements. *)
LEMMA FlattenType ==
  ASSUME NEW S, NEW s \in Seq(Seq(S))
  PROVE  FlattenSeq(s) \in Seq(S)
<1>1. CASE s = <<>>
  BY <1>1, FlattenEmpty, EmptySeq
<1>2. CASE s # <<>>
  <2>1. Len(s) \in Nat /\ Len(s) # 0
    BY <1>2
  <2>2. PICK f : Partials(f, s, Len(s)) /\ FlattenSeq(s) = f[Len(s)]
    BY <2>1, FlattenIsLastPrefix
  <2>3. \A i \in 1..Len(s) : f[i] \in Seq(S)
    BY <2>2, PartialsType
  <2>4. QED
    BY <2>1, <2>2, <2>3
<1>3. QED
  BY <1>1, <1>2

(* What is appended last is concatenated last. *)
LEMMA FlattenAppend ==
  ASSUME NEW S, NEW s \in Seq(Seq(S)), NEW q \in Seq(S)
  PROVE  FlattenSeq(Append(s, q)) = FlattenSeq(s) \o q
<1> DEFINE t == Append(s, q)
           n == Len(s)
<1>1. /\ t \in Seq(Seq(S)) /\ Len(t) = n + 1 /\ n \in Nat
      /\ \A i \in 1..n : t[i] = s[i]
      /\ t[n + 1] = q
  OBVIOUS
<1> HIDE DEF t
<1>2. PICK g : Partials(g, t, n + 1) /\ FlattenSeq(t) = g[n + 1]
  <2>1. Len(t) # 0 /\ Len(t) \in Nat
    BY <1>1
  <2>2. QED
    BY <1>1, <2>1, FlattenIsLastPrefix
<1>3. g[n + 1] = IF n = 0 THEN t[n + 1] ELSE g[n] \o t[n + 1]
  <2>1. n + 1 \in 1..(n + 1) /\ (n + 1 = 1 <=> n = 0) /\ (n + 1) - 1 = n
    BY <1>1
  <2>2. QED
    BY <1>2, <2>1 DEF Partials
<1>4. CASE n = 0
  <2>1. s = <<>>
    BY <1>4
  <2>2. <<>> \o q = q
    OBVIOUS
  <2>3. QED
    BY <1>1, <1>2, <1>3, <1>4, <2>1, <2>2, FlattenEmpty DEF t
<1>5. CASE n # 0
  <2>1. PICK f : Partials(f, s, n) /\ FlattenSeq(s) = f[n]
    BY <1>1, <1>5, FlattenIsLastPrefix
  <2>2. f[n] = g[n]
    <3>1. n <= n + 1 /\ n \in 1..n /\ n + 1 \in Nat /\ \A i \in 1..n : s[i] = t[i]
      BY <1>1, <1>5
    <3>4. Agree(s, t, n)
      BY <3>1 DEF Agree
    <3>5. Agree(f, g, n)
      BY <1>1, <1>2, <2>1, <3>1, <3>4, PartialsAgree, Zenon
    <3>6. QED
      BY <3>1, <3>5 DEF Agree
  <2>3. QED
    BY <1>1, <1>2, <1>3, <1>5, <2>1, <2>2 DEF t
<1>6. QED
  BY <1>4, <1>5

Associative(S) == \A s, t, u \in Seq(S) : (s \o t) \o u = s \o (t \o u)

(* \o is associative, stated so that a prover need not find S. *)
LEMMA ConcatIsAssociative == ASSUME NEW S PROVE Associative(S)
  BY ConcatAssociative DEF Associative

(* Two sequences of one element. *)
LEMMA Pair ==
  ASSUME NEW S, NEW x \in S, NEW y \in S
  PROVE  <<x>> \o <<y>> = <<x, y>>
<1>1. <<x>> \in Seq(S) /\ Append(<<x>>, y) = <<x>> \o <<y>>
  BY AppendIsConcat
<1>2. /\ <<x, y>> \in Seq(S) /\ Len(<<x, y>>) = 2
      /\ <<x, y>>[1] = x /\ <<x, y>>[2] = y
  OBVIOUS
<1>3. /\ Append(<<x>>, y) \in Seq(S) /\ Len(Append(<<x>>, y)) = 2
      /\ Append(<<x>>, y)[1] = x /\ Append(<<x>>, y)[2] = y
  BY <1>1, AppendProperties
<1>4. \A i \in 1..2 : Append(<<x>>, y)[i] = <<x, y>>[i]
  BY <1>2, <1>3
<1>5. Append(<<x>>, y) = <<x, y>>
  BY <1>2, <1>3, <1>4, SeqEqual
<1>6. QED
  BY <1>1, <1>5

(* What is at the head is concatenated first. *)
LEMMA FlattenHead ==
  ASSUME NEW S, NEW s \in Seq(Seq(S)), s # <<>>
  PROVE  FlattenSeq(s) = Head(s) \o FlattenSeq(Tail(s))
<1> DEFINE Bad(t) == t # <<>> /\ FlattenSeq(t) # Head(t) \o FlattenSeq(Tail(t))
           T == {n \in Nat : \E t \in Seq(Seq(S)) : Len(t) = n /\ Bad(t)}
<1> SUFFICES ASSUME T # {} PROVE FALSE
  <2>1. T = {} => ~Bad(s)
    BY LenProperties
  <2>2. QED
    BY <2>1
<1>1. PICK n \in T : \A k \in T : n <= k
  <2>1. T \in SUBSET Nat
    OBVIOUS
  <2> HIDE DEF T
  <2>2. QED
    BY <2>1, LeastNumber
<1>2. PICK t \in Seq(Seq(S)) : Len(t) = n /\ Bad(t)
  BY <1>1
<1>3. PICK r \in Seq(Seq(S)), q \in Seq(S) : t = Append(r, q)
  BY <1>2, SequenceEmptyOrAppend
<1>4. n \in Nat /\ Len(r) \in Nat /\ n = Len(r) + 1
  BY <1>1, <1>2, <1>3, AppendProperties, LenProperties
<1>5. FlattenSeq(t) = FlattenSeq(r) \o q
  BY <1>3, FlattenAppend
<1>6. CASE r = <<>>
  <2>1. Head(t) = q /\ Tail(t) = <<>>
    BY <1>3, <1>6
  <2>2. <<>> \o q = q /\ q \o <<>> = q
    BY ConcatEmptySeq
  <2>3. QED
    BY <1>2, <1>5, <1>6, <2>1, <2>2, FlattenEmpty
<1>7. CASE r # <<>>
  <2>1. Tail(r) \in Seq(Seq(S)) /\ Head(r) \in Seq(S)
    BY <1>7, HeadTailProperties
  <2>2. Head(t) = Head(r) /\ Tail(t) = Append(Tail(r), q)
    BY <1>3, <1>7, HeadTailAppend
  <2>3. FlattenSeq(r) = Head(r) \o FlattenSeq(Tail(r))
    <3>1. ~(n <= Len(r))
      BY <1>4
    <3>2. ~Bad(r)
      BY <1>1, <1>4, <3>1
    <3>3. QED
      BY <1>7, <3>2
  <2>4. FlattenSeq(Tail(t)) = FlattenSeq(Tail(r)) \o q
    BY <2>1, <2>2, FlattenAppend
  <2>5. FlattenSeq(Tail(r)) \in Seq(S)
    BY <2>1, FlattenType
  <2>6. (Head(r) \o FlattenSeq(Tail(r))) \o q = Head(r) \o (FlattenSeq(Tail(r)) \o q)
    <3>1. Associative(S)
      BY ConcatIsAssociative, Zenon
    <3>2. QED
      BY <2>1, <2>5, <3>1, Zenon DEF Associative
  <2>7. QED
    BY <1>2, <1>5, <2>2, <2>3, <2>4, <2>6
<1>8. QED
  BY <1>6, <1>7

(* The elements of a concatenation. *)
LEMMA ToSetConcat ==
  ASSUME NEW S, NEW s \in Seq(S), NEW t \in Seq(S)
  PROVE  ToSet(s \o t) = ToSet(s) \cup ToSet(t)
<1>1. ToSet(s) = Range(s) /\ ToSet(t) = Range(t) /\ ToSet(s \o t) = Range(s \o t)
  BY DEF ToSet, Range
<1>2. QED
  BY <1>1, RangeConcatenation

(* The elements of a sequence with one more at its end. *)
LEMMA ToSetAppend ==
  ASSUME NEW S, NEW s \in Seq(S), NEW e \in S
  PROVE  ToSet(Append(s, e)) = ToSet(s) \cup {e}
<1>1. /\ DOMAIN Append(s, e) = 1..(Len(s) + 1) /\ DOMAIN s = 1..Len(s) /\ Len(s) \in Nat
      /\ \A i \in 1..Len(s) : Append(s, e)[i] = s[i]
      /\ Append(s, e)[Len(s) + 1] = e
  OBVIOUS
<1>2. QED
  BY <1>1 DEF ToSet

(* The elements of a nonempty sequence are its head and those of its tail. *)
LEMMA ToSetHeadTail ==
  ASSUME NEW S, NEW s \in Seq(S), s # <<>>
  PROVE  ToSet(s) = {Head(s)} \cup ToSet(Tail(s))
<1>1. /\ DOMAIN s = 1..Len(s) /\ Len(s) \in Nat /\ Len(s) >= 1
      /\ DOMAIN Tail(s) = 1..(Len(s) - 1)
      /\ Head(s) = s[1] /\ \A i \in 1..(Len(s) - 1) : Tail(s)[i] = s[i + 1]
  OBVIOUS
<1>2. ASSUME NEW i \in 1..Len(s) PROVE s[i] \in {Head(s)} \cup ToSet(Tail(s))
  <2>1. CASE i = 1
    BY <1>1, <2>1
  <2>2. CASE i # 1
    <3>1. i - 1 \in 1..(Len(s) - 1) /\ (i - 1) + 1 = i
      BY <1>1, <2>2
    <3>2. s[i] = Tail(s)[i - 1]
      BY <1>1, <3>1
    <3>3. Tail(s)[i - 1] \in ToSet(Tail(s))
      BY <1>1, <3>1 DEF ToSet
    <3>4. QED
      BY <3>2, <3>3
  <2>3. QED
    BY <2>1, <2>2
<1>3. ASSUME NEW i \in 1..(Len(s) - 1) PROVE Tail(s)[i] \in ToSet(s)
  <2>1. i + 1 \in 1..Len(s)
    BY <1>1
  <2>2. QED
    BY <1>1, <2>1 DEF ToSet
<1>4. Head(s) \in ToSet(s)
  BY <1>1 DEF ToSet
<1>5. ToSet(s) = {s[i] : i \in 1..Len(s)} /\ ToSet(Tail(s)) = {Tail(s)[i] : i \in 1..(Len(s) - 1)}
  BY <1>1 DEF ToSet
<1>6. QED
  BY <1>2, <1>3, <1>4, <1>5

-----------------------------------------------------------------------------
(* The same for sequences of numbers, with the lengths. *)

LEMMA NumbersAppend ==
  ASSUME NEW s \in Seq(Nat), NEW e \in Nat
  PROVE  /\ Append(s, e) \in Seq(Nat) /\ Append(s, e) # <<>>
         /\ Len(Append(s, e)) = Len(s) + 1
         /\ ToSet(Append(s, e)) = ToSet(s) \cup {e}
<1>1. ToSet(Append(s, e)) = ToSet(s) \cup {e}
  BY ToSetAppend
<1>2. QED
  BY <1>1, AppendProperties

LEMMA NumbersConcat ==
  ASSUME NEW s \in Seq(Nat), NEW t \in Seq(Nat)
  PROVE  /\ s \o t \in Seq(Nat)
         /\ Len(s \o t) = Len(s) + Len(t)
         /\ ToSet(s \o t) = ToSet(s) \cup ToSet(t)
<1>1. ToSet(s \o t) = ToSet(s) \cup ToSet(t)
  BY ToSetConcat
<1>2. QED
  BY <1>1, ConcatProperties

LEMMA NumbersHeadTail ==
  ASSUME NEW s \in Seq(Nat), s # <<>>
  PROVE  /\ Head(s) \in Nat /\ Tail(s) \in Seq(Nat) /\ Len(Tail(s)) = Len(s) - 1
         /\ ToSet(s) = {Head(s)} \cup ToSet(Tail(s))
<1>1. ToSet(s) = {Head(s)} \cup ToSet(Tail(s))
  BY ToSetHeadTail
<1>2. QED
  BY <1>1, HeadTailProperties

-----------------------------------------------------------------------------
(* Induction as a fact about sets: a set that has the empty sequence and,  *)
(* with a sequence, every sequence one longer, has all sequences.          *)
LEMMA SequencesByLength ==
  ASSUME NEW S, NEW P, <<>> \in P,
         \A s \in Seq(S) : s \in P => \A e \in S : Append(s, e) \in P
  PROVE  \A s \in Seq(S) : s \in P
<1> DEFINE T == {n \in Nat : \E s \in Seq(S) : Len(s) = n /\ s \notin P}
<1> SUFFICES ASSUME T # {} PROVE FALSE
  <2>1. T = {} => \A s \in Seq(S) : s \in P
    BY LenProperties
  <2>2. QED
    BY <2>1
<1>1. PICK n \in T : \A k \in T : n <= k
  <2>1. T \in SUBSET Nat
    OBVIOUS
  <2> HIDE DEF T
  <2>2. QED
    BY <2>1, LeastNumber
<1>2. PICK s \in Seq(S) : Len(s) = n /\ s \notin P
  BY <1>1
<1>3. PICK r \in Seq(S), e \in S : s = Append(r, e)
  BY <1>2, SequenceEmptyOrAppend
<1>4. Len(r) \in Nat /\ n = Len(r) + 1
  BY <1>2, <1>3, AppendProperties, LenProperties
<1>5. ~(n <= Len(r))
  BY <1>4
<1>6. r \in P
  BY <1>1, <1>4, <1>5
<1>7. QED
  BY <1>2, <1>3, <1>6

(* The same for numbers. *)
LEMMA NumbersBySuccessor ==
  ASSUME NEW P, 0 \in P, \A n \in Nat : n \in P => n + 1 \in P
  PROVE  \A n \in Nat : n \in P
<1> DEFINE T == {n \in Nat : n \notin P}
<1> SUFFICES ASSUME T # {} PROVE FALSE
  OBVIOUS
<1>1. PICK n \in T : \A k \in T : n <= k
  <2>1. T \in SUBSET Nat
    OBVIOUS
  <2> HIDE DEF T
  <2>2. QED
    BY <2>1, LeastNumber
<1>2. n # 0 /\ n \in Nat
  BY <1>1
<1>3. n - 1 \in Nat /\ ~(n <= n - 1)
  BY <1>2
<1>4. n - 1 \in P
  BY <1>1, <1>3
<1>5. (n - 1) + 1 = n
  BY <1>2
<1>6. QED
  BY <1>1, <1>3, <1>4, <1>5

(* A function on 1..n is a sequence. *)
LEMMA FunctionIsSeq ==
  ASSUME NEW S, NEW n \in Nat, NEW f, f = [k \in 1..n |-> f[k]], \A k \in 1..n : f[k] \in S
  PROVE  f \in Seq(S) /\ Len(f) = n
<1>1. f \in [1..n -> S]
  OBVIOUS
<1>2. f \in Seq(S)
  BY <1>1
<1>3. QED
  BY <1>1, <1>2

(* Appending to a concatenation. *)
LEMMA ConcatThenAppend ==
  ASSUME NEW S, NEW s \in Seq(S), NEW t \in Seq(S), NEW e \in S
  PROVE  s \o Append(t, e) = Append(s \o t, e)
<1>1. /\ Append(t, e) = t \o <<e>>
      /\ s \o t \in Seq(S)
      /\ <<e>> \in Seq(S)
  BY AppendIsConcat, ConcatProperties
<1>2. Append(s \o t, e) = (s \o t) \o <<e>>
  BY <1>1, AppendIsConcat
<1>3. (s \o t) \o <<e>> = s \o (t \o <<e>>)
  BY <1>1, ConcatAssociative
<1>4. QED
  BY <1>1, <1>2, <1>3

(* A sequence that extends another by one. *)
LEMMA OneLonger ==
  ASSUME NEW T, NEW f \in Seq(T), NEW d \in T, NEW g \in Seq(T),
         Len(g) = Len(f) + 1,
         \A k \in 1..Len(f) : g[k] = f[k],
         g[Len(f) + 1] = d
  PROVE  g = Append(f, d)
<1>1. /\ Append(f, d) \in Seq(T) /\ Len(Append(f, d)) = Len(f) + 1
      /\ \A k \in 1..Len(f) : Append(f, d)[k] = f[k]
      /\ Append(f, d)[Len(f) + 1] = d
  BY AppendProperties
<1>2. ASSUME NEW k \in 1..Len(g) PROVE g[k] = Append(f, d)[k]
  <2>1. k \in 1..Len(f) \/ k = Len(f) + 1
    <3>1. Len(f) \in Nat
      OBVIOUS
    <3>2. QED
      BY <3>1
  <2>2. QED
    BY <1>1, <2>1
<1>3. QED
  BY <1>1, <1>2, SeqEqual

(* The concatenation of two sequences of sequences. *)
LEMMA FlattenConcat ==
  ASSUME NEW S, NEW s \in Seq(Seq(S)), NEW t \in Seq(Seq(S))
  PROVE  FlattenSeq(s \o t) = FlattenSeq(s) \o FlattenSeq(t)
<1> DEFINE P == {u \in Seq(Seq(S)) : FlattenSeq(s \o u) = FlattenSeq(s) \o FlattenSeq(u)}
<1>1. <<>> \in P
  <2>1. s \o <<>> = s /\ FlattenSeq(s) \o <<>> = FlattenSeq(s)
    BY FlattenType, ConcatEmptySeq
  <2>2. <<>> \in Seq(Seq(S))
    OBVIOUS
  <2>3. QED
    BY <2>1, <2>2, FlattenEmpty
<1>2. ASSUME NEW u \in Seq(Seq(S)), u \in P, NEW q \in Seq(S)
      PROVE  Append(u, q) \in P
  <2>1. s \o u \in Seq(Seq(S)) /\ Append(u, q) \in Seq(Seq(S))
    BY ConcatProperties, AppendProperties
  <2>2. s \o Append(u, q) = Append(s \o u, q)
    BY ConcatThenAppend
  <2>3. FlattenSeq(Append(s \o u, q)) = FlattenSeq(s \o u) \o q
    BY <2>1, FlattenAppend
  <2>4. FlattenSeq(Append(u, q)) = FlattenSeq(u) \o q
    BY FlattenAppend
  <2>5. FlattenSeq(s) \in Seq(S) /\ FlattenSeq(u) \in Seq(S)
    BY FlattenType
  <2>6. (FlattenSeq(s) \o FlattenSeq(u)) \o q = FlattenSeq(s) \o (FlattenSeq(u) \o q)
    <3>1. Associative(S)
      BY ConcatIsAssociative, Zenon
    <3>2. QED
      BY <2>5, <3>1, Zenon DEF Associative
  <2>7. FlattenSeq(s \o u) = FlattenSeq(s) \o FlattenSeq(u)
    BY <1>2
  <2>8. FlattenSeq(s \o Append(u, q)) = FlattenSeq(s) \o FlattenSeq(Append(u, q))
    BY <2>2, <2>3, <2>4, <2>6, <2>7
  <2>9. QED
    BY <2>1, <2>8
<1> HIDE DEF P
<1>3. \A u \in Seq(Seq(S)) : u \in P
  BY <1>1, <1>2, SequencesByLength
<1> USE DEF P
<1>4. QED
  BY <1>3

(* One sequence flattens to itself. *)
LEMMA FlattenOne == ASSUME NEW S, NEW q \in Seq(S) PROVE FlattenSeq(<<q>>) = q
<1>1. Append(<<>>, q) = <<q>> /\ <<>> \in Seq(Seq(S)) /\ <<>> \o q = q
  OBVIOUS
<1>2. FlattenSeq(Append(<<>>, q)) = FlattenSeq(<<>>) \o q
  BY <1>1, FlattenAppend
<1>3. QED
  BY <1>1, <1>2, FlattenEmpty

(* Flattening twice, from within or from without. *)
LEMMA FlattenTwice ==
  ASSUME NEW S, NEW s \in Seq(Seq(Seq(S)))
  PROVE  FlattenSeq(FlattenSeq(s)) = FlattenSeq([k \in DOMAIN s |-> FlattenSeq(s[k])])
<1> DEFINE Inner(u) == [k \in DOMAIN u |-> FlattenSeq(u[k])]
           P == {u \in Seq(Seq(Seq(S))) : FlattenSeq(FlattenSeq(u)) = FlattenSeq(Inner(u))}
<1>1. ASSUME NEW u \in Seq(Seq(Seq(S)))
      PROVE  Inner(u) \in Seq(Seq(S)) /\ Len(Inner(u)) = Len(u)
  <2>1. DOMAIN u = 1..Len(u) /\ Len(u) \in Nat
    OBVIOUS
  <2>2. \A k \in 1..Len(u) : FlattenSeq(u[k]) \in Seq(S)
    <3> TAKE k \in 1..Len(u)
    <3>1. u[k] \in Seq(Seq(S))
      BY ElementOfSeq
    <3>2. QED
      BY <3>1, FlattenType
  <2>3. /\ Inner(u) = [k \in 1..Len(u) |-> Inner(u)[k]]
        /\ \A k \in 1..Len(u) : Inner(u)[k] \in Seq(S)
    BY <2>1, <2>2
  <2> HIDE DEF Inner
  <2>4. QED
    BY <2>1, <2>3, FunctionIsSeq
<1>2. <<>> \in P
  <2>1. Inner(<<>>) = <<>> /\ <<>> \in Seq(Seq(Seq(S)))
    OBVIOUS
  <2> HIDE DEF Inner
  <2>2. FlattenSeq(FlattenSeq(<<>>)) = FlattenSeq(Inner(<<>>))
    BY <2>1, FlattenEmpty
  <2>3. QED
    BY <2>1, <2>2
<1>3. ASSUME NEW u \in Seq(Seq(Seq(S))), u \in P, NEW q \in Seq(Seq(S))
      PROVE  Append(u, q) \in P
  <2>1. FlattenSeq(Append(u, q)) = FlattenSeq(u) \o q
    BY FlattenAppend
  <2>2. FlattenSeq(u) \in Seq(Seq(S)) /\ FlattenSeq(q) \in Seq(S)
    BY FlattenType
  <2>3. FlattenSeq(FlattenSeq(u) \o q) = FlattenSeq(FlattenSeq(u)) \o FlattenSeq(q)
    BY <2>2, FlattenConcat
  <2>4. Append(u, q) \in Seq(Seq(Seq(S)))
    BY AppendProperties
  <2>5. Inner(Append(u, q)) = Append(Inner(u), FlattenSeq(q))
    <3> DEFINE f == Inner(u)
               g == Inner(Append(u, q))
    <3>1. /\ DOMAIN Append(u, q) = 1..(Len(u) + 1) /\ DOMAIN u = 1..Len(u) /\ Len(u) \in Nat
          /\ \A k \in 1..Len(u) : Append(u, q)[k] = u[k]
          /\ Append(u, q)[Len(u) + 1] = q
          /\ Len(Append(u, q)) = Len(u) + 1
      OBVIOUS
    <3>2. /\ \A k \in 1..Len(u) : g[k] = f[k]
          /\ g[Len(u) + 1] = FlattenSeq(q)
      BY <3>1
    <3> HIDE DEF Inner
    <3>3. f \in Seq(Seq(S)) /\ Len(f) = Len(u)
      BY <1>1
    <3>4. g \in Seq(Seq(S)) /\ Len(g) = Len(u) + 1
      BY <1>1, <2>4, <3>1
    <3> HIDE DEF f, g, P
    <3>5. Len(g) = Len(f) + 1 /\ (\A k \in 1..Len(f) : g[k] = f[k])
          /\ g[Len(f) + 1] = FlattenSeq(q)
      BY <3>2, <3>3, <3>4
    <3>6. g = Append(f, FlattenSeq(q))
      BY <2>2, <3>3, <3>4, <3>5, OneLonger
    <3>7. QED
      BY <3>6 DEF f, g
  <2> HIDE DEF Inner
  <2>6. FlattenSeq(Append(Inner(u), FlattenSeq(q))) = FlattenSeq(Inner(u)) \o FlattenSeq(q)
    <3>1. Inner(u) \in Seq(Seq(S))
      BY <1>1
    <3>2. QED
      BY <2>2, <3>1, FlattenAppend
  <2>7. FlattenSeq(FlattenSeq(Append(u, q))) = FlattenSeq(Inner(Append(u, q)))
    BY <1>3, <2>1, <2>3, <2>5, <2>6
  <2>8. QED
    BY <2>4, <2>7
<1> HIDE DEF P
<1>4. \A u \in Seq(Seq(Seq(S))) : u \in P
  BY <1>2, <1>3, SequencesByLength
<1> USE DEF P
<1>5. QED
  BY <1>4

(* Two sequences, element by element. *)
LEMMA ConcatElements ==
  ASSUME NEW S, NEW s \in Seq(S), NEW t \in Seq(S)
  PROVE  /\ Len(s) \in Nat /\ Len(t) \in Nat
         /\ s \o t \in Seq(S) /\ Len(s \o t) = Len(s) + Len(t)
         /\ \A i \in 1..Len(s) : (s \o t)[i] = s[i]
         /\ \A i \in 1..Len(s \o t) : i > Len(s) => (s \o t)[i] = t[i - Len(s)]
BY ConcatProperties, LenProperties

-----------------------------------------------------------------------------
(* What a function picks from each element, one after the other. *)

(* A function that gives a sequence for each element. *)
Picker(f, S, T) == \A e \in S : f[e] \in Seq(T)

Picks(s, f) == [i \in DOMAIN s |-> f[s[i]]]

Picked(s, f) == FlattenSeq(Picks(s, f))

LEMMA PickedType ==
  ASSUME NEW S, NEW T, NEW f, Picker(f, S, T), NEW s \in Seq(S)
  PROVE  /\ Picks(s, f) \in Seq(Seq(T)) /\ Len(Picks(s, f)) = Len(s)
         /\ Picked(s, f) \in Seq(T)
<1> DEFINE g == Picks(s, f)
<1>1. DOMAIN s = 1..Len(s) /\ Len(s) \in Nat /\ \A i \in 1..Len(s) : s[i] \in S
  OBVIOUS
<1>2. g = [i \in 1..Len(s) |-> g[i]] /\ \A i \in 1..Len(s) : g[i] \in Seq(T)
  BY <1>1 DEF Picks, Picker
<1> HIDE DEF g
<1>3. g \in Seq(Seq(T)) /\ Len(g) = Len(s)
  BY <1>1, <1>2, FunctionIsSeq
<1>4. FlattenSeq(g) \in Seq(T)
  BY <1>3, FlattenType
<1>5. QED
  BY <1>3, <1>4 DEF g, Picked

LEMMA PickedEmpty == ASSUME NEW f PROVE Picked(<<>>, f) = <<>>
<1>1. Picks(<<>>, f) = <<>>
  BY DEF Picks
<1>2. QED
  BY <1>1, FlattenEmpty DEF Picked

LEMMA PickedAppend ==
  ASSUME NEW S, NEW T, NEW f, Picker(f, S, T), NEW s \in Seq(S), NEW e \in S
  PROVE  Picked(Append(s, e), f) = Picked(s, f) \o f[e]
<1> DEFINE g == Picks(s, f)
           h == Picks(Append(s, e), f)
           Q == Seq(T)
           d == f[e]
<1>1. g \in Seq(Q) /\ Len(g) = Len(s)
  BY PickedType
<1>2. Append(s, e) \in Seq(S) /\ Len(Append(s, e)) = Len(s) + 1
  BY AppendProperties
<1>3. h \in Seq(Q) /\ Len(h) = Len(s) + 1
  <2> DEFINE u == Append(s, e)
  <2> HIDE DEF u
  <2>1. u \in Seq(S)
    BY <1>2 DEF u
  <2>2. Picks(u, f) \in Seq(Q) /\ Len(Picks(u, f)) = Len(u)
    BY <2>1, PickedType
  <2>3. QED
    BY <1>2, <2>2 DEF u
<1>4. d \in Q
  BY DEF Picker
<1>5. (\A k \in 1..Len(s) : h[k] = g[k]) /\ h[Len(s) + 1] = d
  <2>1. /\ DOMAIN Append(s, e) = 1..(Len(s) + 1) /\ DOMAIN s = 1..Len(s) /\ Len(s) \in Nat
        /\ \A k \in 1..Len(s) : Append(s, e)[k] = s[k]
        /\ Append(s, e)[Len(s) + 1] = e
    OBVIOUS
  <2>2. QED
    BY <2>1 DEF Picks
<1> HIDE DEF g, h, d
<1>6. h = Append(g, d)
  BY <1>1, <1>3, <1>4, <1>5, OneLonger
<1>7. FlattenSeq(h) = FlattenSeq(g) \o d
  BY <1>1, <1>4, <1>6, FlattenAppend
<1>8. QED
  BY <1>7 DEF g, h, d, Picked

(* Of one sequence after another, and of a single element. *)
LEMMA PickedConcat ==
  ASSUME NEW S, NEW T, NEW f, Picker(f, S, T), NEW s \in Seq(S), NEW t \in Seq(S)
  PROVE  Picked(s \o t, f) = Picked(s, f) \o Picked(t, f)
<1> DEFINE P == {u \in Seq(S) : Picked(s \o u, f) = Picked(s, f) \o Picked(u, f)}
<1>1. <<>> \in P
  <2>1. Picked(s, f) \o <<>> = Picked(s, f)
    BY PickedType, ConcatEmptySeq
  <2>2. s \o <<>> = s /\ <<>> \in Seq(S)
    OBVIOUS
  <2>3. QED
    BY <2>1, <2>2, PickedEmpty
<1>2. ASSUME NEW u \in Seq(S), u \in P, NEW e \in S PROVE Append(u, e) \in P
  <2>1. s \o u \in Seq(S) /\ Append(u, e) \in Seq(S) /\ s \o Append(u, e) = Append(s \o u, e)
    BY ConcatProperties, AppendProperties, ConcatThenAppend
  <2>2. Picked(Append(s \o u, e), f) = Picked(s \o u, f) \o f[e]
    <3> DEFINE x == s \o u
    <3>1. x \in Seq(S)
      BY <2>1
    <3> HIDE DEF x
    <3>2. Picked(Append(x, e), f) = Picked(x, f) \o f[e]
      BY <3>1, PickedAppend
    <3>3. QED
      BY <3>2 DEF x
  <2>3. Picked(Append(u, e), f) = Picked(u, f) \o f[e]
    BY PickedAppend
  <2>4. Picked(s \o u, f) = Picked(s, f) \o Picked(u, f)
    BY <1>2
  <2>5. (Picked(s, f) \o Picked(u, f)) \o f[e] = Picked(s, f) \o (Picked(u, f) \o f[e])
    <3> DEFINE a == Picked(s, f)
               b == Picked(u, f)
               d == f[e]
    <3>1. a \in Seq(T) /\ b \in Seq(T)
      BY PickedType
    <3>2. d \in Seq(T)
      BY DEF Picker
    <3> HIDE DEF a, b, d
    <3>3. Associative(T)
      BY ConcatIsAssociative
    <3>4. (a \o b) \o d = a \o (b \o d)
      BY <3>1, <3>2, <3>3, Zenon DEF Associative
    <3>5. QED
      BY <3>4 DEF a, b, d
  <2>6. QED
    BY <2>1, <2>2, <2>3, <2>4, <2>5
<1> HIDE DEF P
<1>3. \A u \in Seq(S) : u \in P
  BY <1>1, <1>2, SequencesByLength
<1> USE DEF P
<1>4. QED
  BY <1>3

LEMMA PickedOne ==
  ASSUME NEW S, NEW T, NEW f, Picker(f, S, T), NEW e \in S
  PROVE  Picked(<<e>>, f) = f[e]
<1>1. <<>> \in Seq(S) /\ Append(<<>>, e) = <<e>>
  OBVIOUS
<1>2. Picked(Append(<<>>, e), f) = Picked(<<>>, f) \o f[e]
  BY <1>1, PickedAppend
<1>3. f[e] \in Seq(T)
  BY DEF Picker
<1>4. <<>> \o f[e] = f[e]
  BY <1>3, ConcatEmptySeq
<1>5. QED
  BY <1>1, <1>2, <1>4, PickedEmpty

(* The elements of an inner sequence are in the flattened one. *)
LEMMA FlattenHolds ==
  ASSUME NEW S
  PROVE  \A s \in Seq(Seq(S)) : \A k \in 1..Len(s) : ToSet(s[k]) \subseteq ToSet(FlattenSeq(s))
<1> DEFINE P == {s \in Seq(Seq(S)) : \A k \in 1..Len(s) : ToSet(s[k]) \subseteq ToSet(FlattenSeq(s))}
           Q == Seq(S)
<1>1. <<>> \in P
  OBVIOUS
<1>2. ASSUME NEW s \in Seq(Q), s \in P, NEW q \in Q PROVE Append(s, q) \in P
  <2>1. FlattenSeq(s) \in Seq(S) /\ FlattenSeq(Append(s, q)) = FlattenSeq(s) \o q
    BY FlattenType, FlattenAppend
  <2>2. ToSet(FlattenSeq(s) \o q) = ToSet(FlattenSeq(s)) \cup ToSet(q)
    BY <2>1, ToSetConcat
  <2> DEFINE t == Append(s, q)
  <2>3. /\ t \in Seq(Q) /\ Len(t) = Len(s) + 1 /\ Len(s) \in Nat /\ t[Len(s) + 1] = q
        /\ \A k \in 1..Len(s) : t[k] = s[k]
    OBVIOUS
  <2>4. \A k \in 1..Len(s) : ToSet(s[k]) \subseteq ToSet(FlattenSeq(s))
    BY <1>2
  <2> HIDE DEF t, P
  <2>5. ASSUME NEW k \in 1..Len(t) PROVE ToSet(t[k]) \subseteq ToSet(FlattenSeq(t))
    <3>1. CASE k \in 1..Len(s)
      BY <2>1, <2>2, <2>3, <2>4, <3>1 DEF t
    <3>2. CASE k = Len(s) + 1
      BY <2>1, <2>2, <2>3, <3>2 DEF t
    <3>3. QED
      BY <2>3, <3>1, <3>2
  <2>6. QED
    BY <2>3, <2>5 DEF P, t
<1> HIDE DEF P
<1>3. \A s \in Seq(Q) : s \in P
  <2> HIDE DEF Q
  <2>1. QED
    BY <1>1, <1>2, SequencesByLength
<1> USE DEF P
<1>4. QED
  BY <1>3

=============================================================================
