----------------------- MODULE CascadedPipelineProofs -----------------------
(***************************************************************************)
(* What holds of every behaviour of CascadedPipeline, for replies of any   *)
(* length: the sentinel comes, no text is lost between the LLM and the     *)
(* TTS, and run_turn keeps the promise of SpokenReply.                     *)
(***************************************************************************)
EXTENDS CascadedPipeline, SequenceTheorems, TLAPS

(* Clauses and the sentinel alike are pairs of positions. *)
Clause == Nat \X Nat

-----------------------------------------------------------------------------
(* Clauses that cut a text. *)

LEMMA EmptyByLength ==
  ASSUME NEW s \in Seq(Clause)
  PROVE  s = <<>> <=> Len(s) = 0
<1>1. Len(<<>>) = 0
  BY EmptySeq
<1>2. s # <<>> => Len(s) \in Nat \ {0}
  BY EmptySeq
<1>3. QED
  BY <1>1, <1>2

LEMMA TilesAppend ==
  ASSUME NEW s \in Seq(Clause), NEW a \in Nat, NEW b \in Nat, NEW c \in Nat,
         Tiles(s, a, b), b < c
  PROVE  Tiles(Append(s, <<b, c>>), a, c)
<1> DEFINE t == Append(s, <<b, c>>)
<1>1. Len(s) \in Nat /\ Len(t) = Len(s) + 1 /\ t \in Seq(Clause)
  BY DEF Clause
<1>2. \A i \in DOMAIN s : t[i] = s[i] /\ i \in 1..Len(s)
  OBVIOUS
<1>3. t[Len(s) + 1] = <<b, c>>
  OBVIOUS
<1>4. \A i \in DOMAIN t : i \in DOMAIN s \/ i = Len(s) + 1
  BY <1>1
<1>5. \A i \in DOMAIN t : t[i][1] < t[i][2]
  BY <1>2, <1>3, <1>4 DEF Tiles
<1>6. ASSUME NEW i \in DOMAIN t
      PROVE  t[i][1] = IF i = 1 THEN a ELSE t[i - 1][2]
  <2>1. CASE i \in DOMAIN s
    <3>1. CASE i = 1
      BY <2>1, <3>1, <1>2 DEF Tiles
    <3>2. CASE i # 1
      <4>1. i - 1 \in DOMAIN s
        BY <2>1, <3>2
      <4>2. QED
        BY <2>1, <3>2, <4>1, <1>2 DEF Tiles
    <3>3. QED
      BY <3>1, <3>2
  <2>2. CASE i = Len(s) + 1
    <3>1. CASE s = <<>>
      BY <2>2, <3>1, <1>3 DEF Tiles
    <3>2. CASE s # <<>>
      <4>1. Len(s) \in DOMAIN s /\ i # 1 /\ i - 1 = Len(s)
        BY <2>2, <3>2, <1>1
      <4>2. QED
        BY <2>2, <3>2, <4>1, <1>2, <1>3 DEF Tiles
    <3>3. QED
      BY <3>1, <3>2
  <2>3. QED
    BY <2>1, <2>2, <1>4
<1>7. c = IF t = <<>> THEN a ELSE t[Len(t)][2]
  BY <1>1, <1>3
<1>8. QED
  BY <1>5, <1>6, <1>7 DEF Tiles

LEMMA TilesTail ==
  ASSUME NEW s \in Seq(Clause), NEW a \in Nat, NEW b \in Nat,
         Tiles(s, a, b), s # <<>>
  PROVE  /\ Head(s) \in Clause
         /\ Head(s)[1] = a /\ Head(s)[1] < Head(s)[2]
         /\ Tail(s) \in Seq(Clause)
         /\ Tiles(Tail(s), Head(s)[2], b)
<1> DEFINE t == Tail(s)
<1>1. Len(s) \in Nat \ {0} /\ Len(t) = Len(s) - 1 /\ t \in Seq(Clause) /\ 1 \in DOMAIN s
  OBVIOUS
<1>2. Head(s) = s[1] /\ Head(s) \in Clause
  BY <1>1
<1>3. s[1][1] = a /\ s[1][1] < s[1][2]
  BY <1>1 DEF Tiles
<1>4. \A i \in DOMAIN t : i \in Nat \ {0} /\ i + 1 \in DOMAIN s /\ t[i] = s[i + 1]
  BY <1>1
<1>5. \A i \in DOMAIN t : t[i][1] < t[i][2]
  BY <1>4 DEF Tiles
<1>6. ASSUME NEW i \in DOMAIN t
      PROVE  t[i][1] = IF i = 1 THEN s[1][2] ELSE t[i - 1][2]
  <2>1. t[i][1] = s[i][2]
    BY <1>4 DEF Tiles
  <2>2. i # 1 => i - 1 \in DOMAIN t
    BY <1>1, <1>4
  <2>3. i # 1 => t[i - 1] = s[i]
    BY <2>2, <1>4
  <2>4. QED
    BY <2>1, <2>3
<1>7. b = IF t = <<>> THEN s[1][2] ELSE t[Len(t)][2]
  <2>1. b = s[Len(s)][2]
    BY DEF Tiles
  <2>2. CASE t = <<>>
    <3>1. Len(t) = 0
      BY <2>2, <1>1, EmptyByLength, Zenon
    <3>2. Len(s) = 1
      BY <3>1, <1>1
    <3>3. QED
      BY <2>1, <2>2, <3>2
  <2>3. CASE t # <<>>
    <3>1. Len(t) \in DOMAIN t /\ t[Len(t)] = s[Len(s)]
      BY <2>3, <1>1, <1>4
    <3>2. QED
      BY <3>1, <2>1, <2>3
  <2>4. QED
    BY <2>2, <2>3
<1>8. QED
  BY <1>1, <1>2, <1>3, <1>5, <1>6, <1>7 DEF Tiles

(* A clause is not the sentinel. *)
LEMMA TilesAreClauses ==
  ASSUME NEW s \in Seq(Clause), NEW a, NEW b, Tiles(s, a, b)
  PROVE  \A i \in DOMAIN s : s[i] # None
  BY DEF Tiles, None

-----------------------------------------------------------------------------
(* A queue with or without its sentinel. *)

SentinelLast(q) == \A i \in DOMAIN q : q[i] = None => i = Len(q)
NoSentinel(q)   == \A i \in DOMAIN q : q[i] # None

LEMMA QueuedWhole ==
  ASSUME NEW q \in Seq(Clause), NoSentinel(q)
  PROVE  WithoutSentinel(q) = q
<1>1. q # <<>> => Len(q) \in DOMAIN q
  OBVIOUS
<1>2. QED
  BY <1>1 DEF WithoutSentinel, NoSentinel

LEMMA QueuedSentinel ==
  ASSUME NEW q \in Seq(Clause)
  PROVE  WithoutSentinel(Append(q, None)) = q
<1> DEFINE r == Append(q, None)
<1>1. r # <<>> /\ Len(r) = Len(q) + 1 /\ r[Len(q) + 1] = None
  OBVIOUS
<1>2. None \in Clause
  BY DEF None, Clause
<1>3. SubSeq(r, 1, Len(r) - 1) = q
  BY <1>1, <1>2
<1>4. QED
  BY <1>1, <1>3 DEF WithoutSentinel

LEMMA QueuedTail ==
  ASSUME NEW q \in Seq(Clause), SentinelLast(q), q # <<>>, Head(q) # None
  PROVE  /\ WithoutSentinel(q) \in Seq(Clause)
         /\ WithoutSentinel(q) # <<>>
         /\ Head(WithoutSentinel(q)) = Head(q)
         /\ WithoutSentinel(Tail(q)) = Tail(WithoutSentinel(q))
         /\ Tail(q) \in Seq(Clause)
<1> DEFINE n == Len(q)
<1>1. n \in Nat \ {0} /\ n \in DOMAIN q /\ Head(q) = q[1]
  OBVIOUS
<1>2. Tail(q) \in Seq(Clause) /\ Len(Tail(q)) = n - 1
  BY <1>1
<1>3. \A i \in 1..(n - 1) : Tail(q)[i] = q[i + 1]
  BY <1>1, <1>2
<1>4. CASE q[n] = None
  <2>1. n > 1
    BY <1>1, <1>4
  <2>2. WithoutSentinel(q) = SubSeq(q, 1, n - 1)
    BY <1>4 DEF WithoutSentinel
  <2>3. /\ SubSeq(q, 1, n - 1) \in Seq(Clause)
        /\ Len(SubSeq(q, 1, n - 1)) = n - 1
        /\ SubSeq(q, 1, n - 1) # <<>>
    <3>1. SubSeq(q, 1, n - 1) \in Seq(Clause) /\ Len(SubSeq(q, 1, n - 1)) = n - 1
      BY <1>1, <2>1
    <3>2. Len(SubSeq(q, 1, n - 1)) # 0
      BY <3>1, <2>1, <1>1
    <3>3. QED
      BY <3>1, <3>2, EmptyByLength, Zenon
  <2>4. Tail(q) # <<>> /\ Tail(q)[n - 1] = None
    <3>1. Len(Tail(q)) # 0
      BY <2>1, <1>1, <1>2
    <3>2. Tail(q) # <<>>
      BY <3>1, <1>2, EmptyByLength, Zenon
    <3>3. n - 1 \in 1..(n - 1) /\ (n - 1) + 1 = n
      BY <2>1, <1>1
    <3>4. QED
      BY <3>2, <3>3, <1>3, <1>4
  <2>5. WithoutSentinel(Tail(q)) = SubSeq(Tail(q), 1, n - 2)
    BY <2>4, <1>2 DEF WithoutSentinel
  <2>6. SubSeq(Tail(q), 1, n - 2) = Tail(SubSeq(q, 1, n - 1))
    <3>1. SubSeq(Tail(q), 1, n - 2) \in Seq(Clause)
      BY <2>1, <1>2
    <3>2. Tail(SubSeq(q, 1, n - 1)) \in Seq(Clause) /\ Len(Tail(SubSeq(q, 1, n - 1))) = n - 2
      BY <2>1, <2>3, <1>1, HeadTailProperties
    <3>3. Len(SubSeq(Tail(q), 1, n - 2)) = n - 2
      BY <2>1, <1>1, <1>2
    <3>4. \A i \in 1..(n - 2) : SubSeq(Tail(q), 1, n - 2)[i] = Tail(SubSeq(q, 1, n - 1))[i]
      BY <2>1, <2>3, <1>2, <1>3
    <3>5. QED
      BY <3>1, <3>2, <3>3, <3>4, SeqEqual
  <2>7. Head(SubSeq(q, 1, n - 1)) = q[1]
    BY <2>1, <2>3
  <2>8. QED
    BY <2>1, <2>2, <2>3, <2>5, <2>6, <2>7, <1>1, <1>2
<1>5. CASE q[n] # None
  <2>1. WithoutSentinel(q) = q
    BY <1>5 DEF WithoutSentinel
  <2>2. WithoutSentinel(Tail(q)) = Tail(q)
    <3>1. CASE n = 1
      <4>1. Len(Tail(q)) = 0
        BY <3>1, <1>2
      <4>2. Tail(q) = <<>>
        BY <4>1, <1>2, EmptyByLength, Zenon
      <4>3. QED
        BY <4>2 DEF WithoutSentinel
    <3>2. CASE n > 1
      <4>1. Tail(q)[Len(Tail(q))] = q[n]
        BY <3>2, <1>1, <1>2, <1>3
      <4>2. Tail(q)[Len(Tail(q))] # None
        BY <4>1, <1>5, Zenon
      <4>3. QED
        BY <4>2, Zenon DEF WithoutSentinel
    <3>3. n = 1 \/ n > 1
      BY <1>1
    <3>4. QED
      BY <3>1, <3>2, <3>3, Zenon
  <2>3. QED
    BY <2>1, <2>2, <1>2
<1>6. QED
  BY <1>4, <1>5

-----------------------------------------------------------------------------
(* The inductive invariant. *)

(* A feed that has not started has read nothing, and only a consumer that  *)
(* is over cancels the feed. *)
FeedInv ==
  /\ feed = "created" => emitted = 0 /\ released = 0
  /\ feedCancel => ConsumerDone

(* The sentinel is last in the queue, is there only once the feed is done, *)
(* and is there for every consumer that is not over. *)
SentinelInv ==
  /\ ~FeedDone => NoSentinel(queue)
  /\ SentinelLast(queue)
  /\ FeedDone /\ ~ConsumerDone => queue # <<>> /\ queue[Len(queue)] = None

(* What the TTS works on is the last clause it was handed. *)
HandInv ==
  /\ consumer = "waiting" => inHand = None
  /\ consumer = "synthesizing" =>
       inHand # None /\ handed # <<>> /\ inHand = handed[Len(handed)]

(* No clause ends after the released text. *)
EndInv ==
  /\ HandedEnd <= released
  /\ \A i \in DOMAIN queue : queue[i][2] <= released

IInv == TypeOK /\ FeedInv /\ SentinelInv /\ HandInv /\ EndInv /\ TextConserved

-----------------------------------------------------------------------------
(* Types. *)

LEMMA MarkType ==
  ASSUME NEW ms \in Seq(MarkNames), NEW m \in MarkNames
  PROVE  Mark(ms, m) \in Seq(MarkNames)
  BY DEF Mark

LEMMA NoneType == None \in Clause
  BY DEF None, Clause

LEMMA TwoAppends ==
  ASSUME NEW s \in Seq(Clause), NEW e \in Clause, NEW f \in Clause
  PROVE  /\ s \o <<e, f>> = Append(Append(s, e), f)
         /\ s \o <<e, f>> \in Seq(Clause)
<1> DEFINE l == s \o <<e, f>>
           r == Append(Append(s, e), f)
<1>1. l \in Seq(Clause) /\ r \in Seq(Clause) /\ Len(l) = Len(r)
  OBVIOUS
<1>2. \A i \in 1..Len(l) : l[i] = r[i]
  OBVIOUS
<1>3. QED
  BY <1>1, <1>2, SeqEqual

(* A cut of the text from x to a, and one from a to c, cut it from x to c. *)
LEMMA TilesConcat ==
  ASSUME NEW s \in Seq(Clause), NEW t \in Seq(Clause), NEW x \in Nat, NEW a \in Nat,
         NEW c \in Nat, Tiles(s, x, a), Tiles(t, a, c)
  PROVE  Tiles(s \o t, x, c)
<1> DEFINE r == s \o t
           m == Len(s)
<1>1. /\ m \in Nat /\ Len(t) \in Nat /\ r \in Seq(Clause) /\ Len(r) = m + Len(t)
      /\ DOMAIN s = 1..m /\ DOMAIN t = 1..Len(t) /\ DOMAIN r = 1..(m + Len(t))
  OBVIOUS
<1>2. \A i \in 1..m : r[i] = s[i]
  BY <1>1
<1>3. \A i \in 1..Len(t) : r[m + i] = t[i]
  BY <1>1
<1>4. \A i \in DOMAIN r : i \in 1..m \/ (i - m \in 1..Len(t) /\ r[i] = t[i - m])
  <2>1. ASSUME NEW i \in DOMAIN r, i \notin 1..m
        PROVE  i - m \in 1..Len(t) /\ r[i] = t[i - m]
    <3>1. i - m \in 1..Len(t) /\ m + (i - m) = i
      BY <1>1, <2>1
    <3>2. QED
      BY <3>1, <1>3
  <2>2. QED
    BY <2>1
<1>5. a = IF s = <<>> THEN x ELSE s[m][2]
  BY DEF Tiles
<1>6. (s = <<>> <=> m = 0) /\ (t = <<>> <=> Len(t) = 0) /\ (r = <<>> <=> Len(r) = 0)
  BY <1>1, EmptyByLength
<1> HIDE DEF r, m
<1>7. \A i \in DOMAIN r : r[i][1] < r[i][2]
  BY <1>1, <1>2, <1>4 DEF Tiles
<1>8. ASSUME NEW i \in DOMAIN r
      PROVE  r[i][1] = IF i = 1 THEN x ELSE r[i - 1][2]
  <2>1. CASE i \in 1..m
    <3>1. i # 1 => i - 1 \in 1..m
      BY <1>1, <2>1
    <3>2. s[i][1] = IF i = 1 THEN x ELSE s[i - 1][2]
      BY <1>1, <2>1 DEF Tiles
    <3>3. QED
      BY <2>1, <3>1, <3>2, <1>2
  <2>2. CASE i - m \in 1..Len(t) /\ r[i] = t[i - m]
    <3>1. t[i - m][1] = IF i - m = 1 THEN a ELSE t[(i - m) - 1][2]
      BY <1>1, <2>2 DEF Tiles
    <3>2. CASE i - m # 1
      <4>1. /\ (i - m) - 1 \in 1..Len(t) /\ m + ((i - m) - 1) = i - 1 /\ i # 1
        BY <1>1, <2>2, <3>2
      <4>2. r[i - 1] = t[(i - m) - 1]
        BY <4>1, <1>3
      <4>3. QED
        BY <2>2, <3>1, <3>2, <4>1, <4>2
    <3>3. CASE i - m = 1 /\ m = 0
      <4>1. a = x /\ i = 1
        BY <1>1, <1>5, <1>6, <3>3
      <4>2. QED
        BY <2>2, <3>1, <3>3, <4>1
    <3>4. CASE i - m = 1 /\ m # 0
      <4>1. i - 1 = m /\ i # 1 /\ m \in 1..m
        BY <1>1, <3>4
      <4>2. r[i - 1][2] = a
        BY <4>1, <1>2, <1>5, <1>6, <3>4
      <4>3. QED
        BY <2>2, <3>1, <3>4, <4>1, <4>2
    <3>5. QED
      BY <3>2, <3>3, <3>4
  <2>3. QED
    BY <1>4, <2>1, <2>2
<1>9. c = IF r = <<>> THEN x ELSE r[Len(r)][2]
  <2>1. c = IF t = <<>> THEN a ELSE t[Len(t)][2]
    BY DEF Tiles
  <2>2. CASE t = <<>>
    <3>1. Len(r) = m
      BY <2>2, <1>1, <1>6
    <3>2. m # 0 => r[m] = s[m]
      BY <1>1, <1>2
    <3>3. QED
      BY <2>1, <2>2, <3>1, <3>2, <1>5, <1>6
  <2>3. CASE t # <<>>
    <3>1. Len(t) \in 1..Len(t) /\ Len(r) # 0
      BY <2>3, <1>1, <1>6
    <3>2. r[Len(r)] = t[Len(t)]
      BY <3>1, <1>1, <1>3
    <3>3. QED
      BY <2>1, <2>3, <3>1, <3>2, <1>6
  <2>4. QED
    BY <2>2, <2>3
<1>10. Tiles(r, x, c)
  BY <1>7, <1>8, <1>9 DEF Tiles
<1>11. QED
  BY <1>10 DEF r

(* What the chunker releases are clauses with text, and they cut the text  *)
(* from a to c. *)
LEMMA CutsType ==
  ASSUME NEW a \in Nat, NEW c \in Nat, NEW clauses \in Cuts(a, c)
  PROVE  /\ clauses \in Seq(Clause) /\ Tiles(clauses, a, c)
         /\ \A i \in DOMAIN clauses : clauses[i][1] < clauses[i][2] /\ clauses[i][2] <= c
<1> DEFINE Pieces == {p \in (a..c) \X (a..c) : p[1] < p[2]}
<1>1. PICK k \in 0..(c - a) : clauses \in [1..k -> Pieces]
  BY DEF Cuts
<1>2. \A p \in Pieces : p \in Clause /\ p[1] < p[2] /\ p[2] <= c
  BY DEF Clause
<1> HIDE DEF Pieces
<1>3. k \in Nat
  OBVIOUS
<1>4. clauses \in [1..k -> Clause]
  BY <1>1, <1>2
<1>5. clauses \in Seq(Clause)
  BY <1>3, <1>4, SeqDef
<1>6. \A i \in DOMAIN clauses : clauses[i][1] < clauses[i][2] /\ clauses[i][2] <= c
  BY <1>1, <1>2
<1>7. QED
  BY <1>5, <1>6 DEF Cuts

(* They extend what is cut already. *)
LEMMA CutsExtend ==
  ASSUME NEW s \in Seq(Clause), NEW x \in Nat, NEW a \in Nat, NEW c \in Nat,
         a <= c, NEW clauses \in Cuts(a, c)
  PROVE  /\ s \o clauses \in Seq(Clause)
         /\ Tiles(s, x, a) => Tiles(s \o clauses, x, c)
         /\ (\A i \in DOMAIN s : s[i][2] <= a) =>
              \A i \in DOMAIN (s \o clauses) : (s \o clauses)[i][2] <= c
<1>1. /\ clauses \in Seq(Clause) /\ Tiles(clauses, a, c)
      /\ \A i \in DOMAIN clauses : clauses[i][2] <= c
  BY CutsType
<1>2. s \o clauses \in Seq(Clause)
  BY <1>1
<1>3. Tiles(s, x, a) => Tiles(s \o clauses, x, c)
  BY <1>1, TilesConcat
<1>4. ASSUME \A i \in DOMAIN s : s[i][2] <= a, NEW i \in DOMAIN (s \o clauses)
      PROVE  (s \o clauses)[i][2] <= c
  <2>1. CASE i \in DOMAIN s
    <3>1. (s \o clauses)[i] = s[i] /\ s[i] \in Clause
      BY <2>1, <1>1
    <3>2. s[i][2] <= a /\ s[i][2] \in Nat
      BY <1>4, <2>1, <3>1 DEF Clause
    <3>3. QED
      BY <3>1, <3>2
  <2>2. CASE i \notin DOMAIN s
    <3>1. i - Len(s) \in DOMAIN clauses /\ (s \o clauses)[i] = clauses[i - Len(s)]
      BY <2>2, <1>1
    <3>2. QED
      BY <3>1, <1>1
  <2>3. QED
    BY <2>1, <2>2
<1>5. QED
  BY <1>2, <1>3, <1>4

LEMMA TypeInit == Init => TypeOK
<1> SUFFICES ASSUME Init PROVE TypeOK
  OBVIOUS
<1>1. queue \in Seq(Nat \X Nat) /\ handed \in Seq(Nat \X Nat)
      /\ delivered \in Seq(Nat \X Nat) /\ marks \in Seq(MarkNames)
  BY EmptySeq DEF Init
<1>2. inHand \in Nat \X Nat
  BY DEF Init, None
<1>3. ClausesHaveText
  <2>1. DOMAIN <<>> = {}
    OBVIOUS
  <2>2. QED
    BY <2>1 DEF Init, ClausesHaveText
<1>4. QED
  BY <1>1, <1>2, <1>3 DEF Init, TypeOK

LEMMA FlushTypes ==
  ASSUME TypeOK, Flush
  PROVE  /\ queue' \in Seq(Nat \X Nat) /\ marks' \in Seq(MarkNames)
         /\ released' \in Nat /\ emitted' \in Nat
         /\ feedCancel' \in BOOLEAN
         /\ UNCHANGED consumerVars
<1>1. Mark(marks, "first_clause") \in Seq(MarkNames)
  BY MarkType DEF TypeOK, MarkNames
<1>2. queue \o << <<released, emitted>>, None >> \in Seq(Nat \X Nat)
      /\ Append(queue, None) \in Seq(Nat \X Nat)
  BY DEF TypeOK, None
<1>3. QED
  BY <1>1, <1>2 DEF Flush, TypeOK

LEMMA LeaveTypes ==
  ASSUME TypeOK, NEW how \in {"ended", "failed", "cancelled"}, Leave(how)
  PROVE  /\ consumer' \in {"waiting", "synthesizing", "ended", "failed", "cancelled"}
         /\ feedCancel' \in BOOLEAN /\ marks' \in Seq(MarkNames)
         /\ UNCHANGED <<feed, emitted, released, inHand, handed, delivered>>
<1>1. Mark(marks, "turn_complete") \in Seq(MarkNames)
  BY MarkType DEF TypeOK, MarkNames
<1>2. QED
  BY <1>1 DEF Leave, TypeOK

(* What a delta does to the text and to the queue... *)
LEMMA DeltaWitness ==
  ASSUME LlmDelta
  PROVE  \E n \in emitted..MaxText : \E c \in released..n : \E clauses \in Cuts(released, c) :
           /\ emitted' = n /\ released' = c /\ queue' = queue \o clauses
<1>1. PICK n \in emitted..MaxText, final \in BOOLEAN :
        /\ emitted' = n
        /\ \E c \in released..n : \E clauses \in Cuts(released, c) :
             released' = c /\ queue' = queue \o clauses
  BY DEF LlmDelta
<1>2. QED
  BY <1>1

(* ... and to the marks: a first token with text, a first clause when one  *)
(* is released, the completion with the finish reason. *)
DeltaMarking(text, clause, final) ==
  LET ms == IF text THEN Mark(marks, "llm_first_token") ELSE marks
      fs == IF clause THEN Mark(ms, "first_clause") ELSE ms
  IN  IF final THEN Mark(fs, "llm_complete") ELSE fs

LEMMA DeltaMarksAre ==
  ASSUME emitted \in Nat, released \in Nat, LlmDelta
  PROVE  /\ emitted' \in Nat /\ released' \in Nat
         /\ emitted' >= emitted /\ released' >= released
         /\ emitted' = emitted => released' = released
         /\ \E final \in BOOLEAN :
              marks' = DeltaMarking(emitted' > emitted, released' > released, final)
<1>1. PICK n \in emitted..MaxText, final \in BOOLEAN :
        /\ emitted' = n
        /\ \E c \in released..n : \E clauses \in Cuts(released, c) :
             /\ n = emitted => c = released
             /\ released' = c
             /\ marks' = DeltaMarking(n > emitted, c > released, final)
  BY DEF LlmDelta, DeltaMarking
<1>2. PICK c \in released..n :
             /\ n = emitted => c = released
             /\ released' = c
             /\ marks' = DeltaMarking(n > emitted, c > released, final)
  BY <1>1
<1>3. n \in Nat /\ c \in Nat /\ n >= emitted /\ c >= released
  BY <1>2
<1>4. QED
  BY <1>1, <1>2, <1>3

LEMMA DeltaMarks ==
  ASSUME marks \in Seq(MarkNames), emitted \in Nat, released \in Nat, LlmDelta
  PROVE  marks' \in Seq(MarkNames)
<1> DEFINE ms(t) == IF t THEN Mark(marks, "llm_first_token") ELSE marks
           fs(t, c) == IF c THEN Mark(ms(t), "first_clause") ELSE ms(t)
<1>1. \A t \in BOOLEAN : ms(t) \in Seq(MarkNames)
  BY MarkType DEF MarkNames
<1> HIDE DEF ms
<1>2. \A t, c \in BOOLEAN : fs(t, c) \in Seq(MarkNames)
  BY <1>1, MarkType DEF MarkNames
<1> HIDE DEF fs
<1>3. \A t, c \in BOOLEAN : Mark(fs(t, c), "llm_complete") \in Seq(MarkNames)
  BY <1>2, MarkType DEF MarkNames
<1> DEFINE t == emitted' > emitted
           c == released' > released
<1>4. PICK final \in BOOLEAN : marks' = DeltaMarking(t, c, final)
  BY DeltaMarksAre
<1>5. DeltaMarking(t, c, final) = IF final THEN Mark(fs(t, c), "llm_complete") ELSE fs(t, c)
  BY DEF DeltaMarking, fs, ms
<1>6. t \in BOOLEAN /\ c \in BOOLEAN
  OBVIOUS
<1> HIDE DEF t, c
<1>7. fs(t, c) \in Seq(MarkNames) /\ Mark(fs(t, c), "llm_complete") \in Seq(MarkNames)
  BY <1>2, <1>3, <1>6
<1>8. QED
  BY <1>4, <1>5, <1>7

(* A clause without text is never put on the queue. *)
LEMMA ClausesStep == ASSUME TypeOK, [Next]_vars PROVE ClausesHaveText'
<1> DEFINE Sound(s) == \A i \in DOMAIN s : s[i][1] < s[i][2]
           SoundQ(s) == \A i \in DOMAIN s : s[i] # None => s[i][1] < s[i][2]
<1>1. /\ queue \in Seq(Clause) /\ handed \in Seq(Clause) /\ delivered \in Seq(Clause)
      /\ inHand \in Clause
      /\ SoundQ(queue) /\ Sound(handed) /\ Sound(delivered)
      /\ consumer = "synthesizing" => inHand[1] < inHand[2]
  BY DEF TypeOK, ClausesHaveText, Clause
<1>2. ASSUME NEW s \in Seq(Clause), NEW e \in Clause
      PROVE  /\ Sound(s) /\ e[1] < e[2] => Sound(Append(s, e))
             /\ SoundQ(s) /\ (e # None => e[1] < e[2]) => SoundQ(Append(s, e))
  <2>1. \A i \in DOMAIN Append(s, e) : \/ i \in DOMAIN s /\ Append(s, e)[i] = s[i]
                                       \/ Append(s, e)[i] = e
    OBVIOUS
  <2>2. QED
    BY <2>1
<1>3. ASSUME NEW t \in Seq(Clause), Sound(t)
      PROVE  SoundQ(queue \o t)
  <2>1. \A i \in DOMAIN (queue \o t) :
           \/ i \in DOMAIN queue /\ (queue \o t)[i] = queue[i]
           \/ i - Len(queue) \in DOMAIN t /\ (queue \o t)[i] = t[i - Len(queue)]
    BY <1>1
  <2>2. QED
    BY <1>1, <1>3, <2>1
<1>4. SoundQ(Tail(queue)) \/ queue = <<>>
  <2>1. CASE queue # <<>>
    <3>1. \A i \in DOMAIN Tail(queue) : i + 1 \in DOMAIN queue /\ Tail(queue)[i] = queue[i + 1]
      BY <1>1, <2>1, HeadTailProperties
    <3>2. QED
      BY <1>1, <3>1
  <2>2. QED
    BY <2>1
<1>5. queue # <<>> => /\ Head(queue) \in Clause
                      /\ Head(queue) # None => Head(queue)[1] < Head(queue)[2]
  <2>1. queue # <<>> => 1 \in DOMAIN queue /\ Head(queue) = queue[1]
    BY <1>1
  <2>2. QED
    BY <1>1, <2>1
<1> HIDE DEF Sound, SoundQ
<1>6. SUFFICES /\ SoundQ(queue') /\ Sound(handed') /\ Sound(delivered')
               /\ consumer' = "synthesizing" => inHand'[1] < inHand'[2]
  BY DEF ClausesHaveText, Sound, SoundQ
<1>7. CASE LlmDelta
  <2>0. PICK n \in emitted..MaxText : \E c \in released..n : \E clauses \in Cuts(released, c) :
            queue' = queue \o clauses
    BY <1>7, DeltaWitness
  <2>1. PICK c \in released..n : \E clauses \in Cuts(released, c) : queue' = queue \o clauses
    BY <2>0
  <2>2. c \in Nat /\ released \in Nat
    BY DEF TypeOK
  <2>3. PICK clauses \in Seq(Clause) : queue' = queue \o clauses /\ Sound(clauses)
    BY <2>1, <2>2, CutsType DEF Sound
  <2>4. QED
    BY <1>1, <1>3, <1>7, <2>3 DEF LlmDelta, consumerVars
<1>8. CASE Flush
  <2>1. released \in Nat /\ emitted \in Nat /\ <<released, emitted>> \in Clause
    BY DEF TypeOK, Clause
  <2>2. SoundQ(Append(queue, None))
    BY <1>1, <1>2, NoneType
  <2>3. released < emitted =>
          SoundQ(Append(Append(queue, <<released, emitted>>), None))
    <3>1. Append(queue, <<released, emitted>>) \in Seq(Clause)
      BY <1>1, <2>1
    <3>2. released < emitted => SoundQ(Append(queue, <<released, emitted>>))
      BY <1>1, <1>2, <2>1
    <3>3. QED
      BY <3>1, <3>2, <1>2, NoneType
  <2>4. queue \o << <<released, emitted>>, None >> =
          Append(Append(queue, <<released, emitted>>), None)
    BY <1>1, <2>1, TwoAppends, NoneType
  <2>5. QED
    BY <1>1, <1>8, <2>2, <2>3, <2>4 DEF Flush, consumerVars
<1>9. CASE TtsTakes
  <2>1. /\ queue # <<>> /\ Head(queue) # None /\ queue' = Tail(queue)
        /\ handed' = Append(handed, Head(queue)) /\ inHand' = Head(queue)
        /\ delivered' = delivered
    BY <1>9 DEF TtsTakes
  <2>2. Sound(handed')
    BY <2>1, <1>1, <1>2, <1>5
  <2>3. QED
    BY <1>1, <1>4, <1>5, <2>1, <2>2
<1>10. CASE TtsYields
  <2>1. /\ consumer = "synthesizing" /\ consumer' = "waiting" /\ queue' = queue
        /\ handed' = handed /\ delivered' = Append(delivered, inHand)
    BY <1>10 DEF TtsYields
  <2>2. Sound(delivered')
    BY <2>1, <1>1, <1>2
  <2>3. QED
    BY <1>1, <2>1, <2>2
<1>11. CASE SentinelSeen
  <2>1. /\ queue # <<>> /\ queue' = Tail(queue) /\ handed' = handed /\ delivered' = delivered
        /\ consumer' # "synthesizing"
    BY <1>11 DEF SentinelSeen, Leave
  <2>2. QED
    BY <1>1, <1>4, <2>1
<1>12. CASE \/ FeedStarts \/ FeedNeverStarts \/ TtsSkips \/ TtsRaises \/ Cancelled
            \/ UNCHANGED vars
  <2>1. /\ queue' = queue /\ handed' = handed /\ delivered' = delivered
        /\ (inHand' = inHand /\ consumer' = consumer) \/ consumer' # "synthesizing"
    BY <1>12 DEF FeedStarts, FeedNeverStarts, TtsSkips, TtsRaises, Cancelled, Leave, vars,
                 consumerVars, feedVars
  <2>2. QED
    BY <1>1, <2>1
<1>13. QED
  BY <1>7, <1>8, <1>9, <1>10, <1>11, <1>12
     DEF Next, FeedStep, ConsumerStep, Over, FeedEnds, LlmRaises, FeedCancelled

LEMMA TypeNext == TypeOK /\ [Next]_vars => TypeOK'
<1> SUFFICES ASSUME TypeOK, [Next]_vars PROVE TypeOK'
  OBVIOUS
<1>0. ClausesHaveText'
  BY ClausesStep
<1> USE <1>0 DEF feedVars, consumerVars
<1>1. CASE FeedStarts \/ FeedNeverStarts
  BY <1>1 DEF FeedStarts, FeedNeverStarts, TypeOK
<1>2. CASE LlmDelta
  <2>0. PICK n \in emitted..MaxText : \E c \in released..n : \E clauses \in Cuts(released, c) :
            /\ emitted' = n /\ released' = c /\ queue' = queue \o clauses
    BY <1>2, DeltaWitness
  <2>1. PICK c \in released..n : \E clauses \in Cuts(released, c) :
            /\ emitted' = n /\ released' = c /\ queue' = queue \o clauses
    BY <2>0
  <2>2. n \in Nat /\ c \in Nat /\ released <= c
    BY DEF TypeOK
  <2>3. queue' \in Seq(Nat \X Nat)
    <3>1. queue \in Seq(Clause) /\ released \in Nat
      BY DEF TypeOK, Clause
    <3>2. PICK clauses \in Cuts(released, c) : queue' = queue \o clauses
      BY <2>1
    <3>3. queue \o clauses \in Seq(Clause)
      BY <2>2, <3>1, <3>2, CutsExtend
    <3>4. QED
      BY <3>2, <3>3 DEF Clause
  <2>4. marks' \in Seq(MarkNames)
    BY <1>2, DeltaMarks DEF TypeOK
  <2>5. QED
    BY <1>0, <1>2, <2>1, <2>2, <2>3, <2>4 DEF LlmDelta, TypeOK
<1>4. CASE FeedEnds \/ LlmRaises \/ FeedCancelled
  BY <1>4, FlushTypes DEF FeedEnds, LlmRaises, FeedCancelled, TypeOK
<1>5. CASE TtsTakes
  <2>1. Head(queue) \in Nat \X Nat /\ Tail(queue) \in Seq(Nat \X Nat)
    BY <1>5 DEF TtsTakes, TypeOK
  <2>2. QED
    BY <1>5, <2>1 DEF TtsTakes, TypeOK
<1>6. CASE TtsYields
  <2>1. Mark(marks, "tts_first_chunk") \in Seq(MarkNames)
    BY MarkType DEF TypeOK, MarkNames
  <2>2. Mark(Mark(marks, "tts_first_chunk"), "first_audio_out") \in Seq(MarkNames)
    BY <2>1, MarkType DEF MarkNames
  <2>3. QED
    BY <1>6, <2>2 DEF TtsYields, TypeOK, None
<1>7. CASE TtsSkips
  BY <1>7 DEF TtsSkips, TypeOK, None
<1>8. CASE TtsRaises
  <2>1. Leave("failed")
    BY <1>8 DEF TtsRaises
  <2>2. QED
    BY <1>8, <2>1, LeaveTypes DEF TtsRaises, TypeOK
<1>9. CASE SentinelSeen
  <2>1. PICK how \in {"ended", "failed", "cancelled"} : Leave(how)
    BY <1>9 DEF SentinelSeen
  <2>2. Tail(queue) \in Seq(Nat \X Nat)
    BY <1>9 DEF SentinelSeen, TypeOK
  <2>3. QED
    BY <1>9, <2>1, <2>2, LeaveTypes DEF SentinelSeen, TypeOK
<1>10. CASE Cancelled
  <2>1. Leave("cancelled")
    BY <1>10 DEF Cancelled
  <2>2. QED
    BY <1>10, <2>1, LeaveTypes DEF Cancelled, TypeOK
<1>11. CASE UNCHANGED vars
  BY <1>11 DEF vars, TypeOK
<1>12. QED
  BY <1>1, <1>2, <1>4, <1>5, <1>6, <1>7, <1>8, <1>9, <1>10, <1>11
     DEF Next, FeedStep, ConsumerStep, Over

-----------------------------------------------------------------------------
(* The invariant is inductive. *)

LEMMA HandedEndType == TypeOK => HandedEnd \in Nat
<1> SUFFICES ASSUME TypeOK PROVE HandedEnd \in Nat
  OBVIOUS
<1>1. handed # <<>> => handed[Len(handed)] \in Nat \X Nat
  BY DEF TypeOK
<1>2. QED
  BY <1>1 DEF HandedEnd

(* The queue without a sentinel is what is queued. *)
LEMMA QueuedTiles ==
  ASSUME NEW q \in Seq(Clause), NEW a \in Nat, NEW b \in Nat, Tiles(q, a, b)
  PROVE  NoSentinel(q) /\ SentinelLast(q) /\ WithoutSentinel(q) = q
<1>1. NoSentinel(q)
  BY TilesAreClauses DEF NoSentinel
<1>2. SentinelLast(q)
  BY <1>1 DEF NoSentinel, SentinelLast
<1>3. QED
  BY <1>1, <1>2, QueuedWhole

LEMMA InvInit == Init => IInv
<1> SUFFICES ASSUME Init PROVE IInv
  OBVIOUS
<1>1. Len(<<>>) = 0 /\ DOMAIN <<>> = {}
  OBVIOUS
<1>2. TypeOK
  BY TypeInit
<1>3. FeedInv /\ SentinelInv /\ HandInv
  BY <1>1 DEF Init, FeedInv, SentinelInv, HandInv, NoSentinel, SentinelLast,
              FeedDone, ConsumerDone
<1>4. EndInv
  BY <1>1 DEF Init, EndInv, HandedEnd
<1>5. TextConserved
  BY <1>1 DEF Init, TextConserved, Tiles, Queued, WithoutSentinel, HandedEnd, FeedDone
<1>6. QED
  BY <1>2, <1>3, <1>4, <1>5 DEF IInv

(* The finally block of the feed leaves the rest of the text and the       *)
(* sentinel. *)
LEMMA FlushKeeps ==
  ASSUME IInv, Flush, ~FeedDone, feed' \in {"finished", "failed", "cancelled"}
  PROVE  SentinelInv' /\ EndInv' /\ TextConserved'
<1>1. TypeOK /\ queue \in Seq(Clause) /\ HandedEnd \in Nat /\ released \in Nat
      /\ emitted \in Nat /\ released <= emitted
  BY HandedEndType DEF IInv, TypeOK, Clause, TextConserved
<1>2. NoSentinel(queue) /\ WithoutSentinel(queue) = queue
  BY <1>1, QueuedWhole DEF IInv, SentinelInv
<1>3. Tiles(queue, HandedEnd, released)
  BY <1>2 DEF IInv, TextConserved, Queued
<1>4. PICK q \in Seq(Clause) :
        /\ queue' = Append(q, None)
        /\ Tiles(q, HandedEnd, emitted)
        /\ \A i \in DOMAIN q : q[i][2] <= emitted
  <2>1. CASE released < emitted
    <3> DEFINE r == Append(queue, <<released, emitted>>)
    <3>1. <<released, emitted>> \in Clause
      BY <1>1 DEF Clause
    <3>2. r \in Seq(Clause)
      BY <3>1, <1>1
    <3>3. queue' = Append(r, None)
      BY <2>1, <3>1, <1>1, TwoAppends, NoneType DEF Flush
    <3>4. Tiles(r, HandedEnd, emitted)
      BY <2>1, <1>1, <1>3, TilesAppend
    <3>5. ASSUME NEW i \in DOMAIN r PROVE r[i][2] <= emitted
      <4>1. CASE i \in DOMAIN queue
        <5>1. r[i] = queue[i] /\ queue[i] \in Clause
          BY <4>1, <3>1, <1>1
        <5>2. queue[i][2] <= released /\ queue[i][2] \in Nat
          BY <4>1, <5>1 DEF IInv, EndInv, Clause
        <5>3. QED
          BY <5>1, <5>2, <1>1
      <4>2. CASE i = Len(queue) + 1
        BY <4>2, <3>1, <1>1
      <4>3. QED
        BY <4>1, <4>2, <3>1, <1>1
    <3>6. QED
      BY <3>2, <3>3, <3>4, <3>5
  <2>2. CASE ~(released < emitted)
    BY <2>2, <1>1, <1>3 DEF Flush, IInv, EndInv
  <2>3. QED
    BY <2>1, <2>2
<1>5. NoSentinel(q)
  BY <1>1, <1>4, QueuedTiles
<1>6. WithoutSentinel(Append(q, None)) = q
  BY QueuedSentinel
<1>7. /\ Append(q, None) # <<>> /\ Len(Append(q, None)) = Len(q) + 1
      /\ Append(q, None)[Len(q) + 1] = None
      /\ \A i \in DOMAIN q : Append(q, None)[i] = q[i]
      /\ DOMAIN Append(q, None) = DOMAIN q \cup {Len(q) + 1}
  BY NoneType
<1>8. handed' = handed /\ released' = emitted /\ emitted' = emitted /\ consumer' = consumer
  BY DEF Flush, consumerVars
<1>9. SentinelInv'
  BY <1>4, <1>5, <1>7, <1>8 DEF SentinelInv, NoSentinel, SentinelLast, FeedDone, ConsumerDone
<1>10. EndInv'
  <2>1. HandedEnd' = HandedEnd
    BY <1>8 DEF HandedEnd
  <2>2. HandedEnd <= released
    BY DEF IInv, EndInv
  <2>3. \A i \in DOMAIN Append(q, None) : Append(q, None)[i][2] <= emitted
    BY <1>1, <1>4, <1>7 DEF None
  <2>4. QED
    BY <2>1, <2>2, <2>3, <1>1, <1>4, <1>8 DEF EndInv
<1>11. TextConserved'
  <2>1. Tiles(handed, 0, HandedEnd)'
    BY <1>8 DEF IInv, TextConserved, Tiles, HandedEnd
  <2>2. Queued' = q
    BY <1>4, <1>6, <1>7 DEF Queued, WithoutSentinel
  <2>3. Tiles(Queued, HandedEnd, released)'
    BY <1>4, <1>8, <2>2 DEF Tiles, HandedEnd
  <2>4. QED
    BY <2>1, <2>3, <1>1, <1>8 DEF TextConserved
<1>12. QED
  BY <1>9, <1>10, <1>11

(* What the chunker releases joins the queue. *)
LEMMA ReleaseKeeps ==
  ASSUME IInv, LlmDelta
  PROVE  SentinelInv' /\ EndInv' /\ TextConserved'
<1>1. TypeOK /\ queue \in Seq(Clause) /\ HandedEnd \in Nat /\ released \in Nat
      /\ emitted \in Nat /\ released <= emitted
  BY HandedEndType DEF IInv, TypeOK, Clause, TextConserved
<1>2. ~FeedDone /\ feed' = feed /\ handed' = handed /\ consumer' = consumer
  BY DEF LlmDelta, Streaming, FeedDone, consumerVars
<1>3. PICK n \in emitted..MaxText : \E c \in released..n : \E clauses \in Cuts(released, c) :
          /\ emitted' = n /\ released' = c /\ queue' = queue \o clauses
  BY DeltaWitness
<1>4. PICK c \in released..n : \E clauses \in Cuts(released, c) :
          /\ emitted' = n /\ released' = c /\ queue' = queue \o clauses
  BY <1>3
<1>5. c \in Nat /\ released <= c /\ c <= n /\ n \in Nat
  BY <1>1
<1>6. NoSentinel(queue) /\ WithoutSentinel(queue) = queue
  BY <1>1, <1>2, QueuedWhole DEF IInv, SentinelInv
<1>7. Tiles(queue, HandedEnd, released)
  BY <1>6 DEF IInv, TextConserved, Queued
<1>8. PICK q \in Seq(Clause) :
        /\ queue' = q
        /\ Tiles(q, HandedEnd, c)
        /\ \A i \in DOMAIN q : q[i][2] <= c
  <2>1. PICK clauses \in Cuts(released, c) : queue' = queue \o clauses
    BY <1>4
  <2>2. /\ queue \o clauses \in Seq(Clause)
        /\ Tiles(queue \o clauses, HandedEnd, c)
        /\ \A i \in DOMAIN (queue \o clauses) : (queue \o clauses)[i][2] <= c
    BY <1>1, <1>5, <1>7, CutsExtend DEF IInv, EndInv
  <2>3. QED
    BY <2>1, <2>2
<1>9. NoSentinel(q) /\ SentinelLast(q) /\ WithoutSentinel(q) = q
  BY <1>1, <1>5, <1>8, QueuedTiles
<1>10. SentinelInv'
  BY <1>2, <1>8, <1>9 DEF SentinelInv, NoSentinel, SentinelLast, FeedDone
<1>11. HandedEnd' = HandedEnd
  BY <1>2 DEF HandedEnd
<1>12. EndInv'
  BY <1>1, <1>4, <1>5, <1>8, <1>11 DEF IInv, EndInv
<1>13. TextConserved'
  <2>1. Tiles(handed, 0, HandedEnd)'
    BY <1>2 DEF IInv, TextConserved, Tiles, HandedEnd
  <2>2. Queued' = q
    BY <1>8, <1>9 DEF Queued, WithoutSentinel
  <2>3. Tiles(Queued, HandedEnd, released)'
    BY <1>4, <1>8, <1>11, <2>2 DEF Tiles
  <2>4. QED
    BY <2>1, <2>3, <1>2, <1>4, <1>5 DEF TextConserved, FeedDone
<1>14. QED
  BY <1>10, <1>12, <1>13

(* The TTS takes the next clause where the last one ended. *)
LEMMA TakeFacts ==
  ASSUME IInv, TtsTakes
  PROVE  /\ Head(queue) \in Clause /\ Head(queue) # None
         /\ Head(queue) = <<HandedEnd, Head(queue)[2]>>
         /\ Head(queue)[1] < Head(queue)[2] /\ Head(queue)[2] <= released
         /\ Tail(queue) \in Seq(Clause)
         /\ Tiles(WithoutSentinel(Tail(queue)), Head(queue)[2], released)
         /\ Tiles(Append(handed, Head(queue)), 0, Head(queue)[2])
<1>1. TypeOK /\ queue \in Seq(Clause) /\ HandedEnd \in Nat /\ released \in Nat
      /\ handed \in Seq(Clause) /\ queue # <<>> /\ Head(queue) # None
  BY HandedEndType DEF IInv, TypeOK, Clause, TtsTakes
<1> DEFINE W == WithoutSentinel(queue)
<1>2. /\ W \in Seq(Clause) /\ W # <<>> /\ Head(W) = Head(queue)
      /\ WithoutSentinel(Tail(queue)) = Tail(W) /\ Tail(queue) \in Seq(Clause)
  BY <1>1, QueuedTail DEF IInv, SentinelInv
<1>3. Tiles(W, HandedEnd, released)
  BY DEF IInv, TextConserved, Queued
<1> HIDE DEF W
<1>4. /\ Head(W) \in Clause /\ Head(W)[1] = HandedEnd /\ Head(W)[1] < Head(W)[2]
      /\ Tiles(Tail(W), Head(W)[2], released)
  BY <1>1, <1>2, <1>3, TilesTail
<1>5. Head(queue) = <<HandedEnd, Head(queue)[2]>> /\ Head(queue)[2] \in Nat
  <2>1. PICK c \in Clause : c = Head(queue) /\ c[1] = HandedEnd
    BY <1>2, <1>4, Zenon
  <2>2. c = <<c[1], c[2]>> /\ c[2] \in Nat
    BY DEF Clause
  <2>3. QED
    BY <2>1, <2>2
<1>6. Head(queue)[2] <= released
  <2>1. 1 \in DOMAIN queue /\ Head(queue) = queue[1]
    BY <1>1
  <2>2. QED
    BY <2>1 DEF IInv, EndInv
<1>7. Tiles(Append(handed, Head(queue)), 0, Head(queue)[2])
  <2>1. Tiles(handed, 0, HandedEnd) /\ HandedEnd < Head(queue)[2]
    BY <1>2, <1>4 DEF IInv, TextConserved
  <2>2. Tiles(Append(handed, <<HandedEnd, Head(queue)[2]>>), 0, Head(queue)[2])
    BY <2>1, <1>1, <1>5, TilesAppend
  <2>3. QED
    BY <2>2, <1>5
<1>8. QED
  BY <1>1, <1>2, <1>4, <1>5, <1>6, <1>7

LEMMA TakeKeeps ==
  ASSUME IInv, TtsTakes
  PROVE  SentinelInv' /\ HandInv' /\ EndInv' /\ TextConserved'
<1>1. queue \in Seq(Clause) /\ handed \in Seq(Clause) /\ queue # <<>> /\ released \in Nat
  BY DEF IInv, TypeOK, Clause, TtsTakes
<1> DEFINE h == Append(handed, Head(queue))
           e == Head(queue)[2]
<1>2. /\ feed' = feed /\ consumer' = "synthesizing" /\ consumer = "waiting"
      /\ released' = released /\ emitted' = emitted
      /\ queue' = Tail(queue) /\ handed' = h /\ inHand' = Head(queue)
  BY DEF TtsTakes, feedVars
<1>3. h # <<>> /\ h \in Seq(Clause) /\ h[Len(h)] = Head(queue)
  BY <1>1, TakeFacts
<1>4. HandInv'
  BY <1>2, <1>3, TakeFacts DEF HandInv
<1>5. Len(queue) \in Nat \ {0} /\ Len(Tail(queue)) = Len(queue) - 1
      /\ \A i \in DOMAIN Tail(queue) : i + 1 \in DOMAIN queue /\ Tail(queue)[i] = queue[i + 1]
      /\ Head(queue) = queue[1] /\ Tail(queue) \in Seq(Clause)
  BY <1>1, HeadTailProperties
<1>6. SentinelInv'
  <2>1. (~FeedDone => NoSentinel(queue))'
    BY <1>2, <1>5 DEF IInv, SentinelInv, NoSentinel, FeedDone
  <2>2. SentinelLast(queue)'
    BY <1>2, <1>5 DEF IInv, SentinelInv, SentinelLast
  <2>3. ASSUME FeedDone
        PROVE  Tail(queue) # <<>> /\ Tail(queue)[Len(Tail(queue))] = None
    <3>1. queue[Len(queue)] = None
      BY <2>3, <1>2 DEF IInv, SentinelInv, ConsumerDone
    <3>2. Len(queue) # 1
      BY <3>1, <1>5, TakeFacts
    <3>3. Len(Tail(queue)) \in DOMAIN Tail(queue)
      BY <3>2, <1>5
    <3>4. Tail(queue)[Len(Tail(queue))] = queue[Len(queue)]
      BY <3>3, <1>5
    <3>5. Tail(queue) # <<>>
      <4>1. Len(Tail(queue)) # 0
        BY <3>2, <1>5
      <4>2. Tail(queue) \in Seq(Clause)
        BY TakeFacts
      <4>3. QED
        BY <4>1, <4>2, EmptyByLength, Zenon
    <3>6. QED
      BY <3>1, <3>4, <3>5
  <2>4. QED
    BY <2>1, <2>2, <2>3, <1>2 DEF SentinelInv, FeedDone
<1>7. HandedEnd' = e
  BY <1>2, <1>3 DEF HandedEnd
<1>8. EndInv'
  <2>1. \A i \in DOMAIN Tail(queue) : Tail(queue)[i][2] <= released
    BY <1>5 DEF IInv, EndInv
  <2>2. QED
    BY <2>1, <1>2, <1>7, TakeFacts DEF EndInv
<1>9. TextConserved'
  <2>1. Tiles(h, 0, e)
    BY TakeFacts
  <2>2. Tiles(handed, 0, HandedEnd)'
    BY <2>1, <1>2, <1>7 DEF Tiles
  <2>3. PICK q : q = WithoutSentinel(Tail(queue))
    OBVIOUS
  <2>4. Tiles(q, e, released)
    BY <2>3, TakeFacts
  <2>5. Queued' = q
    BY <2>3, <1>2 DEF Queued, WithoutSentinel
  <2>6. Tiles(Queued, HandedEnd, released)'
    BY <2>4, <2>5, <1>2, <1>7 DEF Tiles
  <2>7. QED
    BY <2>2, <2>6, <1>2 DEF IInv, TextConserved, FeedDone
<1>10. QED
  BY <1>4, <1>6, <1>8, <1>9

(* The sentinel found at the head of the queue is all that is left of it,  *)
(* so everything released has been handed over. *)
LEMMA SentinelFacts ==
  ASSUME IInv, SentinelSeen
  PROVE  /\ Tail(queue) = <<>>
         /\ HandedEnd = released /\ released = emitted
<1>1. queue \in Seq(Clause) /\ queue # <<>> /\ Head(queue) = None
  BY DEF IInv, TypeOK, Clause, SentinelSeen
<1>2. 1 \in DOMAIN queue /\ queue[1] = None /\ Len(queue) \in Nat \ {0}
  BY <1>1
<1>3. Len(queue) = 1
  BY <1>2 DEF IInv, SentinelInv, SentinelLast
<1>4. Tail(queue) = <<>>
  <2>1. Tail(queue) \in Seq(Clause) /\ Len(Tail(queue)) = 0
    BY <1>1, <1>3
  <2>2. QED
    BY <2>1, EmptyByLength, Zenon
<1>5. Queued = <<>>
  BY <1>1, <1>2, <1>3 DEF Queued, WithoutSentinel
<1>6. Tiles(<<>>, HandedEnd, released)
  BY <1>5 DEF IInv, TextConserved
<1>7. QED
  BY <1>4, <1>6 DEF Tiles, IInv, TextConserved, SentinelSeen

(* Steps that leave the feed's text, the queue and what was handed alone. *)
LEMMA TextUnchanged ==
  ASSUME IInv, UNCHANGED <<emitted, released, queue, handed>>,
         FeedDone' => FeedDone \/ released = emitted
  PROVE  EndInv' /\ TextConserved'
<1>1. EndInv'
  BY DEF IInv, EndInv, HandedEnd
<1>2. TextConserved'
  <2>1. Tiles(handed, 0, HandedEnd)'
    BY DEF IInv, TextConserved, Tiles, HandedEnd
  <2>2. Tiles(Queued, HandedEnd, released)'
    BY DEF IInv, TextConserved, Tiles, HandedEnd, Queued, WithoutSentinel
  <2>3. QED
    BY <2>1, <2>2 DEF IInv, TextConserved
<1>3. QED
  BY <1>1, <1>2

LEMMA InvNext == IInv /\ [Next]_vars => IInv'
<1> SUFFICES ASSUME IInv, [Next]_vars PROVE IInv'
  OBVIOUS
<1>1. TypeOK'
  BY TypeNext DEF IInv
<1> USE DEF feedVars, consumerVars
<1>2. CASE FeedStarts
  <2>1. FeedInv' /\ SentinelInv' /\ HandInv'
    BY <1>2 DEF FeedStarts, IInv, FeedInv, SentinelInv, HandInv, NoSentinel, SentinelLast,
                FeedDone, ConsumerDone
  <2>2. EndInv' /\ TextConserved'
    BY <1>2, TextUnchanged DEF FeedStarts, FeedDone
  <2>3. QED
    BY <1>1, <2>1, <2>2 DEF IInv
<1>3. CASE FeedNeverStarts
  <2>1. FeedInv' /\ SentinelInv' /\ HandInv'
    BY <1>3 DEF FeedNeverStarts, IInv, FeedInv, SentinelInv, HandInv, NoSentinel, SentinelLast,
                FeedDone, ConsumerDone
  <2>2. EndInv' /\ TextConserved'
    BY <1>3, TextUnchanged DEF FeedNeverStarts, IInv, FeedInv
  <2>3. QED
    BY <1>1, <2>1, <2>2 DEF IInv
<1>4. CASE LlmDelta
  <2>1. FeedInv' /\ HandInv'
    BY <1>4 DEF LlmDelta, Streaming, IInv, FeedInv, HandInv, ConsumerDone
  <2>2. QED
    BY <1>1, <1>4, <2>1, ReleaseKeeps DEF IInv
<1>6. CASE FeedEnds \/ LlmRaises \/ FeedCancelled
  <2>1. Flush /\ ~FeedDone /\ feed' \in {"finished", "failed", "cancelled"}
    BY <1>6 DEF FeedEnds, LlmRaises, FeedCancelled, Streaming, FeedDone
  <2>2. FeedInv' /\ HandInv'
    BY <2>1 DEF Flush, IInv, FeedInv, HandInv, ConsumerDone
  <2>3. QED
    BY <1>1, <2>1, <2>2, FlushKeeps DEF IInv
<1>7. CASE TtsTakes
  <2>1. FeedInv'
    BY <1>7 DEF TtsTakes, IInv, FeedInv, ConsumerDone
  <2>2. QED
    BY <1>1, <1>7, <2>1, TakeKeeps DEF IInv
<1>8. CASE TtsYields \/ TtsSkips
  <2>1. FeedInv' /\ SentinelInv' /\ HandInv'
    BY <1>8 DEF TtsYields, TtsSkips, IInv, FeedInv, SentinelInv, HandInv, NoSentinel,
                SentinelLast, FeedDone, ConsumerDone
  <2>2. EndInv' /\ TextConserved'
    BY <1>8, TextUnchanged DEF TtsYields, TtsSkips, FeedDone
  <2>3. QED
    BY <1>1, <2>1, <2>2 DEF IInv
<1>9. CASE TtsRaises \/ Cancelled
  <2>1. FeedInv' /\ SentinelInv' /\ HandInv'
    BY <1>9 DEF TtsRaises, Cancelled, Leave, IInv, FeedInv, SentinelInv, HandInv, NoSentinel,
                SentinelLast, FeedDone, ConsumerDone
  <2>2. EndInv' /\ TextConserved'
    BY <1>9, TextUnchanged DEF TtsRaises, Cancelled, Leave, FeedDone
  <2>3. QED
    BY <1>1, <2>1, <2>2 DEF IInv
<1>10. CASE SentinelSeen
  <2>1. /\ queue' = <<>> /\ HandedEnd' = HandedEnd /\ HandedEnd = released
        /\ released = emitted /\ DOMAIN <<>> = {} /\ Len(<<>>) = 0
    BY <1>10, SentinelFacts DEF SentinelSeen, Leave, HandedEnd
  <2>2. FeedInv' /\ SentinelInv' /\ HandInv'
    BY <1>10, <2>1 DEF SentinelSeen, Leave, IInv, FeedInv, SentinelInv, HandInv, NoSentinel,
                       SentinelLast, FeedDone, ConsumerDone
  <2>3. EndInv'
    BY <1>10, <2>1 DEF SentinelSeen, Leave, IInv, EndInv
  <2>4. Tiles(handed, 0, HandedEnd)'
    BY <1>10 DEF SentinelSeen, Leave, IInv, TextConserved, Tiles, HandedEnd
  <2>5. Queued' = <<>>
    BY <2>1 DEF Queued, WithoutSentinel
  <2>6. Tiles(Queued, HandedEnd, released)'
    BY <1>10, <2>1, <2>5 DEF Tiles, SentinelSeen, Leave
  <2>7. TextConserved'
    BY <1>10, <2>4, <2>6 DEF SentinelSeen, Leave, IInv, TextConserved, FeedDone
  <2>8. QED
    BY <1>1, <2>2, <2>3, <2>7 DEF IInv
<1>11. CASE UNCHANGED vars
  <2>1. FeedInv' /\ SentinelInv' /\ HandInv'
    BY <1>11 DEF vars, IInv, FeedInv, SentinelInv, HandInv, NoSentinel, SentinelLast,
                 FeedDone, ConsumerDone
  <2>2. EndInv' /\ TextConserved'
    BY <1>11, TextUnchanged DEF vars, FeedDone
  <2>3. QED
    BY <1>1, <2>1, <2>2 DEF IInv
<1>12. QED
  BY <1>2, <1>3, <1>4, <1>6, <1>7, <1>8, <1>9, <1>10, <1>11
     DEF Next, FeedStep, ConsumerStep, Over

LEMMA Invariance == Spec => []IInv
  BY InvInit, InvNext, PTL DEF Spec

(* The fields of a turn keep their types. *)
THEOREM TypeCorrect == Spec => []TypeOK
<1>1. IInv => TypeOK
  BY DEF IInv
<1>2. QED
  BY Invariance, <1>1, PTL

(* A consumer waiting for a clause never waits on a queue nobody feeds:    *)
(* whatever way feed_llm ends, its finally block has left the sentinel     *)
(* (cascaded.py 71-78). *)
THEOREM SentinelAlwaysComes == Spec => []SentinelComes
<1>1. IInv => SentinelComes
  BY DEF IInv, SentinelInv, SentinelComes, ConsumerDone
<1>2. QED
  BY Invariance, <1>1, PTL

(* Between the LLM and the TTS no text is lost, doubled or reordered, and  *)
(* a feed that is over holds none back (cascaded.py 57-82). *)
THEOREM NoTextIsLost == Spec => []TextConserved
<1>1. IInv => TextConserved
  BY DEF IInv
<1>2. QED
  BY Invariance, <1>1, PTL

-----------------------------------------------------------------------------
(* The promise of SpokenReply. *)

LEMMA ReplyInit == Init => Reply!Init
  BY DEF Init, Reply!Init, HandedEnd, FeedDone, ConsumerDone, None

LEMMA ReplyNext == IInv /\ [Next]_vars => [Reply!Next]_(Reply!vars)
<1> SUFFICES ASSUME IInv, [Next]_vars PROVE [Reply!Next]_(Reply!vars)
  OBVIOUS
<1>1. TypeOK /\ HandedEnd \in Nat /\ emitted \in Nat /\ released <= emitted /\ released \in Nat
  BY HandedEndType DEF IInv, TypeOK, TextConserved
<1> USE DEF feedVars, consumerVars
<1>2. CASE FeedStarts
  BY <1>2 DEF FeedStarts, Reply!vars, HandedEnd, FeedDone, ConsumerDone
<1>3. CASE FeedNeverStarts
  BY <1>3 DEF FeedNeverStarts, Reply!Next, Reply!StopWriting, HandedEnd, FeedDone, ConsumerDone
<1>4. CASE LlmDelta
  <2>1. PICK n \in emitted..MaxText : emitted' = n
    BY <1>4, DeltaWitness
  <2>2. CASE n \in (emitted + 1)..MaxText
    <3>1. Reply!Write
      BY <1>4, <2>1, <2>2 DEF LlmDelta, Streaming, Reply!Write, HandedEnd, FeedDone, ConsumerDone
    <3>2. QED
      BY <3>1 DEF Reply!Next
  <2>3. CASE n = emitted
    BY <1>4, <2>1, <2>3 DEF LlmDelta, Streaming, Reply!vars, HandedEnd, FeedDone, ConsumerDone
  <2>4. QED
    BY <1>1, <2>2, <2>3
<1>5. CASE FeedEnds \/ LlmRaises \/ FeedCancelled
  <2>1. Reply!StopWriting
    BY <1>5 DEF FeedEnds, LlmRaises, FeedCancelled, Flush, Streaming, Reply!StopWriting,
                HandedEnd, FeedDone, ConsumerDone
  <2>2. QED
    BY <2>1 DEF Reply!Next
<1>6. CASE TtsTakes
  <2>1. inHand = None
    BY <1>6 DEF TtsTakes, IInv, HandInv
  <2>2. inHand' # None /\ inHand'[1] = HandedEnd
    BY <1>6, TakeFacts DEF TtsTakes
  <2>3. QED
    BY <1>6, <2>1, <2>2 DEF TtsTakes, Reply!vars, FeedDone, ConsumerDone
<1>7. CASE TtsYields \/ TtsSkips
  <2>1. inHand # None /\ handed # <<>> /\ inHand = handed[Len(handed)] /\ inHand \in Nat \X Nat
    BY <1>7, <1>1 DEF TtsYields, TtsSkips, IInv, HandInv, TypeOK
  <2>2. HandedEnd = inHand[2] /\ inHand = <<inHand[1], inHand[2]>>
    BY <2>1 DEF HandedEnd
  <2>3. inHand[1] < inHand[2]
    <3>1. Len(handed) \in DOMAIN handed
      BY <2>1, <1>1 DEF TypeOK
    <3>2. QED
      BY <2>1, <3>1 DEF IInv, TextConserved, Tiles
  <2>4. inHand[2] <= emitted
    BY <2>2, <1>1 DEF IInv, EndInv
  <2>5. inHand[2] \in (inHand[1] + 1)..emitted
    BY <2>1, <2>3, <2>4, <1>1
  <2>6. inHand' = None /\ HandedEnd' = inHand[2]
    BY <1>7, <2>2 DEF TtsYields, TtsSkips, HandedEnd
  <2>7. CASE TtsYields
    <3>1. Reply!Speak
      BY <2>1, <2>2, <2>5, <2>6, <2>7 DEF TtsYields, Reply!Speak, FeedDone, ConsumerDone
    <3>2. QED
      BY <3>1 DEF Reply!Next
  <2>8. CASE TtsSkips
    <3>1. Reply!Skip
      BY <2>1, <2>5, <2>6, <2>8 DEF TtsSkips, Reply!Skip, FeedDone, ConsumerDone
    <3>2. QED
      BY <3>1 DEF Reply!Next
  <2>9. QED
    BY <1>7, <2>7, <2>8
<1>8. CASE TtsRaises \/ Cancelled
  <2>1. Reply!BreakOff
    BY <1>8 DEF TtsRaises, Cancelled, Leave, Reply!BreakOff, HandedEnd, FeedDone, ConsumerDone
  <2>2. QED
    BY <2>1 DEF Reply!Next
<1>9. CASE SentinelSeen
  <2>1. inHand = None /\ HandedEnd = emitted
    BY <1>9, SentinelFacts DEF SentinelSeen, IInv, HandInv
  <2>2. Reply!End \/ Reply!BreakOff
    BY <1>9, <2>1 DEF SentinelSeen, Leave, Reply!End, Reply!BreakOff, HandedEnd, FeedDone,
                      ConsumerDone
  <2>3. QED
    BY <2>2 DEF Reply!Next
<1>10. CASE UNCHANGED vars
  BY <1>10 DEF vars, Reply!vars, HandedEnd, FeedDone, ConsumerDone
<1>11. QED
  BY <1>2, <1>3, <1>4, <1>5, <1>6, <1>7, <1>8, <1>9, <1>10
     DEF Next, FeedStep, ConsumerStep, Over

(* run_turn, with its two tasks, its queue and its sentinel, keeps the     *)
(* promise of SpokenReply (cascaded.py 37-102). *)
THEOREM Refinement == Spec => KeepsReplyPromise
<1>1. Spec => Reply!Init /\ [][Reply!Next]_(Reply!vars)
  BY Invariance, ReplyInit, ReplyNext, PTL DEF Spec
<1>2. QED
  BY <1>1 DEF KeepsReplyPromise, Reply!Spec

-----------------------------------------------------------------------------
(* What holds of every reply that keeps the promise of SpokenReply.        *)

(* Clauses in order, without overlap, up to position to. *)
Ordered(clauses, to) ==
  /\ \A i \in DOMAIN clauses : clauses[i][1] < clauses[i][2] /\ clauses[i][2] <= to
  /\ \A i, j \in DOMAIN clauses : i < j => clauses[i][2] <= clauses[j][1]

(* Speaking the clause <<from, to>>. *)
LEMMA SpeakKeepsOrder ==
  ASSUME NEW clauses \in Seq(Nat \X Nat), NEW from \in Nat, NEW to \in Nat, from < to,
         Ordered(clauses, from)
  PROVE  Ordered(Append(clauses, <<from, to>>), to)
<1> DEFINE d == Append(clauses, <<from, to>>)
<1>1. Len(d) = Len(clauses) + 1 /\ Len(clauses) \in Nat /\ d \in Seq(Nat \X Nat)
  OBVIOUS
<1>2. \A i \in DOMAIN d : i \in DOMAIN clauses \/ i = Len(clauses) + 1
  BY <1>1
<1>3. \A i \in DOMAIN clauses : d[i] = clauses[i] /\ i \in Nat /\ i <= Len(clauses)
                                /\ clauses[i] \in Nat \X Nat
  OBVIOUS
<1>4. d[Len(clauses) + 1] = <<from, to>>
  OBVIOUS
<1>5. \A i \in DOMAIN d : d[i][1] < d[i][2] /\ d[i][2] <= to
  BY <1>2, <1>3, <1>4 DEF Ordered
<1>6. ASSUME NEW i \in DOMAIN d, NEW j \in DOMAIN d, i < j
      PROVE  d[i][2] <= d[j][1]
  <2>1. i \in DOMAIN clauses
    BY <1>1, <1>2, <1>3, <1>6
  <2>2. CASE j \in DOMAIN clauses
    BY <2>1, <2>2, <1>3, <1>6 DEF Ordered
  <2>3. CASE j = Len(clauses) + 1
    BY <2>1, <2>3, <1>3, <1>4 DEF Ordered
  <2>4. QED
    BY <2>2, <2>3, <1>2
<1>7. QED
  BY <1>5, <1>6 DEF Ordered

(* What SpokenReply promises of a state, of the values of its variables.   *)
Promise(text, writing, spoken, clauses, status) ==
  /\ text \in Nat /\ spoken \in Nat /\ spoken <= text
  /\ clauses \in Seq(Nat \X Nat) /\ Ordered(clauses, spoken)
  /\ status = "ended" => ~writing /\ spoken = text

Position == IF inHand # None THEN inHand[1] ELSE HandedEnd
Status   == IF ConsumerDone THEN consumer ELSE "running"

ReplyInv == Promise(emitted, ~FeedDone, Position, delivered, Status)

LEMMA ReplyInvNext == ASSUME ReplyInv, [Reply!Next]_(Reply!vars) PROVE ReplyInv'
<1>1. CASE UNCHANGED Reply!vars
  BY <1>1 DEF ReplyInv, Reply!vars, Position, Status
<1>2. CASE Reply!Write
  BY <1>2 DEF ReplyInv, Promise, Reply!Write, Position, Status
<1>3. CASE Reply!StopWriting \/ Reply!End \/ Reply!BreakOff
  BY <1>3 DEF ReplyInv, Promise, Reply!StopWriting, Reply!End, Reply!BreakOff, Position, Status
<1>4. CASE Reply!Speak \/ Reply!Skip
  <2>1. /\ Status = "running" /\ Status' = Status
        /\ Position' \in (Position + 1)..emitted /\ emitted' = emitted
        /\ delivered' \in {delivered, Append(delivered, <<Position, Position'>>)}
    BY <1>4 DEF Reply!Speak, Reply!Skip, Position, Status
  <2>2. /\ Position \in Nat /\ Position' \in Nat
        /\ Position < Position' /\ Position' <= emitted
        /\ <<Position, Position'>> \in Nat \X Nat
    BY <2>1 DEF ReplyInv, Promise
  <2>3. delivered \in Seq(Nat \X Nat) /\ Ordered(delivered, Position)
    BY DEF ReplyInv, Promise
  <2>4. delivered' \in Seq(Nat \X Nat) /\ Ordered(delivered', Position')
    <3>1. CASE delivered' = delivered
      BY <2>2, <2>3, <3>1 DEF Ordered
    <3>2. CASE delivered' = Append(delivered, <<Position, Position'>>)
      BY <2>2, <2>3, <3>2, SpeakKeepsOrder
    <3>3. QED
      BY <2>1, <3>1, <3>2
  <2>5. QED
    BY <2>1, <2>2, <2>4 DEF ReplyInv, Promise
<1>5. QED
  BY <1>1, <1>2, <1>3, <1>4 DEF Reply!Next

(* A reply that keeps the promise is spoken in order, nothing twice and    *)
(* nothing before it is written; and one that ended normally was written   *)
(* to its end, and spoken or skipped to its last clause. *)
THEOREM PromiseKept == Reply!Spec => [](Reply!AudioInOrder /\ Reply!EndedInFull)
<1>1. Reply!Init => ReplyInv
  BY DEF Reply!Init, ReplyInv, Promise, Ordered, Position, Status
<1>2. ReplyInv => Reply!AudioInOrder /\ Reply!EndedInFull
  BY DEF ReplyInv, Promise, Ordered, Reply!AudioInOrder, Reply!EndedInFull, Position, Status
<1>3. QED
  BY <1>1, <1>2, ReplyInvNext, PTL DEF Reply!Spec

(* So the audio run_turn yields follows the text of the model: in order,   *)
(* nothing twice, and never ahead of it. *)
COROLLARY AudioFollowsText == Spec => []SpeechFollowsText
<1>1. Reply!AudioInOrder => SpeechFollowsText
  BY DEF SpeechFollowsText, Reply!AudioInOrder
<1>2. QED
  BY <1>1, Refinement, PromiseKept, PTL DEF KeepsReplyPromise

(* Only a feed that finished lets run_turn end normally. *)
EndedInv ==
  /\ feed = "cancelled" => feedCancel
  /\ feedCancel => consumer \in {"failed", "cancelled"}
  /\ consumer = "ended" => feed = "finished"

LEMMA EndedNext == TypeOK /\ EndedInv /\ [Next]_vars => EndedInv'
<1> SUFFICES ASSUME TypeOK, EndedInv, [Next]_vars PROVE EndedInv'
  OBVIOUS
<1> USE DEF feedVars, consumerVars, EndedInv
<1>1. CASE FeedStarts \/ FeedNeverStarts \/ LlmDelta
  BY <1>1 DEF FeedStarts, FeedNeverStarts, LlmDelta, Streaming
<1>2. CASE FeedEnds \/ LlmRaises \/ FeedCancelled
  BY <1>2 DEF FeedEnds, LlmRaises, FeedCancelled, Flush, Streaming
<1>3. CASE TtsTakes \/ TtsYields \/ TtsSkips
  BY <1>3 DEF TtsTakes, TtsYields, TtsSkips
<1>4. CASE TtsRaises \/ Cancelled
  BY <1>4 DEF TtsRaises, Cancelled, Leave, ConsumerDone
<1>5. CASE SentinelSeen
  BY <1>5 DEF SentinelSeen, Leave, FeedDone
<1>6. CASE UNCHANGED vars
  BY <1>6 DEF vars
<1>7. QED
  BY <1>1, <1>2, <1>3, <1>4, <1>5, <1>6 DEF Next, FeedStep, ConsumerStep, Over

(* And a turn that ends normally was spoken to the end of a reply the LLM  *)
(* finished; its failure would have surfaced (cascaded.py 94). *)
COROLLARY EndedTurnsAreWhole == Spec => []SpeechIsWhole
<1>1. Init => EndedInv
  BY DEF Init, EndedInv
<1>2. EndedInv /\ Reply!EndedInFull => SpeechIsWhole
  BY DEF EndedInv, SpeechIsWhole, Reply!EndedInFull
<1>3. QED
  BY <1>1, <1>2, EndedNext, TypeCorrect, Refinement, PromiseKept, PTL
     DEF Spec, KeepsReplyPromise

-----------------------------------------------------------------------------
(* The order of the marks. *)

In(ms, m) == \E i \in DOMAIN ms : ms[i] = m

Before(ms, a, b) ==
  \A j \in DOMAIN ms : ms[j] = b => \E i \in 1..(j - 1) : ms[i] = a

(* A mark comes after every mark that is there. *)
LEMMA MarkComesLast ==
  ASSUME NEW ms \in Seq(MarkNames), NEW m \in MarkNames
  PROVE  /\ Mark(ms, m) \in Seq(MarkNames)
         /\ \A x : In(Mark(ms, m), x) <=> In(ms, x) \/ x = m
         /\ \A a, b : Before(ms, a, b) /\ (b = m => In(ms, a)) => Before(Mark(ms, m), a, b)
<1>1. CASE In(ms, m)
  BY <1>1 DEF Mark, In
<1>2. CASE ~In(ms, m)
  <2>1. Mark(ms, m) = Append(ms, m)
    BY <1>2 DEF Mark, In
  <2>2. /\ Append(ms, m) \in Seq(MarkNames)
        /\ \A i \in 1..Len(ms) : Append(ms, m)[i] = ms[i]
        /\ Append(ms, m)[Len(ms) + 1] = m
        /\ DOMAIN Append(ms, m) = 1..(Len(ms) + 1)
        /\ DOMAIN ms = 1..Len(ms) /\ Len(ms) \in Nat
    OBVIOUS
  <2>3. \A x : In(Append(ms, m), x) <=> In(ms, x) \/ x = m
    BY <2>2 DEF In
  <2>4. ASSUME NEW a, NEW b, Before(ms, a, b), b = m => In(ms, a)
        PROVE  Before(Append(ms, m), a, b)
    <3> SUFFICES ASSUME NEW j \in DOMAIN Append(ms, m), Append(ms, m)[j] = b
                 PROVE  \E i \in 1..(j - 1) : Append(ms, m)[i] = a
      BY DEF Before
    <3>1. CASE j \in DOMAIN ms
      <4>1. PICK i \in 1..(j - 1) : ms[i] = a
        BY <2>2, <2>4, <3>1 DEF Before
      <4>2. QED
        BY <2>2, <3>1, <4>1
    <3>2. CASE j = Len(ms) + 1
      <4>1. PICK i \in DOMAIN ms : ms[i] = a
        BY <2>2, <2>4, <3>2 DEF In
      <4>2. QED
        BY <2>2, <3>2, <4>1
    <3>3. QED
      BY <2>2, <3>1, <3>2
  <2>5. QED
    BY <2>1, <2>2, <2>3, <2>4
<1>3. QED
  BY <1>1, <1>2

(* Each mark goes with what it is the mark of. *)
CausalInv ==
  /\ emitted > 0 => In(marks, "llm_first_token")
  /\ released > 0 => In(marks, "first_clause")
  /\ delivered # <<>> => In(marks, "first_audio_out")
  /\ ~ConsumerDone => ~In(marks, "turn_complete")
  /\ Before(marks, "llm_first_token", "first_clause")
  /\ Before(marks, "first_clause", "tts_first_chunk")
  /\ Before(marks, "tts_first_chunk", "first_audio_out")
  /\ consumer = "ended" /\ delivered # <<>> => Before(marks, "first_audio_out", "turn_complete")

LEMMA CausalInit == Init => CausalInv
  BY DEF Init, CausalInv, In, Before

(* A clause is marked as it leaves the chunker, in the loop or at the end. *)
LEMMA DeltaIsCausal == ASSUME IInv, CausalInv, LlmDelta PROVE CausalInv'
<1> DEFINE ms == IF emitted' > emitted THEN Mark(marks, "llm_first_token") ELSE marks
           fs == IF released' > released THEN Mark(ms, "first_clause") ELSE ms
<1>1. marks \in Seq(MarkNames) /\ emitted \in Nat /\ released \in Nat /\ released <= emitted
  BY DEF IInv, TypeOK, TextConserved
<1>2. /\ emitted' \in Nat /\ released' \in Nat
      /\ emitted' >= emitted /\ released' >= released
      /\ emitted' = emitted => released' = released
  BY <1>1, DeltaMarksAre
<1>3. marks' = fs \/ marks' = Mark(fs, "llm_complete")
  BY <1>1, DeltaMarksAre DEF DeltaMarking
<1>4. UNCHANGED <<consumer, delivered>>
  BY DEF LlmDelta, consumerVars
<1>5. /\ ms \in Seq(MarkNames)
      /\ \A x : In(ms, x) <=> In(marks, x) \/ (x = "llm_first_token" /\ emitted' > emitted)
      /\ \A a, b : Before(marks, a, b) /\ b # "llm_first_token" => Before(ms, a, b)
  BY <1>1, MarkComesLast DEF MarkNames
<1>6. emitted' > 0 => In(ms, "llm_first_token")
  BY <1>1, <1>2, <1>5 DEF CausalInv
<1>7. released' > released => In(ms, "llm_first_token")
  BY <1>1, <1>2, <1>6
<1> HIDE DEF ms
<1>8. /\ fs \in Seq(MarkNames)
      /\ \A x : In(fs, x) <=> In(ms, x) \/ (x = "first_clause" /\ released' > released)
      /\ \A a, b : Before(ms, a, b) /\ (b = "first_clause" => In(ms, a)) => Before(fs, a, b)
  BY <1>5, MarkComesLast DEF MarkNames
<1>9. /\ Before(ms, "llm_first_token", "first_clause")
      /\ Before(ms, "first_clause", "tts_first_chunk")
      /\ Before(ms, "tts_first_chunk", "first_audio_out")
      /\ consumer = "ended" /\ delivered # <<>> => Before(ms, "first_audio_out", "turn_complete")
  BY <1>5 DEF CausalInv
<1>10. Before(fs, "llm_first_token", "first_clause")
  <2>1. CASE released' > released
    BY <1>7, <1>8, <1>9, <2>1
  <2>2. CASE ~(released' > released)
    BY <1>9, <2>2
  <2>3. QED
    BY <2>1, <2>2
<1>11. /\ Before(fs, "first_clause", "tts_first_chunk")
       /\ Before(fs, "tts_first_chunk", "first_audio_out")
       /\ consumer = "ended" /\ delivered # <<>> => Before(fs, "first_audio_out", "turn_complete")
  BY <1>8, <1>9
<1>12. /\ emitted' > 0 => In(fs, "llm_first_token")
       /\ released' > 0 => In(fs, "first_clause")
       /\ delivered # <<>> => In(fs, "first_audio_out")
       /\ ~ConsumerDone => ~In(fs, "turn_complete")
  <2>1. released' > 0 => released > 0 \/ released' > released
    BY <1>1, <1>2
  <2>2. QED
    BY <1>5, <1>6, <1>8, <2>1 DEF CausalInv
<1> HIDE DEF fs
<1>13. /\ \A x : In(Mark(fs, "llm_complete"), x) <=> In(fs, x) \/ x = "llm_complete"
       /\ \A a, b : Before(fs, a, b) /\ b # "llm_complete"
                     => Before(Mark(fs, "llm_complete"), a, b)
  BY <1>8, MarkComesLast DEF MarkNames
<1>14. CASE marks' = fs
  BY <1>4, <1>10, <1>11, <1>12, <1>14 DEF CausalInv, ConsumerDone
<1>15. CASE marks' = Mark(fs, "llm_complete")
  BY <1>4, <1>10, <1>11, <1>12, <1>13, <1>15 DEF CausalInv, ConsumerDone
<1>16. QED
  BY <1>3, <1>14, <1>15

LEMMA FlushIsCausal == ASSUME IInv, CausalInv, Flush PROVE CausalInv'
<1>1. /\ marks \in Seq(MarkNames) /\ emitted \in Nat /\ released \in Nat
      /\ released <= emitted
  BY DEF IInv, TypeOK, TextConserved
<1>2. /\ released' = emitted /\ UNCHANGED <<emitted, consumer, delivered>>
      /\ IF released < emitted THEN marks' = Mark(marks, "first_clause")
         ELSE marks' = marks
  BY DEF Flush, consumerVars
<1>3. /\ \A x : In(Mark(marks, "first_clause"), x) <=> In(marks, x) \/ x = "first_clause"
      /\ \A a, b : Before(marks, a, b) /\ (b = "first_clause" => In(marks, a))
                    => Before(Mark(marks, "first_clause"), a, b)
  BY <1>1, MarkComesLast DEF MarkNames
<1>4. CASE released < emitted
  BY <1>1, <1>2, <1>3, <1>4 DEF CausalInv, ConsumerDone
<1>5. CASE ~(released < emitted)
  BY <1>1, <1>2, <1>5 DEF CausalInv, ConsumerDone
<1>6. QED
  BY <1>4, <1>5

(* A clause whose audio comes was handed over, so it had been released. *)
LEMMA YieldIsCausal == ASSUME IInv, CausalInv, TtsYields PROVE CausalInv'
<1> DEFINE ms == Mark(marks, "tts_first_chunk")
<1>1. marks \in Seq(MarkNames) /\ delivered \in Seq(Clause)
  BY DEF IInv, TypeOK, Clause
<1>2. released > 0
  <2>1. handed # <<>> /\ handed \in Seq(Clause) /\ Len(handed) \in DOMAIN handed
    BY EmptyByLength DEF TtsYields, IInv, HandInv, TypeOK, Clause
  <2>2. handed[Len(handed)] \in Clause
    BY <2>1
  <2>3. handed[Len(handed)][1] \in Nat /\ handed[Len(handed)][2] \in Nat
    BY <2>2 DEF Clause
  <2>4. handed[Len(handed)][1] < handed[Len(handed)][2]
    BY <2>1 DEF IInv, TextConserved, Tiles
  <2>5. HandedEnd = handed[Len(handed)][2] /\ HandedEnd <= released /\ released \in Nat
    BY <2>1 DEF HandedEnd, IInv, EndInv, TypeOK
  <2>6. QED
    BY <2>3, <2>4, <2>5
<1>3. /\ marks' = Mark(ms, "first_audio_out") /\ consumer' = "waiting"
      /\ ~ConsumerDone /\ UNCHANGED <<emitted, released>>
  BY DEF TtsYields, feedVars, ConsumerDone
<1>4. /\ ms \in Seq(MarkNames)
      /\ \A x : In(ms, x) <=> In(marks, x) \/ x = "tts_first_chunk"
      /\ \A a, b : Before(marks, a, b) /\ (b = "tts_first_chunk" => In(marks, a))
                    => Before(ms, a, b)
  BY <1>1, MarkComesLast DEF MarkNames
<1> HIDE DEF ms
<1>5. /\ \A x : In(Mark(ms, "first_audio_out"), x) <=> In(ms, x) \/ x = "first_audio_out"
      /\ \A a, b : Before(ms, a, b) /\ (b = "first_audio_out" => In(ms, a))
                    => Before(Mark(ms, "first_audio_out"), a, b)
  BY <1>4, MarkComesLast DEF MarkNames
<1>6. QED
  BY <1>2, <1>3, <1>4, <1>5 DEF CausalInv, ConsumerDone

LEMMA LeaveIsCausal ==
  ASSUME IInv, CausalInv, NEW how \in {"ended", "failed", "cancelled"}, ~ConsumerDone,
         Leave(how)
  PROVE  CausalInv'
<1>1. marks \in Seq(MarkNames)
  BY DEF IInv, TypeOK
<1>2. /\ marks' = Mark(marks, "turn_complete") /\ consumer' = how
      /\ UNCHANGED <<emitted, released, delivered>>
  BY DEF Leave
<1>3. /\ \A x : In(Mark(marks, "turn_complete"), x) <=> In(marks, x) \/ x = "turn_complete"
      /\ \A a, b : Before(marks, a, b) /\ (b = "turn_complete" => In(marks, a))
                    => Before(Mark(marks, "turn_complete"), a, b)
  BY <1>1, MarkComesLast DEF MarkNames
<1>4. Before(marks, "first_audio_out", "turn_complete")
  BY DEF CausalInv, In, Before
<1>5. QED
  BY <1>2, <1>3, <1>4 DEF CausalInv, ConsumerDone

LEMMA CausalNext == IInv /\ CausalInv /\ [Next]_vars => CausalInv'
<1> SUFFICES ASSUME IInv, CausalInv, [Next]_vars PROVE CausalInv'
  OBVIOUS
<1>1. CASE FeedStarts \/ FeedNeverStarts \/ TtsTakes \/ TtsSkips \/ UNCHANGED vars
  <2>1. /\ UNCHANGED <<emitted, released, delivered, marks>>
        /\ consumer' = consumer \/ (~ConsumerDone /\ ~ConsumerDone')
    BY <1>1 DEF FeedStarts, FeedNeverStarts, TtsTakes, TtsSkips, vars, feedVars,
                consumerVars, ConsumerDone
  <2>2. QED
    BY <2>1 DEF CausalInv, ConsumerDone
<1>2. CASE LlmDelta
  BY <1>2, DeltaIsCausal
<1>4. CASE FeedEnds \/ LlmRaises \/ FeedCancelled
  BY <1>4, FlushIsCausal DEF FeedEnds, LlmRaises, FeedCancelled
<1>5. CASE TtsYields
  BY <1>5, YieldIsCausal
<1>6. CASE TtsRaises \/ SentinelSeen \/ Cancelled
  <2>1. ~ConsumerDone /\ \E how \in {"ended", "failed", "cancelled"} : Leave(how)
    BY <1>6 DEF TtsRaises, SentinelSeen, Cancelled, ConsumerDone
  <2>2. QED
    BY <2>1, LeaveIsCausal
<1>7. QED
  BY <1>1, <1>2, <1>4, <1>5, <1>6 DEF Next, FeedStep, ConsumerStep, Over

(* No latency boundary is marked before the one it follows, however the    *)
(* feed and the synthesis overlap and whichever of them fails              *)
(* (cascaded.py 57-99, spans.py 52-56). *)
THEOREM MarksStayCausal == Spec => []MarksAreCausal
<1>1. CausalInv => MarksAreCausal
  BY DEF CausalInv, MarksAreCausal, MarkedBefore, Before
<1>2. QED
  BY Invariance, CausalInit, CausalNext, <1>1, PTL DEF Spec

=============================================================================
