--------------------------- MODULE SequenceLemmas ---------------------------
(***************************************************************************)
(* Facts about the ends of sequences, on which the stacks and queues of all *)
(* lexers rest.                                                             *)
(***************************************************************************)
EXTENDS Subsequences, SequencesExt, SequenceTheorems, WellFoundedInduction, TLAPS

(* Front and Last take a non-empty sequence apart.                          *)
LEMMA FrontLast ==
    ASSUME NEW S, NEW s \in Seq(S), s # <<>>
    PROVE  /\ Len(s) \in Nat \ {0}
           /\ Front(s) \in Seq(S)
           /\ Len(Front(s)) = Len(s) - 1
           /\ \A i \in 1..(Len(s) - 1) : Front(s)[i] = s[i]
           /\ Last(s) = s[Len(s)]
           /\ Last(s) \in S
<1>1. Len(s) \in Nat \ {0} /\ \A i \in 1..Len(s) : s[i] \in S
  BY EmptySeq, ElementOfSeq
<1> DEFINE n == Len(s) - 1
<1>2. n \in Int /\ \A i \in 1..n : s[i] \in S
  BY <1>1
<1>3. /\ SubSeq(s, 1, n) \in Seq(S)
      /\ Len(SubSeq(s, 1, n)) = IF 1 <= n THEN n - 1 + 1 ELSE 0
      /\ \A i \in 1..(n - 1 + 1) : SubSeq(s, 1, n)[i] = s[1 + i - 1]
  BY <1>2, 1 \in Int, SubSeqProperties
<1>4. n - 1 + 1 = n /\ \A i \in 1..n : 1 + i - 1 = i
  BY <1>1
<1>5. QED
  BY <1>1, <1>3, <1>4 DEF Front, Last

LEMMA Singleton ==
    ASSUME NEW S, NEW x \in S
    PROVE  <<x>> \in Seq(S) /\ Len(<<x>>) = 1 /\ <<x>>[1] = x /\ <<x>> # <<>>
OBVIOUS

(* A sequence whose elements are all in a set.                              *)
LEMMA SeqOfAll ==
    ASSUME NEW T, NEW S, NEW s \in Seq(T), \A i \in 1..Len(s) : s[i] \in S
    PROVE  s \in Seq(S)
<1>1. Len(s) \in Nat /\ s \in [1..Len(s) -> T]
  BY LenProperties
<1>2. s \in [1..Len(s) -> S]
  BY <1>1
<1>3. QED
  BY <1>1, <1>2, SeqDef

(* The top of a stack after a push.                                         *)
LEMMA AppendLast ==
    ASSUME NEW S, NEW s \in Seq(S), NEW x \in S
    PROVE  /\ Append(s, x) \in Seq(S) /\ Append(s, x) # <<>>
           /\ Len(Append(s, x)) = Len(s) + 1
           /\ \A i \in 1..Len(s) : Append(s, x)[i] = s[i]
           /\ Append(s, x)[Len(s) + 1] = x
           /\ Last(Append(s, x)) = x
<1>1. /\ Append(s, x) \in Seq(S) /\ Len(Append(s, x)) = Len(s) + 1
      /\ \A i \in 1..Len(s) : Append(s, x)[i] = s[i]
      /\ Append(s, x)[Len(s) + 1] = x
  BY AppendProperties
<1>2. Len(s) \in Nat
  BY EmptySeq
<1>3. Append(s, x) # <<>>
  BY <1>1, <1>2, EmptySeq
<1>4. QED
  BY <1>1, <1>3 DEF Last

(* A queue of one item, and of two.                                         *)
LEMMA OneQueued ==
    ASSUME NEW S, NEW s \in Seq(S), s # <<>>, Len(s) <= 1
    PROVE  Tail(s) = <<>> /\ Last(s) = Head(s) /\ Head(s) \in S
<1>1. /\ Len(s) \in Nat \ {0} /\ Last(s) = s[Len(s)] /\ Last(s) \in S
  BY FrontLast
<1>2. Len(s) = 1 /\ Head(s) = s[1]
  <2>1. \A n \in Nat \ {0} : n <= 1 => n = 1
    OBVIOUS
  <2>2. Head(s) = s[1]
    OBVIOUS
  <2>3. QED
    BY <2>1, <2>2, <1>1
<1>3. Tail(s) \in Seq(S) /\ Len(Tail(s)) = Len(s) - 1
  BY HeadTailProperties
<1>4. Len(Tail(s)) = 1 - 1 /\ 1 - 1 = 0
  BY <1>2, <1>3
<1>5. Tail(s) = <<>>
  BY <1>3, <1>4, EmptySeq
<1>6. QED
  BY <1>1, <1>2, <1>5

LEMMA TwoQueued ==
    ASSUME NEW S, NEW x \in S, NEW y \in S
    PROVE  Tail(Append(<<x>>, y)) = <<y>> /\ Head(Append(<<x>>, y)) = x
<1> DEFINE s == Append(<<x>>, y)
<1>1. <<x>> \in Seq(S) /\ Len(<<x>>) = 1 /\ <<x>>[1] = x
  BY Singleton
<1>2. s \in Seq(S) /\ Len(s) = 2 /\ s[1] = x /\ s[2] = y /\ s # <<>>
  <2> DEFINE z == <<x>>
  <2>1. 1 \in 1..Len(z) /\ Len(z) + 1 = 2
    BY <1>1
  <2>2. z \in Seq(S)
    BY <1>1
  <2> HIDE DEF z
  <2>3. /\ Append(z, y) \in Seq(S) /\ Append(z, y) # <<>> /\ Len(Append(z, y)) = Len(z) + 1
        /\ \A i \in 1..Len(z) : Append(z, y)[i] = z[i]
        /\ Append(z, y)[Len(z) + 1] = y
    BY <2>2, AppendLast
  <2>4. Len(Append(z, y)) = 2 /\ Append(z, y)[1] = z[1] /\ Append(z, y)[2] = y
    BY <2>1, <2>3
  <2>5. QED
    BY <2>3, <2>4, <1>1 DEF z
<1> HIDE DEF s
<1>3. Tail(s) \in Seq(S) /\ Len(Tail(s)) = 1 /\ Tail(s)[1] = y /\ Head(s) = x
  <2>1. /\ Tail(s) \in Seq(S) /\ Len(Tail(s)) = Len(s) - 1
        /\ \A i \in 1..Len(Tail(s)) : Tail(s)[i] = s[i + 1]
    BY <1>2, HeadTailProperties
  <2>2. Len(Tail(s)) = 1 /\ 1 \in 1..Len(Tail(s)) /\ 1 + 1 = 2
    <3>1. Len(Tail(s)) = 2 - 1
      BY <1>2, <2>1
    <3>2. \A k : k = 2 - 1 => k = 1 /\ 1 \in 1..k /\ 1 + 1 = 2
      OBVIOUS
    <3>3. QED
      BY <3>1, <3>2
  <2>3. Tail(s)[1] = s[2]
    BY <2>1, <2>2
  <2>4. QED
    BY <2>1, <2>2, <2>3, <1>2
<1>4. <<y>> \in Seq(S) /\ Len(<<y>>) = 1 /\ <<y>>[1] = y
  BY Singleton
<1>5. Tail(s) = <<y>>
  <2>1. \A i \in 1..1 : i = 1
    OBVIOUS
  <2>2. \A i \in 1..Len(Tail(s)) : Tail(s)[i] = <<y>>[i]
    BY <2>1, <1>3, <1>4
  <2>3. QED
    BY <2>2, <1>3, <1>4, SeqEqual
<1>6. QED
  BY <1>3, <1>5 DEF s
---------------------------------------------------------------------------
(* Induction: what the empty sequence has, and every sequence with one more *)
(* element keeps, all sequences have.                                       *)
LEMMA SmallestOf ==
    ASSUME NEW T \in SUBSET Nat, T # {}
    PROVE  \E m \in T : \A i \in T : m <= i
<1>1. PICK m \in T : \A i \in T : ~(<<i, m>> \in OpToRel(<, Nat))
  BY WFMin, NatLessThanWellFounded
<1>2. \A i \in T : ~(i < m)
  BY <1>1 DEF OpToRel
<1>3. QED
  BY <1>2

LEMMA SeqInduction ==
    ASSUME NEW T, NEW P,
           <<>> \in P,
           \A s \in Seq(T), x \in T : s \in P => Append(s, x) \in P
    PROVE  Seq(T) \subseteq P
<1> DEFINE Bad == {n \in Nat : \E s \in Seq(T) : s \notin P /\ Len(s) = n}
<1> SUFFICES ASSUME NEW z \in Seq(T), z \notin P PROVE FALSE
  OBVIOUS
<1>1. Len(z) \in Bad
  BY LenProperties
<1>2. PICK n \in Bad : \A i \in Bad : n <= i
  <2>1. Bad \in SUBSET Nat /\ Bad # {}
    BY <1>1
  <2> HIDE DEF Bad
  <2>2. QED
    BY <2>1, SmallestOf
<1>3. PICK s \in Seq(T) : s \notin P /\ Len(s) = n
  OBVIOUS
<1>4. s # <<>>
  BY <1>3
<1>5. /\ Front(s) \in Seq(T) /\ Last(s) \in T
      /\ Len(Front(s)) = n - 1 /\ n \in Nat \ {0}
      /\ Append(Front(s), Last(s)) = s
  <2>1. /\ Len(s) \in Nat \ {0} /\ Front(s) \in Seq(T) /\ Len(Front(s)) = Len(s) - 1
        /\ \A i \in 1..(Len(s) - 1) : Front(s)[i] = s[i]
        /\ Last(s) = s[Len(s)] /\ Last(s) \in T
    BY <1>4, FrontLast
  <2> DEFINE f == Front(s)
             l == Last(s)
  <2> HIDE DEF f, l
  <2>2. /\ Append(f, l) \in Seq(T) /\ Len(Append(f, l)) = Len(f) + 1
        /\ \A i \in 1..Len(f) : Append(f, l)[i] = f[i]
        /\ Append(f, l)[Len(f) + 1] = l
    BY <2>1, AppendLast DEF f, l
  <2>3. Len(Append(f, l)) = Len(s)
    BY <2>1, <2>2 DEF f
  <2>4. \A i \in 1..Len(s) : Append(f, l)[i] = s[i]
    <3> SUFFICES ASSUME NEW i \in 1..Len(s) PROVE Append(f, l)[i] = s[i]
      OBVIOUS
    <3>1. CASE i = Len(s)
      BY <3>1, <2>1, <2>2 DEF f, l
    <3>2. CASE i # Len(s)
      BY <3>2, <2>1, <2>2 DEF f, l
    <3>3. QED
      BY <3>1, <3>2
  <2>5. Append(f, l) = s
    BY <2>2, <2>3, <2>4, SeqEqual
  <2>6. QED
    BY <2>1, <2>5, <1>3 DEF f, l
<1>6. Front(s) \notin P
  BY <1>3, <1>5
<1>7. n - 1 \in Bad
  BY <1>5, <1>6
<1>8. QED
  BY <1>2, <1>5, <1>7

---------------------------------------------------------------------------
(* OnlyIn.  The recursive function exists, and is the same as far as the    *)
(* sequences are.                                                           *)
IsOnly(f, s, S, n) ==
    f = [i \in 0..n |-> IF i = 0 THEN <<>>
                        ELSE IF s[i] \in S THEN Append(f[i-1], s[i]) ELSE f[i-1]]

LEMMA OnlyExists ==
    ASSUME NEW s, NEW S
    PROVE  \A n \in Nat : \E f : IsOnly(f, s, S, n)
<1> DEFINE Bad == {n \in Nat : ~\E f : IsOnly(f, s, S, n)}
<1> SUFFICES ASSUME Bad # {} PROVE FALSE
  OBVIOUS
<1>1. PICK n \in Bad : \A i \in Bad : n <= i
  <2>1. Bad \in SUBSET Nat /\ Bad # {}
    OBVIOUS
  <2> HIDE DEF Bad
  <2>2. QED
    BY <2>1, SmallestOf
<1>2. n # 0
  <2> DEFINE f == [i \in 0..0 |-> <<>>]
  <2>1. IsOnly(f, s, S, 0)
    BY DEF IsOnly
  <2> HIDE DEF f
  <2>2. QED
    BY <2>1
<1>3. n - 1 \in Nat /\ n - 1 \notin Bad
  BY <1>1, <1>2
<1>4. PICK f : IsOnly(f, s, S, n - 1)
  BY <1>3
<1> DEFINE g == [i \in 0..n |-> IF i < n THEN f[i]
                   ELSE IF s[n] \in S THEN Append(f[n-1], s[n]) ELSE f[n-1]]
<1>5. \A i \in 0..n : g[i] = IF i = 0 THEN <<>>
                        ELSE IF s[i] \in S THEN Append(g[i-1], s[i]) ELSE g[i-1]
  <2> SUFFICES ASSUME NEW i \in 0..n
               PROVE  g[i] = IF i = 0 THEN <<>>
                        ELSE IF s[i] \in S THEN Append(g[i-1], s[i]) ELSE g[i-1]
    OBVIOUS
  <2>1. \A j \in 0..(n - 1) : g[j] = f[j]
    BY <1>3
  <2>2. CASE i = n
    <3>1. i # 0 /\ i - 1 \in 0..(n - 1)
      BY <2>2, <1>2, <1>3
    <3>2. g[n] = IF s[n] \in S THEN Append(f[n-1], s[n]) ELSE f[n-1]
      BY <2>2
    <3> HIDE DEF g
    <3>3. QED
      BY <3>1, <3>2, <2>1, <2>2
  <2>3. CASE i # n
    <3>1. i \in 0..(n - 1) /\ (i # 0 => i - 1 \in 0..(n - 1))
      BY <2>3, <1>3
    <3> HIDE DEF g
    <3>2. f[i] = IF i = 0 THEN <<>>
                 ELSE IF s[i] \in S THEN Append(f[i-1], s[i]) ELSE f[i-1]
      BY <1>4, <3>1 DEF IsOnly
    <3>3. QED
      BY <3>1, <3>2, <2>1
  <2>4. QED
    BY <2>2, <2>3
<1>6. IsOnly(g, s, S, n)
  <2>1. g = [i \in 0..n |-> g[i]]
    OBVIOUS
  <2> HIDE DEF g
  <2>2. QED
    BY <2>1, <1>5 DEF IsOnly
<1> HIDE DEF g
<1>7. QED
  BY <1>6

LEMMA OnlyAgree ==
    ASSUME NEW s, NEW t, NEW S, NEW f, NEW g, NEW m \in Nat, NEW n \in Nat, m <= n,
           IsOnly(f, s, S, m), IsOnly(g, t, S, n), \A i \in 1..m : s[i] = t[i]
    PROVE  \A i \in 0..m : f[i] = g[i]
<1> DEFINE Bad == {i \in 0..m : f[i] # g[i]}
<1> SUFFICES ASSUME Bad # {} PROVE FALSE
  OBVIOUS
<1>1. PICK k \in Bad : \A i \in Bad : k <= i
  <2>1. Bad \in SUBSET Nat /\ Bad # {}
    OBVIOUS
  <2> HIDE DEF Bad
  <2>2. QED
    BY <2>1, SmallestOf
<1>2. \A i \in 0..m :
        /\ f[i] = IF i = 0 THEN <<>>
                  ELSE IF s[i] \in S THEN Append(f[i-1], s[i]) ELSE f[i-1]
        /\ g[i] = IF i = 0 THEN <<>>
                  ELSE IF t[i] \in S THEN Append(g[i-1], t[i]) ELSE g[i-1]
  <2>1. \A i \in 0..m : f[i] = IF i = 0 THEN <<>>
                  ELSE IF s[i] \in S THEN Append(f[i-1], s[i]) ELSE f[i-1]
    BY DEF IsOnly
  <2>2. \A i \in 0..n : g[i] = IF i = 0 THEN <<>>
                  ELSE IF t[i] \in S THEN Append(g[i-1], t[i]) ELSE g[i-1]
    BY DEF IsOnly
  <2>3. \A i \in 0..m : i \in 0..n
    OBVIOUS
  <2>4. QED
    BY <2>1, <2>2, <2>3
<1>3. k # 0
  BY <1>2
<1>4. k - 1 \in 0..m /\ f[k - 1] = g[k - 1] /\ s[k] = t[k]
  BY <1>1, <1>3
<1>5. QED
  BY <1>2, <1>3, <1>4

LEMMA OnlyInDef ==
    ASSUME NEW s, NEW S, Len(s) \in Nat
    PROVE  \E f : IsOnly(f, s, S, Len(s)) /\ OnlyIn(s, S) = f[Len(s)]
<1> DEFINE f == CHOOSE f : IsOnly(f, s, S, Len(s))
<1>1. IsOnly(f, s, S, Len(s))
  BY OnlyExists
<1>2. OnlyIn(s, S) = f[Len(s)]
  BY DEF OnlyIn, IsOnly
<1> HIDE DEF f
<1>3. QED
  BY <1>1, <1>2

LEMMA OnlyInEmpty ==
    ASSUME NEW S
    PROVE  OnlyIn(<<>>, S) = <<>>
<1>1. Len(<<>>) = 0 /\ Len(<<>>) \in Nat
  OBVIOUS
<1>2. PICK f : IsOnly(f, <<>>, S, Len(<<>>)) /\ OnlyIn(<<>>, S) = f[Len(<<>>)]
  BY <1>1, OnlyInDef
<1>3. QED
  BY <1>1, <1>2 DEF IsOnly

LEMMA OnlyInAppend ==
    ASSUME NEW T, NEW s \in Seq(T), NEW x \in T, NEW S
    PROVE  OnlyIn(Append(s, x), S)
             = IF x \in S THEN Append(OnlyIn(s, S), x) ELSE OnlyIn(s, S)
<1> DEFINE a == Append(s, x)
           n == Len(s)
<1>1. /\ n \in Nat /\ a \in Seq(T) /\ Len(a) = n + 1
      /\ \A i \in 1..n : s[i] = a[i]
      /\ a[n + 1] = x
  BY AppendLast, LenProperties
<1> HIDE DEF a, n
<1>2. PICK f : IsOnly(f, s, S, n) /\ OnlyIn(s, S) = f[n]
  BY <1>1, OnlyInDef DEF n
<1>3. PICK g : IsOnly(g, a, S, n + 1) /\ OnlyIn(a, S) = g[n + 1]
  <2>1. Len(a) \in Nat
    BY <1>1
  <2>2. \E g : IsOnly(g, a, S, Len(a)) /\ OnlyIn(a, S) = g[Len(a)]
    BY <2>1, OnlyInDef
  <2>3. QED
    BY <2>2, <1>1
<1>4. f[n] = g[n]
  <2>1. n + 1 \in Nat /\ n <= n + 1 /\ n \in 0..n
    BY <1>1
  <2>2. \A i \in 0..n : f[i] = g[i]
    BY <1>1, <1>2, <1>3, <2>1, OnlyAgree
  <2>3. QED
    BY <2>1, <2>2
<1>5. g[n + 1] = IF a[n + 1] \in S THEN Append(g[n], a[n + 1]) ELSE g[n]
  <2>1. n + 1 \in 0..(n + 1) /\ n + 1 # 0 /\ (n + 1) - 1 = n
    BY <1>1
  <2>2. QED
    BY <1>3, <2>1 DEF IsOnly
<1>6. QED
  BY <1>1, <1>2, <1>3, <1>4, <1>5 DEF a

LEMMA OnlyInType ==
    ASSUME NEW T, NEW S
    PROVE  \A s \in Seq(T) : OnlyIn(s, S) \in Seq(T \cap S)
<1> DEFINE P == {s \in Seq(T) : OnlyIn(s, S) \in Seq(T \cap S)}
<1>1. <<>> \in P
  BY OnlyInEmpty, EmptySeq
<1>2. \A s \in Seq(T), x \in T : s \in P => Append(s, x) \in P
  <2> SUFFICES ASSUME NEW s \in Seq(T), NEW x \in T, OnlyIn(s, S) \in Seq(T \cap S)
               PROVE  Append(s, x) \in P
    OBVIOUS
  <2>1. Append(s, x) \in Seq(T)
    BY AppendLast
  <2>2. OnlyIn(Append(s, x), S)
          = IF x \in S THEN Append(OnlyIn(s, S), x) ELSE OnlyIn(s, S)
    BY OnlyInAppend
  <2>3. x \in S => Append(OnlyIn(s, S), x) \in Seq(T \cap S)
    <3> SUFFICES ASSUME x \in T \cap S PROVE Append(OnlyIn(s, S), x) \in Seq(T \cap S)
      OBVIOUS
    <3>1. QED
      BY AppendLast
  <2>4. QED
    BY <2>1, <2>2, <2>3
<1> HIDE DEF P
<1>3. Seq(T) \subseteq P
  BY <1>1, <1>2, SeqInduction
<1>4. QED
  BY <1>3 DEF P

LEMMA AppendConcat ==
    ASSUME NEW T, NEW s \in Seq(T), NEW t \in Seq(T), NEW x \in T
    PROVE  s \o Append(t, x) = Append(s \o t, x)
<1>1. \A u \in Seq(T) : Append(u, x) = u \o <<x>>
  BY AppendIsConcat
<1>2. <<x>> \in Seq(T)
  BY Singleton
<1>3. s \o t \in Seq(T)
  BY ConcatProperties
<1>4. (s \o t) \o <<x>> = s \o (t \o <<x>>)
  BY <1>2, ConcatAssociative
<1>5. QED
  BY <1>1, <1>3, <1>4

LEMMA OnlyInConcat ==
    ASSUME NEW T, NEW S, NEW s \in Seq(T)
    PROVE  \A t \in Seq(T) : OnlyIn(s \o t, S) = OnlyIn(s, S) \o OnlyIn(t, S)
<1> DEFINE P == {t \in Seq(T) : OnlyIn(s \o t, S) = OnlyIn(s, S) \o OnlyIn(t, S)}
<1>0. \A u \in Seq(T) : OnlyIn(u, S) \in Seq(T \cap S)
  BY OnlyInType
<1>1. <<>> \in P
  <2>1. s \o <<>> = s /\ OnlyIn(s, S) \o <<>> = OnlyIn(s, S) /\ <<>> \in Seq(T)
    BY <1>0, ConcatEmptySeq, EmptySeq
  <2>2. QED
    BY <2>1, OnlyInEmpty
<1>2. \A t \in Seq(T), x \in T : t \in P => Append(t, x) \in P
  <2> SUFFICES ASSUME NEW t \in Seq(T), NEW x \in T, 
                      OnlyIn(s \o t, S) = OnlyIn(s, S) \o OnlyIn(t, S)
               PROVE  Append(t, x) \in P
    OBVIOUS
  <2>1. Append(t, x) \in Seq(T) /\ s \o Append(t, x) = Append(s \o t, x) /\ s \o t \in Seq(T)
    BY AppendLast, AppendConcat, ConcatProperties
  <2>2. OnlyIn(Append(s \o t, x), S)
          = IF x \in S THEN Append(OnlyIn(s \o t, S), x) ELSE OnlyIn(s \o t, S)
    <3> DEFINE u == s \o t
    <3>1. u \in Seq(T)
      BY <2>1
    <3> HIDE DEF u
    <3>2. OnlyIn(Append(u, x), S) = IF x \in S THEN Append(OnlyIn(u, S), x) ELSE OnlyIn(u, S)
      BY <3>1, OnlyInAppend
    <3>3. QED
      BY <3>2 DEF u
  <2>3. OnlyIn(Append(t, x), S) = IF x \in S THEN Append(OnlyIn(t, S), x) ELSE OnlyIn(t, S)
    BY OnlyInAppend
  <2>4. x \in S => OnlyIn(s, S) \o Append(OnlyIn(t, S), x)
                     = Append(OnlyIn(s, S) \o OnlyIn(t, S), x)
    <3> SUFFICES ASSUME x \in T \cap S
                 PROVE  OnlyIn(s, S) \o Append(OnlyIn(t, S), x)
                          = Append(OnlyIn(s, S) \o OnlyIn(t, S), x)
      OBVIOUS
    <3>1. QED
      BY <1>0, AppendConcat
  <2>5. OnlyIn(s \o Append(t, x), S) = OnlyIn(s, S) \o OnlyIn(Append(t, x), S)
    BY <2>1, <2>2, <2>3, <2>4
  <2>6. QED
    BY <2>1, <2>5
<1> HIDE DEF P
<1>3. Seq(T) \subseteq P
  BY <1>1, <1>2, SeqInduction
<1>4. QED
  BY <1>3 DEF P

(* Of one element, of all and of none.                                      *)
LEMMA OnlyInSingleton ==
    ASSUME NEW T, NEW x \in T, NEW S
    PROVE  OnlyIn(<<x>>, S) = IF x \in S THEN <<x>> ELSE <<>>
<1>1. <<>> \in Seq(T) /\ <<x>> = Append(<<>>, x)
  BY EmptySeq
<1>2. OnlyIn(Append(<<>>, x), S) = IF x \in S THEN Append(OnlyIn(<<>>, S), x) ELSE OnlyIn(<<>>, S)
  BY <1>1, OnlyInAppend
<1>3. QED
  BY <1>1, <1>2, OnlyInEmpty

LEMMA OnlyInAll ==
    ASSUME NEW S
    PROVE  \A s \in Seq(S) : OnlyIn(s, S) = s
<1> DEFINE P == {s \in Seq(S) : OnlyIn(s, S) = s}
<1>1. <<>> \in P
  BY OnlyInEmpty, EmptySeq
<1>2. \A s \in Seq(S), x \in S : s \in P => Append(s, x) \in P
  <2> SUFFICES ASSUME NEW s \in Seq(S), NEW x \in S, OnlyIn(s, S) = s
               PROVE  Append(s, x) \in P
    OBVIOUS
  <2>1. Append(s, x) \in Seq(S)
    BY AppendLast
  <2>2. OnlyIn(Append(s, x), S) = Append(OnlyIn(s, S), x)
    BY OnlyInAppend
  <2>3. QED
    BY <2>1, <2>2
<1> HIDE DEF P
<1>3. Seq(S) \subseteq P
  BY <1>1, <1>2, SeqInduction
<1>4. QED
  BY <1>3 DEF P

LEMMA OnlyInNone ==
    ASSUME NEW T, NEW S, T \cap S = {}
    PROVE  \A s \in Seq(T) : OnlyIn(s, S) = <<>>
<1>1. \A s \in Seq(T) : OnlyIn(s, S) \in Seq(T \cap S)
  BY OnlyInType
<1>2. \A u \in Seq({}) : u = <<>>
  <2> SUFFICES ASSUME NEW u \in Seq({}), u # <<>> PROVE FALSE
    OBVIOUS
  <2>1. Len(u) \in Nat \ {0} /\ u[Len(u)] \in {}
    BY EmptySeq, ElementOfSeq
  <2>2. QED
    BY <2>1
<1>3. QED
  BY <1>1, <1>2

LEMMA HeadTail ==
    ASSUME NEW T, NEW s \in Seq(T), s # <<>>
    PROVE  /\ Head(s) \in T /\ Tail(s) \in Seq(T)
           /\ <<Head(s)>> \in Seq(T)
           /\ s = <<Head(s)>> \o Tail(s)
<1>1. /\ Head(s) \in T /\ Tail(s) \in Seq(T) /\ Len(Tail(s)) = Len(s) - 1
      /\ \A i \in 1..Len(Tail(s)) : Tail(s)[i] = s[i + 1]
      /\ Len(s) \in Nat \ {0} /\ Head(s) = s[1]
  BY HeadTailProperties, EmptySeq
<1> DEFINE h == <<Head(s)>>
           t == Tail(s)
<1>2. h \in Seq(T) /\ t \in Seq(T) /\ Len(h) = 1 /\ h[1] = Head(s)
  BY <1>1, Singleton
<1> HIDE DEF h, t
<1>3. /\ h \o t \in Seq(T) /\ Len(h \o t) = 1 + Len(t)
      /\ \A i \in 1..(1 + Len(t)) : (h \o t)[i] = IF i <= 1 THEN h[i] ELSE t[i - 1]
  <2>1. /\ h \o t \in Seq(T) /\ Len(h \o t) = Len(h) + Len(t)
        /\ \A i \in 1..(Len(h) + Len(t)) :
              (h \o t)[i] = IF i <= Len(h) THEN h[i] ELSE t[i - Len(h)]
    BY <1>2, ConcatProperties
  <2>2. QED
    BY <2>1, <1>2
<1>4. Len(h \o t) = Len(s)
  BY <1>1, <1>3 DEF t
<1>5. \A i \in 1..Len(s) : (h \o t)[i] = s[i]
  <2> SUFFICES ASSUME NEW i \in 1..Len(s) PROVE (h \o t)[i] = s[i]
    OBVIOUS
  <2>1. CASE i = 1
    BY <2>1, <1>1, <1>2, <1>3 DEF t
  <2>2. CASE i # 1
    <3>1. i - 1 \in 1..Len(t) /\ ~(i <= 1) /\ i \in 1..(1 + Len(t)) /\ (i - 1) + 1 = i
      BY <2>2, <1>1 DEF t
    <3>2. QED
      BY <3>1, <1>1, <1>3 DEF t
  <2>3. QED
    BY <2>1, <2>2
<1>6. h \o t = s
  BY <1>3, <1>4, <1>5, SeqEqual
<1>7. QED
  BY <1>1, <1>2, <1>6 DEF h, t

LEMMA ConsHeadTail ==
    ASSUME NEW T, NEW x \in T, NEW d \in Seq(T)
    PROVE  /\ <<x>> \o d \in Seq(T) /\ <<x>> \o d # <<>>
           /\ Head(<<x>> \o d) = x /\ Tail(<<x>> \o d) = d
<1>1. PICK h \in Seq(T) : h = <<x>> /\ Len(h) = 1 /\ h[1] = x
  BY Singleton
<1>2. /\ h \o d \in Seq(T) /\ Len(h \o d) = 1 + Len(d)
      /\ \A i \in 1..(1 + Len(d)) : (h \o d)[i] = IF i <= 1 THEN h[i] ELSE d[i - 1]
  <2>1. /\ h \o d \in Seq(T) /\ Len(h \o d) = Len(h) + Len(d)
        /\ \A i \in 1..(Len(h) + Len(d)) :
              (h \o d)[i] = IF i <= Len(h) THEN h[i] ELSE d[i - Len(h)]
    BY ConcatProperties
  <2>2. QED
    BY <1>1, <2>1
<1>3. Len(d) \in Nat /\ 1 \in 1..(1 + Len(d))
  BY LenProperties
<1>4. PICK u \in Seq(T) : u = h \o d /\ Len(u) # 0 /\ u[1] = x
  <2>1. PICK u \in Seq(T) : u = h \o d
    BY <1>2
  <2>2. Len(u) # 0 /\ u[1] = x
    BY <2>1, <1>1, <1>2, <1>3
  <2>3. QED
    BY <2>1, <2>2
<1>5. u # <<>> /\ Head(u) = x
  BY <1>4, EmptySeq
<1>6. /\ Tail(u) \in Seq(T) /\ Len(Tail(u)) = Len(u) - 1
      /\ \A i \in 1..Len(Tail(u)) : Tail(u)[i] = u[i + 1]
  BY <1>5, HeadTailProperties
<1>7. Len(Tail(u)) = Len(d)
  BY <1>2, <1>3, <1>4, <1>6
<1>8. \A i \in 1..Len(d) : Tail(u)[i] = d[i]
  <2> SUFFICES ASSUME NEW i \in 1..Len(d) PROVE Tail(u)[i] = d[i]
    OBVIOUS
  <2>1. i + 1 \in 1..(1 + Len(d)) /\ ~(i + 1 <= 1) /\ (i + 1) - 1 = i
    BY <1>3
  <2>2. Tail(u)[i] = u[i + 1] /\ u[i + 1] = d[i]
    BY <1>2, <1>4, <1>6, <1>7, <2>1
  <2>3. QED
    BY <2>2
<1>9. Tail(u) = d
  BY <1>6, <1>7, <1>8, SeqEqual
<1>10. QED
  BY <1>1, <1>4, <1>5, <1>9

LEMMA OnlyInTail ==
    ASSUME NEW T, NEW s \in Seq(T), s # <<>>, NEW S
    PROVE  OnlyIn(s, S) = IF Head(s) \in S THEN <<Head(s)>> \o OnlyIn(Tail(s), S)
                          ELSE OnlyIn(Tail(s), S)
<1>1. /\ Head(s) \in T /\ Tail(s) \in Seq(T) /\ <<Head(s)>> \in Seq(T)
      /\ s = <<Head(s)>> \o Tail(s)
  BY HeadTail
<1>2. OnlyIn(<<Head(s)>> \o Tail(s), S) = OnlyIn(<<Head(s)>>, S) \o OnlyIn(Tail(s), S)
  BY <1>1, OnlyInConcat
<1>3. OnlyIn(<<Head(s)>>, S) = IF Head(s) \in S THEN <<Head(s)>> ELSE <<>>
  BY <1>1, OnlyInSingleton
<1>4. <<>> \o OnlyIn(Tail(s), S) = OnlyIn(Tail(s), S)
  BY <1>1, OnlyInType, ConcatEmptySeq
<1>5. QED
  BY <1>1, <1>2, <1>3, <1>4
LEMMA OnlyInOnlyIn ==
    ASSUME NEW T, NEW S, NEW R, R \subseteq S
    PROVE  \A s \in Seq(T) : OnlyIn(OnlyIn(s, S), R) = OnlyIn(s, R)
<1> DEFINE P == {s \in Seq(T) : OnlyIn(OnlyIn(s, S), R) = OnlyIn(s, R)}
<1>1. <<>> \in P
  BY OnlyInEmpty, EmptySeq
<1>2. \A s \in Seq(T), x \in T : s \in P => Append(s, x) \in P
  <2> SUFFICES ASSUME NEW s \in Seq(T), NEW x \in T, OnlyIn(OnlyIn(s, S), R) = OnlyIn(s, R)
               PROVE  Append(s, x) \in P
    OBVIOUS
  <2>1. Append(s, x) \in Seq(T)
    BY AppendLast
  <2>2. OnlyIn(Append(s, x), S) = IF x \in S THEN Append(OnlyIn(s, S), x) ELSE OnlyIn(s, S)
    BY OnlyInAppend
  <2>3. OnlyIn(Append(s, x), R) = IF x \in R THEN Append(OnlyIn(s, R), x) ELSE OnlyIn(s, R)
    BY OnlyInAppend
  <2>4. OnlyIn(s, S) \in Seq(T \cap S)
    BY OnlyInType
  <2>5. x \in S => OnlyIn(Append(OnlyIn(s, S), x), R)
                     = IF x \in R THEN Append(OnlyIn(OnlyIn(s, S), R), x)
                       ELSE OnlyIn(OnlyIn(s, S), R)
    <3> SUFFICES ASSUME x \in T \cap S
                 PROVE  OnlyIn(Append(OnlyIn(s, S), x), R)
                          = IF x \in R THEN Append(OnlyIn(OnlyIn(s, S), R), x)
                            ELSE OnlyIn(OnlyIn(s, S), R)
      OBVIOUS
    <3> DEFINE u == OnlyIn(s, S)
           TS == T \cap S
    <3>1. u \in Seq(TS) /\ x \in TS
      BY <2>4
    <3> HIDE DEF u, TS
    <3>2. OnlyIn(Append(u, x), R) = IF x \in R THEN Append(OnlyIn(u, R), x) ELSE OnlyIn(u, R)
      BY <3>1, OnlyInAppend
    <3>3. QED
      BY <3>2 DEF u
  <2>6. OnlyIn(OnlyIn(Append(s, x), S), R) = OnlyIn(Append(s, x), R)
    BY <2>2, <2>3, <2>5
  <2>7. QED
    BY <2>1, <2>6
<1> HIDE DEF P
<1>3. Seq(T) \subseteq P
  BY <1>1, <1>2, SeqInduction
<1>4. QED
  BY <1>3 DEF P

---------------------------------------------------------------------------
(* A reader that goes from one state to the next with every element: R is   *)
(* the set of its steps <<before, element, after>>.                         *)
Leads(R, a, s, b) ==
    \E h : /\ h[0] = a /\ h[Len(s)] = b
           /\ \A i \in 1..Len(s) : <<h[i-1], s[i], h[i]>> \in R

LEMMA LeadsEmpty ==
    ASSUME NEW R, NEW a
    PROVE  Leads(R, a, <<>>, a) /\ \A b : Leads(R, a, <<>>, b) => b = a
<1>1. Len(<<>>) = 0
  OBVIOUS
<1>2. Leads(R, a, <<>>, a)
  <2> DEFINE h == [i \in {0} |-> a]
  <2>1. h[0] = a /\ h[Len(<<>>)] = a
    BY <1>1
  <2>2. \A i \in 1..Len(<<>>) : FALSE
    BY <1>1
  <2> HIDE DEF h
  <2>3. QED
    BY <2>1, <2>2 DEF Leads
<1>3. \A b : Leads(R, a, <<>>, b) => b = a
  BY <1>1 DEF Leads
<1>4. QED
  BY <1>2, <1>3

LEMMA LeadsAppend ==
    ASSUME NEW R, NEW T, NEW s \in Seq(T), NEW x \in T, NEW a, NEW b, NEW c,
           Leads(R, a, s, b), <<b, x, c>> \in R
    PROVE  Leads(R, a, Append(s, x), c)
<1> DEFINE n == Len(s)
           u == Append(s, x)
<1>1. /\ n \in Nat /\ Len(u) = n + 1
      /\ \A i \in 1..n : u[i] = s[i]
      /\ u[n + 1] = x
  BY AppendLast, LenProperties
<1>2. PICK h : h[0] = a /\ h[n] = b /\ \A i \in 1..n : <<h[i-1], s[i], h[i]>> \in R
  BY DEF Leads
<1> HIDE DEF n, u
<1> DEFINE g == [i \in 0..(n + 1) |-> IF i <= n THEN h[i] ELSE c]
<1>3. (\A i \in 0..n : g[i] = h[i]) /\ g[n + 1] = c
  BY <1>1
<1> HIDE DEF g
<1>4. g[0] = a /\ g[Len(u)] = c
  BY <1>1, <1>2, <1>3
<1>5. \A i \in 1..Len(u) : <<g[i-1], u[i], g[i]>> \in R
  <2> SUFFICES ASSUME NEW i \in 1..(n + 1) PROVE <<g[i-1], u[i], g[i]>> \in R
    BY <1>1
  <2>1. CASE i = n + 1
    <3>1. i - 1 = n /\ n \in 0..n
      BY <2>1, <1>1
    <3>2. g[i-1] = b /\ u[i] = x /\ g[i] = c
      BY <2>1, <3>1, <1>1, <1>2, <1>3
    <3>3. QED
      BY <3>2
  <2>2. CASE i # n + 1
    <3>1. i \in 1..n /\ i \in 0..n /\ i - 1 \in 0..n
      BY <2>2, <1>1
    <3>2. g[i-1] = h[i-1] /\ u[i] = s[i] /\ g[i] = h[i]
      BY <3>1, <1>1, <1>3
    <3>3. QED
      BY <3>1, <3>2, <1>2
  <2>3. QED
    BY <2>1, <2>2
<1>6. QED
  BY <1>4, <1>5 DEF Leads, u

LEMMA LeadsTail ==
    ASSUME NEW R, NEW T, NEW s \in Seq(T), s # <<>>, NEW a, NEW b, Leads(R, a, s, b)
    PROVE  \E c : <<a, Head(s), c>> \in R /\ Leads(R, c, Tail(s), b)
<1> DEFINE n == Len(s)
           t == Tail(s)
<1>1. /\ n \in Nat \ {0} /\ Len(t) = n - 1 /\ Head(s) = s[1]
      /\ \A i \in 1..(n - 1) : t[i] = s[i + 1]
  BY HeadTailProperties, EmptySeq
<1>2. PICK h : h[0] = a /\ h[n] = b /\ \A i \in 1..n : <<h[i-1], s[i], h[i]>> \in R
  BY DEF Leads
<1> HIDE DEF n, t
<1> DEFINE g == [i \in 0..(n - 1) |-> h[i + 1]]
<1>3. \A i \in 0..(n - 1) : g[i] = h[i + 1]
  OBVIOUS
<1> HIDE DEF g
<1>4. <<a, Head(s), h[1]>> \in R
  <2>1. 1 \in 1..n /\ 1 - 1 = 0
    BY <1>1
  <2>2. <<h[1-1], s[1], h[1]>> \in R
    BY <2>1, <1>2
  <2>3. QED
    BY <2>1, <2>2, <1>1, <1>2
<1>5. g[0] = h[1] /\ g[Len(t)] = b
  <2>1. 0 \in 0..(n - 1) /\ n - 1 \in 0..(n - 1) /\ (n - 1) + 1 = n /\ 0 + 1 = 1
    BY <1>1
  <2>2. QED
    BY <2>1, <1>1, <1>2, <1>3
<1>6. \A i \in 1..Len(t) : <<g[i-1], t[i], g[i]>> \in R
  <2> SUFFICES ASSUME NEW i \in 1..(n - 1) PROVE <<g[i-1], t[i], g[i]>> \in R
    BY <1>1
  <2>1. /\ i + 1 \in 1..n /\ i - 1 \in 0..(n - 1) /\ i \in 0..(n - 1)
        /\ (i + 1) - 1 = i /\ (i - 1) + 1 = i
    BY <1>1
  <2>2. g[i-1] = h[i] /\ t[i] = s[i + 1] /\ g[i] = h[i + 1]
    BY <2>1, <1>1, <1>3
  <2>3. <<h[(i + 1) - 1], s[i + 1], h[i + 1]>> \in R
    BY <2>1, <1>2
  <2>4. QED
    BY <2>1, <2>2, <2>3
<1>7. QED
  BY <1>4, <1>5, <1>6 DEF Leads, t

LEMMA LeadsFront ==
    ASSUME NEW R, NEW T, NEW s \in Seq(T), s # <<>>, NEW a, NEW b, Leads(R, a, s, b)
    PROVE  \E c : Leads(R, a, Front(s), c) /\ <<c, Last(s), b>> \in R
<1> DEFINE n == Len(s)
           t == Front(s)
<1>1. /\ n \in Nat \ {0} /\ Len(t) = n - 1 /\ Last(s) = s[n]
      /\ \A i \in 1..(n - 1) : t[i] = s[i]
  BY FrontLast
<1>2. PICK h : h[0] = a /\ h[n] = b /\ \A i \in 1..n : <<h[i-1], s[i], h[i]>> \in R
  BY DEF Leads
<1> HIDE DEF n, t
<1>3. n \in 1..n /\ n - 1 \in Nat
  BY <1>1
<1>4. <<h[n-1], Last(s), b>> \in R
  BY <1>1, <1>2, <1>3
<1>5. Leads(R, a, t, h[n-1])
  <2>1. ASSUME NEW i \in 1..Len(t) PROVE <<h[i-1], t[i], h[i]>> \in R
    <3>1. i \in 1..(n - 1) /\ i \in 1..n
      BY <1>1
    <3>2. QED
      BY <3>1, <1>1, <1>2
  <2>2. h[0] = a /\ h[Len(t)] = h[n-1]
    BY <1>1, <1>2
  <2>3. QED
    BY <2>1, <2>2 DEF Leads
<1>6. QED
  BY <1>4, <1>5 DEF t

(* The last element of a sequence taken away.                               *)
LEMMA PushPop ==
    ASSUME NEW S, NEW s \in Seq(S), NEW x \in S
    PROVE  Front(Append(s, x)) = s
<1> PICK t \in Seq(S) : t = Append(s, x)
  BY AppendLast
<1>1. t # <<>> /\ Len(t) = Len(s) + 1 /\ \A i \in 1..Len(s) : t[i] = s[i]
  BY AppendLast
<1>2. Front(t) \in Seq(S) /\ Len(Front(t)) = Len(t) - 1 /\ \A i \in 1..(Len(t) - 1) : Front(t)[i] = t[i]
  BY <1>1, FrontLast
<1>3. Len(s) \in Nat
  BY LenProperties
<1>4. PICK f \in Seq(S) : f = Front(t)
  BY <1>2
<1>5. Len(f) = Len(s) /\ \A i \in 1..Len(f) : f[i] = s[i]
  BY <1>1, <1>2, <1>3, <1>4
<1>6. f = s
  BY <1>5, SeqEqual
<1>7. QED
  BY <1>4, <1>6

LEMMA TakenApart ==
    ASSUME NEW S, NEW s \in Seq(S), s # <<>>
    PROVE  s = Append(Front(s), Last(s))
<1>1. PICK f \in Seq(S), x \in S : f = Front(s) /\ x = Last(s)
  BY FrontLast
<1>2. /\ Len(s) \in Nat \ {0} /\ Len(f) = Len(s) - 1 /\ x = s[Len(s)]
      /\ \A i \in 1..(Len(s) - 1) : f[i] = s[i]
  BY <1>1, FrontLast
<1>3. PICK t \in Seq(S) : t = Append(f, x)
  BY AppendLast
<1>4. /\ Len(t) = Len(f) + 1 /\ t[Len(f) + 1] = x
      /\ \A i \in 1..Len(f) : t[i] = f[i]
  BY <1>3, AppendLast
<1>5. Len(s) = Len(t)
  BY <1>2, <1>4
<1>6. ASSUME NEW i \in 1..Len(s) PROVE s[i] = t[i]
  <2>1. CASE i = Len(s)
    BY <2>1, <1>2, <1>4
  <2>2. CASE i # Len(s)
    <3>1. i \in 1..(Len(s) - 1) /\ i \in 1..Len(f)
      BY <1>2, <2>2
    <3>2. QED
      BY <3>1, <1>2, <1>4
  <2>3. QED
    BY <2>1, <2>2
<1>7. s = t
  BY <1>5, <1>6, SeqEqual
<1>8. QED
  BY <1>1, <1>3, <1>7

LEMMA PrefixedPop ==
    ASSUME NEW S, NEW s \in Seq(S), NEW t \in Seq(S), t # <<>>
    PROVE  s \o t # <<>> /\ Front(s \o t) = s \o Front(t) /\ Last(s \o t) = Last(t)
<1>1. PICK f \in Seq(S), x \in S : f = Front(t) /\ x = Last(t)
  BY FrontLast
<1>2. t = Append(f, x)
  BY <1>1, TakenApart
<1>3. s \o t = Append(s \o f, x)
  BY <1>2, AppendConcat
<1>4. PICK u \in Seq(S) : u = s \o f
  BY ConcatProperties
<1>5. Append(u, x) # <<>> /\ Last(Append(u, x)) = x /\ Front(Append(u, x)) = u
  BY AppendLast, PushPop
<1>6. QED
  BY <1>1, <1>3, <1>4, <1>5

(* A function whose value at each number is computed from the one before:   *)
(* G says how, from the number and that value.                              *)
LEMMA StepByStep ==
    ASSUME NEW V, NEW z \in V, NEW N \in Nat, NEW G \in [1..N -> [V -> V]]
    PROVE  \E f \in [0..N -> V] : f[0] = z /\ \A i \in 1..N : f[i] = G[i][f[i-1]]
<1> DEFINE Upto(n, f) == f[0] = z /\ \A i \in 1..n : f[i] = G[i][f[i-1]]
           Bad == {n \in 0..N : ~\E f \in [0..n -> V] : Upto(n, f)}
<1> SUFFICES ASSUME Bad # {} PROVE FALSE
  <2>1. N \in 0..N
    OBVIOUS
  <2>2. QED
    BY <2>1
<1>1. PICK n \in Bad : \A i \in Bad : n <= i
  <2>1. Bad \in SUBSET Nat /\ Bad # {}
    OBVIOUS
  <2> HIDE DEF Bad
  <2>2. QED
    BY <2>1, SmallestOf
<1>n. n \in 0..N /\ ~\E f \in [0..n -> V] : Upto(n, f)
  OBVIOUS
<1>2. n # 0
  <2>1. [i \in 0..0 |-> z] \in [0..0 -> V] /\ Upto(0, [i \in 0..0 |-> z])
    OBVIOUS
  <2>2. QED
    BY <1>n, <2>1
<1>3. n - 1 \in 0..N /\ n - 1 \notin Bad
  <2>1. n \in Nat /\ n - 1 \in 0..N /\ ~(n <= n - 1)
    BY <1>2, <1>n
  <2> HIDE DEF Bad
  <2>2. QED
    BY <1>1, <2>1
<1>4. PICK f \in [0..(n - 1) -> V] : Upto(n - 1, f)
  BY <1>3
<1>5. PICK v \in V : v = G[n][f[n - 1]]
  <2>1. n \in 1..N /\ n - 1 \in 0..(n - 1)
    BY <1>2, <1>n
  <2>2. G[n] \in [V -> V] /\ f[n - 1] \in V
    BY <2>1
  <2>3. QED
    BY <2>2
<1>6. PICK g \in [0..n -> V] : g[n] = v /\ \A i \in 0..(n - 1) : g[i] = f[i]
  <2> DEFINE h == [i \in 0..n |-> IF i = n THEN v ELSE f[i]]
  <2>1. \A i \in 0..n : i = n \/ i \in 0..(n - 1)
    BY <1>n
  <2>2. \A i \in 0..(n - 1) : i # n /\ i \in 0..n
    BY <1>n
  <2>3. h \in [0..n -> V]
    BY <2>1
  <2>4. h[n] = v
    BY <1>n
  <2>5. \A i \in 0..(n - 1) : h[i] = f[i]
    BY <2>2
  <2> HIDE DEF h
  <2>6. QED
    BY <2>3, <2>4, <2>5
<1>7. Upto(n, g)
  <2>1. 0 \in 0..(n - 1) /\ n - 1 \in 0..(n - 1)
    BY <1>2, <1>n
  <2>2. g[0] = z
    BY <1>4, <1>6, <2>1
  <2>3. ASSUME NEW i \in 1..n PROVE g[i] = G[i][g[i-1]]
    <3>1. CASE i = n
      BY <1>5, <1>6, <2>1, <3>1
    <3>2. CASE i # n
      <4>1. i \in 1..(n - 1) /\ i \in 0..(n - 1) /\ i - 1 \in 0..(n - 1)
        BY <1>n, <3>2
      <4>2. g[i] = f[i] /\ g[i - 1] = f[i - 1] /\ f[i] = G[i][f[i-1]]
        BY <1>4, <1>6, <4>1
      <4>3. QED
        BY <4>2
    <3>3. QED
      BY <3>1, <3>2
  <2>4. QED
    BY <2>2, <2>3
<1>8. QED
  BY <1>n, <1>7
=============================================================================
