----------------------- MODULE PythonRingLexerProofs -----------------------
(***************************************************************************)
(* The circular buffer is a queue of any length, and what follows for the   *)
(* lexer that keeps its tokens in it.                                       *)
(***************************************************************************)
EXTENDS PythonRingLexer, SequenceLemmas

(* A sound buffer: the next slot, the number of tokens, and where they are. *)
LEMMA RingFacts ==
    ASSUME NEW T, NEW r, SoundRing(r, T), None \notin T
    PROVE  /\ r.size \in Nat \ {0}
           /\ r.first \in 0..(r.size - 1) /\ r.last \in 0..(r.size - 1)
           /\ Inc(r, r.first) = (IF r.first + 1 < r.size THEN r.first + 1 ELSE 0)
           /\ Inc(r, r.last) = (IF r.last + 1 < r.size THEN r.last + 1 ELSE 0)
           /\ Distance(r) \in 0..(r.size - 1)
           /\ Count(r) \in 0..r.size
           /\ \A k \in 0..(r.size - 1) : SlotAt(r, r.first, k) \in 0..(r.size - 1)
<1>1. /\ r.size \in Nat \ {0}
      /\ r.first \in 0..(r.size - 1) /\ r.last \in 0..(r.size - 1)
  BY DEF SoundRing
<1>2. \A n \in Nat \ {0} : \A i \in 0..(n - 1) : (i + 1) % n = IF i + 1 < n THEN i + 1 ELSE 0
  OBVIOUS
<1>3. Distance(r) \in 0..(r.size - 1)
  BY <1>1 DEF Distance
<1>4. /\ Inc(r, r.first) = (IF r.first + 1 < r.size THEN r.first + 1 ELSE 0)
      /\ Inc(r, r.last) = (IF r.last + 1 < r.size THEN r.last + 1 ELSE 0)
  BY <1>1, <1>2 DEF Inc
<1>5. Count(r) \in 0..r.size
  BY <1>1, <1>3 DEF Count
<1>6. \A k \in 0..(r.size - 1) : SlotAt(r, r.first, k) \in 0..(r.size - 1)
  BY <1>1 DEF SlotAt
<1>7. QED
  BY <1>1, <1>3, <1>4, <1>5, <1>6

(* A buffer stands for a sequence of tokens.                                *)
LEMMA ContentsType ==
    ASSUME NEW T, NEW r, SoundRing(r, T), None \notin T
    PROVE  /\ Contents(r) \in Seq(T)
           /\ Len(Contents(r)) = Count(r)
           /\ \A k \in 1..Count(r) : Contents(r)[k] = r.slots[SlotAt(r, r.first, k - 1)]
           /\ IsEmpty(r) <=> Contents(r) = <<>>
<1>1. \A k \in 1..Count(r) : r.slots[SlotAt(r, r.first, k - 1)] \in T
  <2> TAKE k \in 1..Count(r)
  <2>1. k - 1 \in 0..(r.size - 1) /\ k - 1 < Count(r)
    BY RingFacts
  <2>2. SlotAt(r, r.first, k - 1) \in 0..(r.size - 1)
    BY <2>1, RingFacts
  <2>3. r.slots[SlotAt(r, r.first, k - 1)] # None
    BY <2>1 DEF SoundRing
  <2>4. QED
    BY <2>2, <2>3 DEF SoundRing
<1>2. Count(r) \in Nat
  BY RingFacts
<1>3. Contents(r) \in Seq(T) /\ Len(Contents(r)) = Count(r)
  BY <1>1, <1>2 DEF Contents
<1>4. \A k \in 1..Count(r) : Contents(r)[k] = r.slots[SlotAt(r, r.first, k - 1)]
  BY DEF Contents
<1>5. IsEmpty(r) <=> Count(r) = 0
  BY RingFacts DEF Count
<1>6. QED
  BY <1>2, <1>3, <1>4, <1>5, EmptySeq

(* Two sequences of the same length and the same elements are the same.     *)
LEMMA SameContents ==
    ASSUME NEW T, NEW r, SoundRing(r, T), None \notin T, NEW s \in Seq(T),
           Len(s) = Count(r),
           \A k \in 1..Count(r) : s[k] = r.slots[SlotAt(r, r.first, k - 1)]
    PROVE  Contents(r) = s
<1>1. /\ Contents(r) \in Seq(T) /\ Len(Contents(r)) = Len(s)
      /\ \A k \in 1..Len(s) : Contents(r)[k] = s[k]
  BY ContentsType
<1>2. QED
  BY <1>1, SeqEqual

(* Every slot is some places after the first one.                           *)
LEMMA SlotIndex ==
    ASSUME NEW T, NEW r, SoundRing(r, T), None \notin T, NEW i \in 0..(r.size - 1)
    PROVE  \E k \in 0..(r.size - 1) : SlotAt(r, r.first, k) = i /\ (i # r.first => k # 0)
<1> DEFINE k == IF i >= r.first THEN i - r.first ELSE i - r.first + r.size
<1>1. k \in 0..(r.size - 1) /\ SlotAt(r, r.first, k) = i /\ (i # r.first => k # 0)
  BY RingFacts DEF SlotAt
<1>2. QED
  BY <1>1

(* A buffer with some of its fields changed.                                *)
LEMMA RingFields ==
    ASSUME NEW m, NEW slots, NEW i, NEW j, NEW x
    PROVE  LET r == [size |-> m, slots |-> slots, first |-> i, last |-> j]
           IN  /\ [r EXCEPT !.slots = x] = [size |-> m, slots |-> x, first |-> i, last |-> j]
               /\ [r EXCEPT !.first = x] = [size |-> m, slots |-> slots, first |-> x, last |-> j]
               /\ [r EXCEPT !.last = x]  = [size |-> m, slots |-> slots, first |-> i, last |-> x]
               /\ r.size = m /\ r.slots = slots /\ r.first = i /\ r.last = j
OBVIOUS

LEMMA TakeOf ==
    ASSUME NEW m, NEW slots, NEW i, NEW j
    PROVE  LET r == [size |-> m, slots |-> slots, first |-> i, last |-> j]
           IN  Take(r) = [size |-> m, slots |-> [slots EXCEPT ![i] = None],
                          first |-> IF i # j THEN Inc(r, i) ELSE i, last |-> j]
<1>1. PICK sl : sl = [slots EXCEPT ![i] = None]
  OBVIOUS
<1>2. PICK r : r = [size |-> m, slots |-> slots, first |-> i, last |-> j]
  OBVIOUS
<1>3. PICK q : q = [size |-> m, slots |-> sl, first |-> i, last |-> j]
  OBVIOUS
<1>4. r.slots = slots /\ r.first = i /\ r.last = j
  BY <1>2, RingFields
<1>5. [r EXCEPT !.slots = sl] = q
  <2>1. [[size |-> m, slots |-> slots, first |-> i, last |-> j] EXCEPT !.slots = sl]
          = [size |-> m, slots |-> sl, first |-> i, last |-> j]
    BY RingFields
  <2>2. QED
    BY <1>2, <1>3, <2>1
<1>6. ASSUME NEW x
      PROVE  [q EXCEPT !.first = x] = [size |-> m, slots |-> sl, first |-> x, last |-> j]
  <2>1. [[size |-> m, slots |-> sl, first |-> i, last |-> j] EXCEPT !.first = x]
          = [size |-> m, slots |-> sl, first |-> x, last |-> j]
    BY RingFields
  <2>2. QED
    BY <1>3, <2>1
<1>7. Take(r) = [q EXCEPT !.first = IF i # j THEN Inc(r, i) ELSE i]
  BY <1>1, <1>4, <1>5 DEF Take
<1>8. Take(r) = [size |-> m, slots |-> sl, first |-> IF i # j THEN Inc(r, i) ELSE i, last |-> j]
  BY <1>6, <1>7
<1>9. QED
  BY <1>1, <1>2, <1>8

(* nextToken: the first token leaves a buffer that is not empty.            *)
LEMMA TakeTail ==
    ASSUME NEW T, NEW r, SoundRing(r, T), None \notin T, ~IsEmpty(r)
    PROVE  /\ SoundRing(Take(r), T)
           /\ Contents(Take(r)) = Tail(Contents(r))
           /\ First(r) = Head(Contents(r)) /\ First(r) \in T
           /\ Count(Take(r)) = Count(r) - 1
<1> DEFINE n == r.size
           q == Take(r)
<1>n. /\ n \in Nat \ {0} /\ r.first \in 0..(n - 1) /\ r.last \in 0..(n - 1)
      /\ Distance(r) \in 0..(n - 1) /\ Count(r) \in 0..n
  BY RingFacts
<1>i. Inc(r, r.first) = IF r.first + 1 < n THEN r.first + 1 ELSE 0
  BY RingFacts
<1>c. Count(r) = Distance(r) + 1 /\ Contents(r) # <<>>
  BY ContentsType DEF Count
<1>s. /\ r.slots \in [0..(n - 1) -> T \union {None}]
      /\ \A k \in 0..(n - 1) : (r.slots[SlotAt(r, r.first, k)] # None) <=> (k < Count(r))
      /\ r = [size |-> n, slots |-> r.slots, first |-> r.first, last |-> r.last]
  BY DEF SoundRing
<1>t. /\ Tail(Contents(r)) \in Seq(T) /\ Len(Tail(Contents(r))) = Count(r) - 1
      /\ \A k \in 1..(Count(r) - 1) : Tail(Contents(r))[k] = Contents(r)[k + 1]
      /\ Head(Contents(r)) = Contents(r)[1]
  BY <1>c, ContentsType, HeadTailProperties
<1>f. First(r) = Head(Contents(r)) /\ First(r) \in T
  <2>0. SlotAt(r, r.first, 0) = r.first
    BY <1>n DEF SlotAt
  <2>1. 1 \in 1..Count(r) /\ 1 - 1 = 0
    BY <1>n, <1>c
  <2>2. Contents(r)[1] = r.slots[r.first]
    BY <2>0, <2>1, ContentsType
  <2>3. QED
    BY <2>2, <1>n, <1>s, <1>t DEF First, IsEmpty
<1>q. /\ q.size = n /\ q.last = r.last
      /\ q.first = IF r.first = r.last THEN r.first ELSE Inc(r, r.first)
      /\ q = [size |-> q.size, slots |-> q.slots, first |-> q.first, last |-> q.last]
      /\ q.slots = [r.slots EXCEPT ![r.first] = None]
  <2>1. PICK m, slots, i, j : r = [size |-> m, slots |-> slots, first |-> i, last |-> j]
    BY <1>s
  <2>2. r.size = m /\ r.slots = slots /\ r.first = i /\ r.last = j
    BY <2>1
  <2>3. Take(r) = [size |-> m, slots |-> [slots EXCEPT ![i] = None],
                   first |-> IF i # j THEN Inc(r, i) ELSE i, last |-> j]
    BY <2>1, TakeOf
  <2> HIDE DEF q
  <2>4. /\ Take(r).size = m /\ Take(r).last = j
        /\ Take(r).first = IF i = j THEN i ELSE Inc(r, i)
        /\ Take(r).slots = [slots EXCEPT ![i] = None]
    BY <2>3
  <2>5. QED
    BY <2>2, <2>3, <2>4 DEF q
<1>v. /\ q.slots \in [0..(n - 1) -> T \union {None}]
      /\ q.slots[r.first] = None
      /\ \A i \in 0..(n - 1) : i # r.first => q.slots[i] = r.slots[i]
  BY <1>n, <1>s, <1>q
<1>1. CASE r.first = r.last
  <2>1. Distance(r) = 0 /\ Count(r) = 1
    BY <1>1, <1>c, <1>n DEF Distance
  <2>2. \A i \in 0..(n - 1) : q.slots[i] = None
    <3> TAKE i \in 0..(n - 1)
    <3>1. i # r.first => r.slots[i] = None
      BY <1>s, <2>1, SlotIndex
    <3>2. QED
      BY <1>v, <3>1
  <2>3. IsEmpty(q) /\ Count(q) = 0 /\ q.first = r.first
    BY <1>1, <1>q, <1>n, <2>2 DEF IsEmpty, Count
  <2>4. \A k \in 0..(n - 1) : SlotAt(q, q.first, k) \in 0..(n - 1)
    BY <1>n, <1>q, <2>3 DEF SlotAt
  <2>5. SoundRing(q, T)
    BY <1>1, <1>q, <1>v, <1>n, <2>2, <2>3, <2>4 DEF SoundRing
  <2>6. Contents(q) = Tail(Contents(r))
    <3>1. Len(Tail(Contents(r))) = Count(q) /\ 1..Count(q) = {}
      BY <1>t, <2>1, <2>3
    <3>2. QED
      BY <1>t, <2>5, <3>1, SameContents
  <2>7. QED
    BY <1>f, <2>1, <2>3, <2>5, <2>6
<1>2. CASE r.first # r.last
  <2>1. q.first \in 0..(n - 1) /\ Distance(q) = Distance(r) - 1 /\ Distance(r) >= 1
    BY <1>2, <1>q, <1>n, <1>i DEF Distance
  <2>2. /\ \A k \in 0..(n - 1) : k < n - 1 => /\ SlotAt(q, q.first, k) = SlotAt(r, r.first, k + 1)
                                            /\ SlotAt(q, q.first, k) # r.first
                                            /\ SlotAt(q, q.first, k) \in 0..(n - 1)
      /\ SlotAt(q, q.first, n - 1) = r.first
    BY <1>2, <1>q, <1>n, <1>i DEF SlotAt
  <2>3. \A k \in 0..(n - 1) : (q.slots[SlotAt(q, q.first, k)] # None) <=> (k < Count(r) - 1)
    <3> TAKE k \in 0..(n - 1)
    <3>1. CASE k < n - 1
      <4>1. q.slots[SlotAt(q, q.first, k)] = r.slots[SlotAt(r, r.first, k + 1)]
        BY <3>1, <2>2, <1>v
      <4>2. k + 1 \in 0..(n - 1) /\ (k + 1 < Count(r) <=> k < Count(r) - 1)
        BY <3>1, <1>n
      <4>3. QED
        BY <4>1, <4>2, <1>s
    <3>2. CASE k = n - 1
      BY <3>2, <2>2, <1>v, <1>n
    <3>3. QED
      BY <3>1, <3>2, <1>n
  <2>4. ~IsEmpty(q)
    <3>1. SlotAt(q, q.first, 0) = q.first /\ 0 \in 0..(n - 1) /\ 0 < Count(r) - 1
      BY <1>n, <1>q, <1>c, <2>1 DEF SlotAt
    <3>2. QED
      BY <3>1, <2>3 DEF IsEmpty
  <2>5. Count(q) = Count(r) - 1
    BY <2>1, <2>4, <1>c, <1>n DEF Count
  <2>6. SoundRing(q, T)
    BY <1>n, <1>q, <1>v, <2>1, <2>3, <2>4, <2>5 DEF SoundRing
  <2>7. \A k \in 1..Count(q) : Tail(Contents(r))[k] = q.slots[SlotAt(q, q.first, k - 1)]
    <3> TAKE k \in 1..Count(q)
    <3>1. k + 1 \in 1..Count(r) /\ k - 1 \in 0..(n - 1) /\ k - 1 < n - 1 /\ (k - 1) + 1 = (k + 1) - 1
          /\ k \in 1..(Count(r) - 1)
      BY <2>5, <1>n
    <3>2. Tail(Contents(r))[k] = r.slots[SlotAt(r, r.first, (k + 1) - 1)]
      BY <3>1, <1>t, ContentsType
    <3>3. /\ SlotAt(q, q.first, k - 1) = SlotAt(r, r.first, (k + 1) - 1)
          /\ SlotAt(q, q.first, k - 1) # r.first /\ SlotAt(q, q.first, k - 1) \in 0..(n - 1)
      BY <3>1, <2>2
    <3>4. QED
      BY <3>2, <3>3, <1>v
  <2>8. Contents(q) = Tail(Contents(r))
    BY <1>t, <2>5, <2>6, <2>7, SameContents
  <2>9. QED
    BY <1>f, <2>5, <2>6, <2>8
<1>3. QED
  BY <1>1, <1>2

(* The slots of a buffer with `m` slots that is enlarged when its first     *)
(* token is in slot `i`.                                                    *)
Moved(m, slots, i) ==
    [k \in 0..(2 * m - 1) |->
       IF k < i THEN slots[k] ELSE IF k >= m + i THEN slots[k - m] ELSE None]

(* emitToken: the three ways to make room.                                  *)
LEMMA EmitOf ==
    ASSUME NEW m, NEW slots, NEW i, NEW j, NEW t,
           NEW r, r = [size |-> m, slots |-> slots, first |-> i, last |-> j]
    PROVE  /\ IsEmpty(r) =>
                Emit(r, t) = [size |-> m, slots |-> [slots EXCEPT ![j] = t], first |-> i, last |-> j]
           /\ ~IsEmpty(r) /\ Inc(r, j) # i =>
                Emit(r, t) = [size |-> m, slots |-> [slots EXCEPT ![Inc(r, j)] = t],
                              first |-> i, last |-> Inc(r, j)]
           /\ ~IsEmpty(r) /\ Inc(r, j) = i =>
                Emit(r, t) = [size |-> 2 * m, slots |-> [Moved(m, slots, i) EXCEPT ![i] = t],
                              first |-> m + i, last |-> i]
<1>1. r.size = m /\ r.slots = slots /\ r.first = i /\ r.last = j
  BY RingFields
<1>2. PICK nxt : nxt = Inc(r, j)
  OBVIOUS
<1>3. PICK q : q = [size |-> m, slots |-> slots, first |-> i, last |-> nxt]
  OBVIOUS
<1>4. [r EXCEPT !.last = nxt] = q
  BY <1>3, RingFields, SMTT(60)
<1>5. q.size = m /\ q.slots = slots /\ q.first = i /\ q.last = nxt
  BY <1>3, RingFields
<1>6. PICK mv : mv = Moved(m, slots, i)
  OBVIOUS
<1>7. PICK e : e = [size |-> 2 * m, slots |-> mv, first |-> m + i, last |-> nxt]
  OBVIOUS
<1>8. Enlarged(q) = e
  BY <1>5, <1>6, <1>7 DEF Enlarged, Moved
<1>9. MadeRoom(r) = IF IsEmpty(r) THEN r ELSE IF nxt = i THEN e ELSE q
  BY <1>1, <1>2, <1>4, <1>5, <1>8 DEF MadeRoom
<1>10. \A x : [r EXCEPT !.slots = x] = [size |-> m, slots |-> x, first |-> i, last |-> j]
  BY RingFields
<1>11. \A x : [q EXCEPT !.slots = x] = [size |-> m, slots |-> x, first |-> i, last |-> nxt]
  <2> TAKE x
  <2>1. [[size |-> m, slots |-> slots, first |-> i, last |-> nxt] EXCEPT !.slots = x]
          = [size |-> m, slots |-> x, first |-> i, last |-> nxt]
    BY RingFields
  <2>2. QED
    BY <1>3, <2>1
<1>12. /\ \A x : [e EXCEPT !.slots = x] = [size |-> 2 * m, slots |-> x, first |-> m + i, last |-> nxt]
       /\ e.slots = mv /\ e.last = nxt
  <2>1. PICK m2 : m2 = 2 * m
    OBVIOUS
  <2>2. PICK i2 : i2 = m + i
    OBVIOUS
  <2>3. e = [size |-> m2, slots |-> mv, first |-> i2, last |-> nxt]
    BY <1>7, <2>1, <2>2
  <2>4. e.slots = mv /\ e.last = nxt
    BY <2>3, RingFields
  <2>5. ASSUME NEW x
        PROVE  [e EXCEPT !.slots = x] = [size |-> m2, slots |-> x, first |-> i2, last |-> nxt]
    <3>1. [[size |-> m2, slots |-> mv, first |-> i2, last |-> nxt] EXCEPT !.slots = x]
            = [size |-> m2, slots |-> x, first |-> i2, last |-> nxt]
      BY RingFields
    <3>2. QED
      BY <2>3, <3>1
  <2>6. QED
    BY <2>1, <2>2, <2>4, <2>5
<1>13. ASSUME IsEmpty(r)
       PROVE  Emit(r, t) = [size |-> m, slots |-> [slots EXCEPT ![j] = t], first |-> i, last |-> j]
  <2>1. Emit(r, t) = [r EXCEPT !.slots = [slots EXCEPT ![j] = t]]
    BY <1>1, <1>9, <1>13 DEF Emit
  <2>2. QED
    BY <1>10, <2>1
<1>14. ASSUME ~IsEmpty(r), nxt # i
       PROVE  Emit(r, t) = [size |-> m, slots |-> [slots EXCEPT ![nxt] = t], first |-> i, last |-> nxt]
  <2>1. Emit(r, t) = [q EXCEPT !.slots = [slots EXCEPT ![nxt] = t]]
    BY <1>5, <1>9, <1>14 DEF Emit
  <2>2. QED
    BY <1>11, <2>1
<1>15. ASSUME ~IsEmpty(r), nxt = i
       PROVE  Emit(r, t) = [size |-> 2 * m, slots |-> [mv EXCEPT ![i] = t], first |-> m + i, last |-> i]
  <2>1. Emit(r, t) = [e EXCEPT !.slots = [mv EXCEPT ![i] = t]]
    BY <1>12, <1>9, <1>15 DEF Emit
  <2>2. QED
    BY <1>12, <2>1, <1>15
<1>16. QED
  BY <1>2, <1>6, <1>13, <1>14, <1>15

LEMMA MakesSound ==
    ASSUME NEW T, NEW q, NEW n \in Nat \ {0}, NEW c \in Nat, q.size = n, ~IsEmpty(q), Count(q) = c,
           q.first \in 0..(n - 1), q.last \in 0..(n - 1),
           q = [size |-> q.size, slots |-> q.slots, first |-> q.first, last |-> q.last],
           q.slots \in [0..(n - 1) -> T \union {None}],
           \A k \in 0..(n - 1) : (q.slots[SlotAt(q, q.first, k)] # None) <=> (k < c)
    PROVE  SoundRing(q, T)
BY DEF SoundRing

(* emitToken: a token goes in behind the others.                            *)
LEMMA EmitAppends ==
    ASSUME NEW T, NEW r, SoundRing(r, T), None \notin T, NEW t \in T
    PROVE  /\ SoundRing(Emit(r, t), T)
           /\ Contents(Emit(r, t)) = Append(Contents(r), t)
           /\ Count(Emit(r, t)) = Count(r) + 1
<1> DEFINE n == r.size
           nxt == Inc(r, r.last)
           s == Append(Contents(r), t)
<1>n. /\ n \in Nat \ {0} /\ r.first \in 0..(n - 1) /\ r.last \in 0..(n - 1)
      /\ Distance(r) \in 0..(n - 1) /\ Count(r) \in 0..n
      /\ nxt = IF r.last + 1 < n THEN r.last + 1 ELSE 0
      /\ n = r.size /\ nxt = Inc(r, r.last)
  BY RingFacts
<1>s. /\ r.slots \in [0..(n - 1) -> T \union {None}]
      /\ \A k \in 0..(n - 1) : (r.slots[SlotAt(r, r.first, k)] # None) <=> (k < Count(r))
      /\ IsEmpty(r) => r.first = r.last /\ \A i \in 0..(n - 1) : r.slots[i] = None
  BY DEF SoundRing
<1>r. r = [size |-> n, slots |-> r.slots, first |-> r.first, last |-> r.last]
  BY DEF SoundRing
<1>t. /\ s \in Seq(T) /\ Len(s) = Count(r) + 1 /\ s[Count(r) + 1] = t
      /\ \A k \in 1..Count(r) : s[k] = r.slots[SlotAt(r, r.first, k - 1)]
  <2>1. Contents(r) \in Seq(T) /\ Len(Contents(r)) = Count(r) /\ Count(r) \in Nat
    BY ContentsType, <1>n
  <2>2. /\ s \in Seq(T) /\ Len(s) = Count(r) + 1 /\ s[Count(r) + 1] = t
        /\ \A k \in 1..Count(r) : s[k] = Contents(r)[k]
    BY <2>1, AppendProperties
  <2>3. QED
    BY <2>2, ContentsType
<1> HIDE DEF s, n, nxt
<1>1. PICK q : q = Emit(r, t)
  OBVIOUS
<1>2. ASSUME SoundRing(q, T), Count(q) = Count(r) + 1,
             \A k \in 1..(Count(r) + 1) : s[k] = q.slots[SlotAt(q, q.first, k - 1)]
      PROVE  /\ SoundRing(q, T)
             /\ Contents(q) = s
             /\ Count(q) = Count(r) + 1
  BY <1>2, <1>t, SameContents
<1>3. CASE IsEmpty(r)
  <2>1. q = [size |-> n, slots |-> [r.slots EXCEPT ![r.last] = t], first |-> r.first, last |-> r.last]
    BY <1>1, <1>3, <1>r, EmitOf
  <2>2. /\ q.size = n /\ q.slots = [r.slots EXCEPT ![r.last] = t]
        /\ q.first = r.first /\ q.last = r.last
        /\ q = [size |-> q.size, slots |-> q.slots, first |-> q.first, last |-> q.last]
    BY <2>1, RingFields
  <2>3. Count(r) = 0 /\ r.first = r.last
    BY <1>3, <1>s DEF Count
  <2>4. /\ q.slots \in [0..(n - 1) -> T \union {None}]
        /\ q.slots[q.first] = t /\ t # None
        /\ \A i \in 0..(n - 1) : i # q.first => q.slots[i] = None
    BY <1>n, <1>s, <1>3, <2>2, <2>3
  <2>5. ~IsEmpty(q) /\ Count(q) = 1
    BY <2>2, <2>3, <2>4, <1>n DEF IsEmpty, Count, Distance
  <2>6. \A k \in 0..(n - 1) : /\ SlotAt(q, q.first, k) \in 0..(n - 1)
                              /\ SlotAt(q, q.first, k) = q.first <=> k = 0
    BY <1>n, <2>2 DEF SlotAt
  <2>7. \A k \in 0..(n - 1) : (q.slots[SlotAt(q, q.first, k)] # None) <=> (k < 1)
    BY <2>4, <2>6
  <2>8. SoundRing(q, T)
    <3>1. /\ q.size = n /\ q.first \in 0..(n - 1) /\ q.last \in 0..(n - 1)
          /\ q = [size |-> q.size, slots |-> q.slots, first |-> q.first, last |-> q.last]
          /\ 1 \in Nat /\ n \in Nat \ {0}
      BY <1>n, <2>2
    <3>2. q.slots \in [0..(n - 1) -> T \union {None}]
      BY <2>4
    <3>3. QED
      BY <3>1, <3>2, <2>5, <2>7, MakesSound
  <2>9. \A k \in 1..(Count(r) + 1) : s[k] = q.slots[SlotAt(q, q.first, k - 1)]
    <3> TAKE k \in 1..(Count(r) + 1)
    <3>1. k = 1 /\ k - 1 = 0 /\ s[k] = t
      BY <1>t, <2>3
    <3>2. SlotAt(q, q.first, k - 1) = q.first
      BY <3>1, <2>6, <1>n
    <3>3. QED
      BY <3>1, <3>2, <2>4
  <2>10. QED
    BY <1>1, <1>2, <2>3, <2>5, <2>8, <2>9 DEF s
<1>c. ASSUME ~IsEmpty(r)
      PROVE  Count(r) = Distance(r) + 1 /\ SlotAt(r, r.first, Distance(r)) = r.last
  BY <1>c, <1>n DEF Count, Distance, SlotAt
<1>4. CASE ~IsEmpty(r) /\ nxt # r.first
  <2>1. q = [size |-> n, slots |-> [r.slots EXCEPT ![nxt] = t], first |-> r.first, last |-> nxt]
    BY <1>1, <1>4, <1>r, <1>n, EmitOf
  <2>2. /\ q.size = n /\ q.slots = [r.slots EXCEPT ![nxt] = t]
        /\ q.first = r.first /\ q.last = nxt
        /\ q = [size |-> q.size, slots |-> q.slots, first |-> q.first, last |-> q.last]
    BY <2>1, RingFields
  <2>3. nxt \in 0..(n - 1) /\ t # None
    BY <1>n
  <2>4. /\ q.slots \in [0..(n - 1) -> T \union {None}]
        /\ q.slots[nxt] = t
        /\ \A i \in 0..(n - 1) : i # nxt => q.slots[i] = r.slots[i]
    BY <1>s, <2>2, <2>3, ZenonT(60)
  <2>5. ~IsEmpty(q)
    BY <1>4, <1>n, <2>2, <2>4 DEF IsEmpty
  <2>6. /\ Distance(q) = Distance(r) + 1 /\ Distance(r) + 1 \in 0..(n - 1)
        /\ SlotAt(r, r.first, Distance(r) + 1) = nxt
    BY <1>4, <1>n, <2>2 DEF Distance, SlotAt
  <2>7. Count(q) = Count(r) + 1
    BY <1>c, <1>4, <2>5, <2>6 DEF Count
  <2>8. \A k \in 0..(n - 1) : /\ SlotAt(q, q.first, k) = SlotAt(r, r.first, k)
                              /\ SlotAt(r, r.first, k) \in 0..(n - 1)
                              /\ SlotAt(r, r.first, k) = nxt <=> k = Count(r)
    BY <1>c, <1>4, <1>n, <2>2, <2>6 DEF SlotAt
  <2>9. \A k \in 0..(n - 1) : (q.slots[SlotAt(q, q.first, k)] # None) <=> (k < Count(r) + 1)
    <3> TAKE k \in 0..(n - 1)
    <3> DEFINE x == SlotAt(r, r.first, k)
    <3>1. /\ SlotAt(q, q.first, k) = x /\ x \in 0..(n - 1) /\ (x = nxt <=> k = Count(r))
          /\ (r.slots[x] # None <=> k < Count(r))
      BY <1>s, <2>8
    <3> HIDE DEF x
    <3>2. CASE k = Count(r)
      BY <3>1, <3>2, <1>n, <2>3, <2>4
    <3>3. CASE k # Count(r)
      <4>1. q.slots[x] = r.slots[x]
        BY <3>1, <3>3, <2>4
      <4>2. QED
        BY <4>1, <3>1, <3>3, <1>n
    <3>4. QED
      BY <3>2, <3>3
  <2>10. SoundRing(q, T)
    <3>1. /\ q.size = n /\ q.first \in 0..(n - 1) /\ q.last \in 0..(n - 1)
          /\ q = [size |-> q.size, slots |-> q.slots, first |-> q.first, last |-> q.last]
          /\ Count(r) + 1 \in Nat /\ n \in Nat \ {0}
      BY <1>n, <2>2, <2>3
    <3>2. q.slots \in [0..(n - 1) -> T \union {None}]
      BY <2>4
    <3>3. QED
      BY <3>1, <3>2, <2>5, <2>7, <2>9, MakesSound
  <2>11. \A k \in 1..(Count(r) + 1) : s[k] = q.slots[SlotAt(q, q.first, k - 1)]
    <3> TAKE k \in 1..(Count(r) + 1)
    <3>1. k - 1 \in 0..(n - 1)
      BY <1>c, <1>4, <1>n, <2>6
    <3>2. CASE k = Count(r) + 1
      <4>1. k - 1 = Count(r)
        BY <3>2, <1>n
      <4>2. SlotAt(q, q.first, k - 1) = nxt
        BY <4>1, <3>1, <2>8
      <4>3. QED
        BY <4>2, <3>2, <1>t, <2>4
    <3>3. CASE k # Count(r) + 1
      <4>1. k \in 1..Count(r) /\ k - 1 # Count(r)
        BY <3>3, <1>n
      <4>2. QED
        BY <4>1, <3>1, <1>t, <2>4, <2>8
    <3>4. QED
      BY <3>2, <3>3
  <2>12. QED
    BY <1>1, <1>2, <2>7, <2>10, <2>11 DEF s
<1>5. CASE ~IsEmpty(r) /\ nxt = r.first
  <2>1. q = [size |-> 2 * n, slots |-> [Moved(n, r.slots, r.first) EXCEPT ![r.first] = t],
             first |-> n + r.first, last |-> r.first]
    BY <1>1, <1>5, <1>r, <1>n, EmitOf
  <2>m. PICK mv : mv = Moved(n, r.slots, r.first)
    OBVIOUS
  <2>2. /\ q.size = 2 * n /\ q.slots = [mv EXCEPT ![r.first] = t]
        /\ q.first = n + r.first /\ q.last = r.first
        /\ q = [size |-> q.size, slots |-> q.slots, first |-> q.first, last |-> q.last]
    BY <2>1, <2>m, RingFields
  <2>3. /\ 2 * n \in Nat \ {0} /\ n + r.first \in 0..(2 * n - 1) /\ r.first \in 0..(2 * n - 1)
        /\ t # None
    BY <1>n
  <2>4. /\ q.slots \in [0..(2 * n - 1) -> T \union {None}]
        /\ q.slots[r.first] = t
        /\ \A i \in 0..(2 * n - 1) : i # r.first =>
              q.slots[i] = IF i < r.first THEN r.slots[i]
                           ELSE IF i >= n + r.first THEN r.slots[i - n] ELSE None
    <3>1. \A i \in 0..(2 * n - 1) :
             /\ i < r.first => r.slots[i] \in T \union {None}
             /\ i >= n + r.first => r.slots[i - n] \in T \union {None}
      <4> TAKE i \in 0..(2 * n - 1)
      <4>1. i < r.first => i \in 0..(n - 1)
        BY <1>n
      <4>2. i >= n + r.first => i - n \in 0..(n - 1)
        BY <1>n
      <4>3. QED
        BY <4>1, <4>2, <1>s
    <3>2. /\ mv \in [0..(2 * n - 1) -> T \union {None}]
          /\ \A i \in 0..(2 * n - 1) :
                mv[i] = IF i < r.first THEN r.slots[i]
                        ELSE IF i >= n + r.first THEN r.slots[i - n] ELSE None
      BY <3>1, <2>m DEF Moved
    <3>3. QED
      BY <3>2, <2>2, <2>3
  <2>5. ~IsEmpty(q)
    <3>0. n + r.first # r.first /\ ~(n + r.first < r.first) /\ (n + r.first) - n = r.first
      BY <1>n
    <3>1. q.slots[n + r.first] = IF n + r.first < r.first THEN r.slots[n + r.first]
                                 ELSE IF n + r.first >= n + r.first THEN r.slots[(n + r.first) - n]
                                 ELSE None
      BY <3>0, <2>3, <2>4
    <3>3. n + r.first >= n + r.first
      BY <1>n
    <3>4. q.slots[n + r.first] = r.slots[r.first]
      BY <3>0, <3>1, <3>3
    <3>5. QED
      BY <3>4, <1>5, <2>2 DEF IsEmpty
  <2>6. Distance(q) = n /\ Distance(r) = n - 1
    <3>1. Distance(q) = n
      BY <1>n, <2>2 DEF Distance
    <3>2. Distance(r) = n - 1
      BY <1>5, <1>n DEF Distance
    <3>3. QED
      BY <3>1, <3>2
  <2>7. Count(q) = n + 1 /\ Count(r) = n
    BY <1>c, <1>5, <1>n, <2>5, <2>6 DEF Count
  <2>8. \A k \in 0..(2 * n - 1) :
           /\ SlotAt(q, q.first, k) \in 0..(2 * n - 1)
           /\ SlotAt(q, q.first, k) = r.first <=> k = n
           /\ k < n => q.slots[SlotAt(q, q.first, k)] = r.slots[SlotAt(r, r.first, k)]
           /\ k > n => q.slots[SlotAt(q, q.first, k)] = None
    <3> TAKE k \in 0..(2 * n - 1)
    <3>1. /\ SlotAt(q, q.first, k) \in 0..(2 * n - 1)
          /\ SlotAt(q, q.first, k) = r.first <=> k = n
      BY <1>n, <2>2 DEF SlotAt
    <3>2. ASSUME k < n
          PROVE  \/ /\ SlotAt(q, q.first, k) >= n + r.first
                    /\ SlotAt(q, q.first, k) - n = SlotAt(r, r.first, k)
                 \/ /\ SlotAt(q, q.first, k) < r.first
                    /\ SlotAt(q, q.first, k) = SlotAt(r, r.first, k)
      BY <3>2, <1>n, <2>2 DEF SlotAt
    <3>3. ASSUME k > n
          PROVE  SlotAt(q, q.first, k) > r.first /\ SlotAt(q, q.first, k) < n + r.first
      BY <3>3, <1>n, <2>2 DEF SlotAt
    <3>4. SlotAt(r, r.first, k) \in Int
      BY <1>n DEF SlotAt
    <3>5. QED
      <4> DEFINE x == SlotAt(q, q.first, k)
      <4> HIDE DEF x
      <4>1. ASSUME k < n
            PROVE  q.slots[x] = r.slots[SlotAt(r, r.first, k)]
        <5>1. x \in 0..(2 * n - 1) /\ x # r.first
          BY <4>1, <3>1, <1>n DEF x
        <5>2. q.slots[x] = IF x < r.first THEN r.slots[x]
                           ELSE IF x >= n + r.first THEN r.slots[x - n] ELSE None
          BY <5>1, <2>4
        <5>3. \/ x >= n + r.first /\ x - n = SlotAt(r, r.first, k)
              \/ x < r.first /\ x = SlotAt(r, r.first, k)
          BY <4>1, <3>2 DEF x
        <5>4. QED
          BY <5>1, <5>2, <5>3, <1>n
      <4>2. ASSUME k > n
            PROVE  q.slots[x] = None
        <5>1. x \in 0..(2 * n - 1) /\ x # r.first /\ x > r.first /\ x < n + r.first
          BY <4>2, <3>1, <3>3, <1>n DEF x
        <5>2. q.slots[x] = IF x < r.first THEN r.slots[x]
                           ELSE IF x >= n + r.first THEN r.slots[x - n] ELSE None
          BY <5>1, <2>4
        <5>3. QED
          BY <5>1, <5>2, <1>n
      <4>3. QED
        BY <3>1, <4>1, <4>2 DEF x
  <2>9. \A k \in 0..(2 * n - 1) : (q.slots[SlotAt(q, q.first, k)] # None) <=> (k < n + 1)
    <3> TAKE k \in 0..(2 * n - 1)
    <3>1. CASE k < n
      <4>1. k \in 0..(n - 1)
        BY <3>1, <1>n
      <4>2. q.slots[SlotAt(q, q.first, k)] = r.slots[SlotAt(r, r.first, k)]
        BY <3>1, <2>8
      <4>3. r.slots[SlotAt(r, r.first, k)] # None <=> k < n
        BY <4>1, <1>s, <2>7
      <4>4. QED
        BY <4>2, <4>3, <3>1, <1>n
    <3>2. CASE k = n
      <4>1. SlotAt(q, q.first, k) = r.first
        BY <3>2, <2>8
      <4>2. QED
        BY <4>1, <3>2, <1>n, <2>3, <2>4
    <3>3. CASE k > n
      BY <3>3, <1>n, <2>8
    <3>4. QED
      BY <3>1, <3>2, <3>3, <1>n
  <2>10. SoundRing(q, T)
    <3>1. /\ q.size = 2 * n /\ q.first \in 0..(2 * n - 1) /\ q.last \in 0..(2 * n - 1)
          /\ q = [size |-> q.size, slots |-> q.slots, first |-> q.first, last |-> q.last]
          /\ n + 1 \in Nat /\ 2 * n \in Nat \ {0}
      BY <1>n, <2>2, <2>3
    <3>2. q.slots \in [0..(2 * n - 1) -> T \union {None}]
      BY <2>4
    <3>3. QED
      BY <3>1, <3>2, <2>5, <2>7, <2>9, MakesSound
  <2>11. \A k \in 1..(Count(r) + 1) : s[k] = q.slots[SlotAt(q, q.first, k - 1)]
    <3> TAKE k \in 1..(Count(r) + 1)
    <3>1. k - 1 \in 0..(2 * n - 1) /\ n \in Int
      BY <1>n, <2>7
    <3>2. CASE k = Count(r) + 1
      <4>1. k - 1 = n
        BY <3>1, <3>2, <2>7
      <4>2. SlotAt(q, q.first, k - 1) = r.first
        BY <4>1, <3>1, <2>8
      <4>3. QED
        BY <4>2, <3>2, <1>t, <2>4
    <3>3. CASE k # Count(r) + 1
      <4>1. k \in 1..Count(r) /\ k - 1 < n
        BY <3>3, <2>7, <1>n
      <4>2. QED
        BY <4>1, <3>1, <1>t, <2>8
    <3>4. QED
      BY <3>2, <3>3
  <2>12. QED
    BY <1>1, <1>2, <2>7, <2>10, <2>11 DEF s
<1>6. QED
  BY <1>3, <1>4, <1>5

(* A buffer that is not empty has a token in its last slot.                 *)
LEMMA LastOccupied ==
    ASSUME NEW T, NEW r, SoundRing(r, T), None \notin T, ~IsEmpty(r)
    PROVE  r.slots[r.last] # None
<1>1. /\ r.size \in Nat \ {0} /\ r.first \in 0..(r.size - 1) /\ r.last \in 0..(r.size - 1)
      /\ Distance(r) \in 0..(r.size - 1)
  BY RingFacts
<1>2. SlotAt(r, r.first, Distance(r)) = r.last /\ Distance(r) < Count(r)
  BY <1>1 DEF SlotAt, Distance, Count
<1>3. QED
  BY <1>1, <1>2 DEF SoundRing

(* A new buffer stands for no token.                                        *)
LEMMA NewRingSound ==
    ASSUME NEW T, NEW n \in Nat \ {0}, None \notin T
    PROVE  SoundRing(NewRing(n), T) /\ Contents(NewRing(n)) = <<>> /\ Count(NewRing(n)) = 0
<1>1. PICK r : r = NewRing(n)
  OBVIOUS
<1>2. /\ r.size = n /\ r.first = 0 /\ r.last = 0 /\ r.slots = [i \in 0..(n - 1) |-> None]
      /\ r = [size |-> r.size, slots |-> r.slots, first |-> r.first, last |-> r.last]
  BY <1>1 DEF NewRing
<1>3. 0 \in 0..(n - 1) /\ \A i \in 0..(n - 1) : r.slots[i] = None
  BY <1>2
<1>4. IsEmpty(r) /\ Count(r) = 0
  BY <1>2, <1>3 DEF IsEmpty, Count
<1>5. \A k \in 0..(n - 1) : SlotAt(r, r.first, k) = k
  BY <1>2 DEF SlotAt
<1>6. r.slots \in [0..(n - 1) -> T \union {None}]
  BY <1>2
<1>7. \A k \in 0..(n - 1) : (r.slots[SlotAt(r, r.first, k)] # None) <=> (k < 0)
  BY <1>3, <1>5
<1>8. SoundRing(r, T)
  BY <1>2, <1>3, <1>4, <1>6, <1>7 DEF SoundRing
<1>9. QED
  BY <1>1, <1>4, <1>8, ContentsType

---------------------------------------------------------------------------
(* Steps of the buffer in the lexer.                                        *)

(* `q` is `r` with `k` tokens more at its end.                              *)
Longer(r, q, k) ==
    /\ SoundRing(q, Token)
    /\ Count(q) = Count(r) + k
    /\ \A i \in 1..Count(r) : Contents(q)[i] = Contents(r)[i]

LEMMA EmitOnce ==
    ASSUME NEW r, SoundRing(r, Token), NEW t \in Token
    PROVE  Longer(r, Emit(r, t), 1)
<1>1. None \notin Token
  BY NoneAssumption
<1>2. /\ SoundRing(Emit(r, t), Token)
      /\ Contents(Emit(r, t)) = Append(Contents(r), t)
      /\ Count(Emit(r, t)) = Count(r) + 1
  BY <1>1, EmitAppends
<1>3. Contents(r) \in Seq(Token) /\ Len(Contents(r)) = Count(r)
  BY <1>1, ContentsType
<1>4. \A i \in 1..Count(r) : Append(Contents(r), t)[i] = Contents(r)[i]
  BY <1>3, AppendProperties
<1>5. QED
  BY <1>2, <1>4 DEF Longer

LEMMA LongerTwice ==
    ASSUME NEW r, NEW q, NEW p, NEW k \in Nat, NEW l \in Nat, SoundRing(r, Token),
           Longer(r, q, k), Longer(q, p, l)
    PROVE  Longer(r, p, k + l)
<1>1. Count(r) \in Nat /\ Count(q) \in Nat
  BY NoneAssumption, RingFacts DEF Longer
<1>2. QED
  BY <1>1 DEF Longer

LEMMA EmitMore ==
    ASSUME NEW r, SoundRing(r, Token), NEW t \in Token, NEW u \in Token, NEW v \in Token
    PROVE  /\ Longer(r, Emit(Emit(r, t), u), 2)
           /\ Longer(r, Emit(Emit(Emit(r, t), u), v), 3)
<1>1. Longer(r, Emit(r, t), 1)
  BY EmitOnce
<1>2. SoundRing(Emit(r, t), Token) /\ Longer(Emit(r, t), Emit(Emit(r, t), u), 1)
  BY <1>1, EmitOnce DEF Longer
<1>3. Longer(r, Emit(Emit(r, t), u), 1 + 1)
  BY <1>1, <1>2, 1 \in Nat, LongerTwice
<1>4. Longer(Emit(Emit(r, t), u), Emit(Emit(Emit(r, t), u), v), 1)
  BY <1>2, EmitOnce DEF Longer
<1>5. Longer(r, Emit(Emit(Emit(r, t), u), v), (1 + 1) + 1)
  BY <1>3, <1>4, 1 \in Nat, 1 + 1 \in Nat, LongerTwice
<1>6. QED
  BY <1>3, <1>5

(* What goes on in a step, as the queue sees it.                            *)
QueueStep == Fifo!Put \/ Fifo!Get \/ UNCHANGED Contents(ring)

LEMMA LongerPuts ==
    ASSUME SoundRing(ring, Token), NEW k \in Nat \ {0}, Longer(ring, ring', k)
    PROVE  Fifo!Put
<1>1. Count(ring) \in Nat /\ Len(Contents(ring)) = Count(ring) /\ Len(Contents(ring')) = Count(ring')
  BY NoneAssumption, RingFacts, ContentsType DEF Longer
<1>2. QED
  BY <1>1 DEF Longer, Fifo!Put

---------------------------------------------------------------------------
(* The inductive invariant.                                                 *)

(* What is read ahead has a text that the lexer can measure.                *)
ReadOK == /\ ahead.type = "WS" => ahead.text \in WsTexts
          /\ cur \in Token

(* The backlog: a call that is about to take a token has one; and while a   *)
(* block is open, there is one more token than the call takes, from the one *)
(* that opened the block.                                                   *)
BacklogOK ==
    /\ pc \in {"dedenting", "take"} => Count(ring) >= 1
    /\ pc # "failed" /\ indents # <<>> =>
          Count(ring) >= (IF pc \in {"dedenting", "take"} THEN 2 ELSE 1)
    /\ pc = "closing" => indents # <<>>

IInv == TypeOK /\ IndentsOK /\ ReadOK /\ BacklogOK /\ OnlyKnownFaults

(* A token made up.                                                         *)
LEMMA MadeUp ==
    ASSUME NEW type
    PROVE  /\ MadeToken(type).type = type /\ MadeToken(type).pos = 0
           /\ MadeToken(type).gap = FALSE
           /\ type \in Types => MadeToken(type) \in Token
<1>1. PICK t : t = MadeToken(type)
  OBVIOUS
<1>2. t = [type |-> type, text |-> <<>>, pos |-> 0, gap |-> FALSE]
  BY <1>1 DEF MadeToken
<1>3. t.type = type /\ t.pos = 0 /\ t.gap = FALSE
  BY <1>2
<1>4. type \in Types => t \in Token
  BY <1>2, 0 \in Nat, FALSE \in BOOLEAN DEF Token
<1>5. QED
  BY <1>1, <1>3, <1>4

(* What the input goes on with after a token.                               *)
LEMMA RawItem ==
    ASSUME NEW t \in Token, NEW n \in Nat, NEW r \in Raw(t, n)
    PROVE  /\ r \in Token /\ (r.type = "WS" => r.text \in WsTexts)
           /\ \/ r.type \in RawTypes \union {"WS"} /\ MayFollow(t, r)
              \/ r.type = "EOF" /\ (t.type \in Unmatched => SkippedLast)
           /\ r.pos = IF t.type \in Unmatched THEN t.pos ELSE t.pos + 1
           /\ t.type = "STRAY" \/ (t.type = "SKIPPED" /\ t.gap) => r.type = "EOF" \/ r.gap
           /\ r.type = "EOF" => r.gap = FALSE
<1>1. PICK next : next = IF t.type \in Unmatched THEN t.pos ELSE t.pos + 1
  OBVIOUS
<1>2. next \in Nat
  BY <1>1 DEF Token
<1>3. PICK stray : stray = (t.type = "STRAY" \/ (t.type = "SKIPPED" /\ t.gap))
  OBVIOUS
<1>4. PICK type, text :
         /\ r = Behind(t, type, text)
         /\ \/ type \in RawTypes /\ text = <<>> /\ MayFollow(t, r)
            \/ type = "WS" /\ text \in WsTexts /\ MayFollow(t, r)
            \/ type = "EOF" /\ text = <<>> /\ (t.type \in Unmatched => SkippedLast)
  BY DEF Raw
<1>5. PICK gap : gap = (type # "EOF" /\ (t.type = "STRAY" \/ (t.type = "SKIPPED" /\ t.gap)))
  OBVIOUS
<1>6. r = [type |-> type, text |-> text, pos |-> next, gap |-> gap]
  BY <1>1, <1>4, <1>5 DEF Behind
<1>7. r.type = type /\ r.text = text /\ r.pos = next /\ r.gap = gap
  BY <1>6
<1>8. RawTypes \subseteq Types /\ {"WS", "EOF"} \subseteq Types
  BY RawTypesAssumption DEF AllRawTypes, Unmatched, Types
<1>9. "WS" \notin RawTypes
  BY RawTypesAssumption DEF AllRawTypes, Unmatched
<1>10. type \in Types /\ text \in WsTexts \union {<<>>} /\ (type = "WS" => text \in WsTexts)
  BY <1>4, <1>8, <1>9
<1>11. r \in Token
  <2>1. gap \in BOOLEAN
    BY <1>5
  <2>2. QED
    BY <1>2, <1>6, <1>10, <2>1 DEF Token
<1>12. \/ r.type \in RawTypes \union {"WS"} /\ MayFollow(t, r)
       \/ r.type = "EOF" /\ (t.type \in Unmatched => SkippedLast)
  BY <1>4, <1>7
<1>13. t.type = "STRAY" \/ (t.type = "SKIPPED" /\ t.gap) => r.type = "EOF" \/ r.gap
  BY <1>5, <1>7
<1>14. r.type = "EOF" => r.gap = FALSE
  BY <1>5, <1>7
<1>15. QED
  BY <1>1, <1>7, <1>10, <1>11, <1>12, <1>13, <1>14

(* The tokens the lexer reads and makes up are tokens.                      *)
LEMMA Tokens ==
    /\ {LINE_BREAK, INDENT, DEDENT, MadeToken("EOF")} \subseteq Token
    /\ \A t \in Token, n \in Nat : \A r \in Raw(t, n) :
          r \in Token /\ (r.type = "WS" => r.text \in WsTexts)
<1>1. {LINE_BREAK, INDENT, DEDENT, MadeToken("EOF")} \subseteq Token
  BY MadeUp DEF LINE_BREAK, INDENT, DEDENT, Types
<1>2. QED
  BY <1>1, RawItem

Heards == [depth : Int, brackets : Nat, over : BOOLEAN, got : Nat,
           line : {"first", "open", "ended", "indented", "joined", "closing"}]

LEMMA HeardType ==
    ASSUME NEW h \in Heards, NEW t \in Token
    PROVE  HeardAfter(h, t) \in Heards
<1>1. /\ h.depth \in Int /\ h.brackets \in Nat /\ h.over \in BOOLEAN /\ h.got \in Nat
      /\ h.line \in {"first", "open", "ended", "indented", "joined", "closing"}
      /\ t.pos \in Nat
  BY DEF Heards, Token
<1>2. LineAfter(h, t) \in {"first", "open", "ended", "indented", "joined", "closing"}
  BY <1>1 DEF LineAfter
<1>3. QED
  BY <1>1, <1>2 DEF HeardAfter, Heards

(* The innermost block is closed.                                           *)
LEMMA IndentsPop ==
    ASSUME indents \in Seq(Nat), IndentsOK, indents # <<>>,
           indents' = SubSeq(indents, 1, Len(indents) - 1)
    PROVE  indents' \in Seq(Nat) /\ IndentsOK' /\ (Len(indents) = 1 <=> indents' = <<>>)
<1>1. Len(indents) \in Nat \ {0} /\ \A i \in 1..Len(indents) : indents[i] \in Nat
  BY EmptySeq, ElementOfSeq
<1>2. PICK n : n = Len(indents) - 1
  OBVIOUS
<1>3. /\ SubSeq(indents, 1, n) \in Seq(Nat)
      /\ Len(SubSeq(indents, 1, n)) = IF 1 <= n THEN n - 1 + 1 ELSE 0
      /\ \A i \in 1..(n - 1 + 1) : SubSeq(indents, 1, n)[i] = indents[1 + i - 1]
  <2>1. n \in Int /\ \A i \in 1..n : indents[i] \in Nat
    BY <1>1, <1>2
  <2>2. QED
    BY <2>1, 1 \in Int, SubSeqProperties
<1>4. /\ indents' \in Seq(Nat) /\ Len(indents') = n
      /\ \A i \in 1..n : indents'[i] = indents[i]
  <2>1. n - 1 + 1 = n /\ \A i \in 1..n : 1 + i - 1 = i
    BY <1>1, <1>2
  <2>2. (IF 1 <= n THEN n - 1 + 1 ELSE 0) = n
    BY <1>1, <1>2
  <2>3. QED
    BY <1>2, <1>3, <2>1, <2>2
<1>5. DOMAIN indents' = 1..n /\ DOMAIN indents = 1..(n + 1)
  BY <1>1, <1>2, <1>4, LenProperties
<1>6. IndentsOK'
  <2>1. \A i \in 1..(n + 1) : indents[i] > 0
    BY <1>5 DEF IndentsOK
  <2>2. \A i, j \in 1..(n + 1) : i < j => indents[i] < indents[j]
    BY <1>5 DEF IndentsOK
  <2>3. \A i \in 1..n : i \in 1..(n + 1)
    BY <1>1, <1>2
  <2>4. /\ \A i \in 1..n : indents'[i] > 0
        /\ \A i, j \in 1..n : i < j => indents'[i] < indents'[j]
    BY <1>4, <2>1, <2>2, <2>3
  <2>5. QED
    BY <1>5, <2>4 DEF IndentsOK
<1>7. Len(indents) = 1 <=> indents' = <<>>
  <2>1. Len(<<>>) = 0 /\ \A s \in Seq(Nat) : s # <<>> => Len(s) \in Nat \ {0}
    BY EmptySeq
  <2>2. indents' = <<>> <=> n = 0
    BY <1>4, <2>1
  <2>3. Len(indents) = 1 <=> n = 0
    BY <1>1, <1>2
  <2>4. QED
    BY <2>2, <2>3
<1>8. QED
  BY <1>4, <1>6, <1>7

(* A deeper block is opened.                                                *)
LEMMA IndentsPush ==
    ASSUME indents \in Seq(Nat), IndentsOK, NEW column \in Nat \ {0}, column > Previous,
           indents' = Append(indents, column)
    PROVE  indents' \in Seq(Nat) /\ IndentsOK' /\ indents' # <<>>
<1>1. Len(indents) \in Nat /\ \A i \in 1..Len(indents) : indents[i] \in Nat
  BY EmptySeq, ElementOfSeq
<1>2. PICK n : n = Len(indents)
  OBVIOUS
<1>3. /\ indents' \in Seq(Nat) /\ Len(indents') = n + 1
      /\ \A i \in 1..n : indents'[i] = indents[i]
      /\ indents'[n + 1] = column
  BY <1>2, AppendProperties
<1>4. DOMAIN indents' = 1..(n + 1) /\ DOMAIN indents = 1..n
  BY <1>2, <1>3, LenProperties
<1>0. /\ \A i \in 1..n : indents[i] > 0
      /\ \A i, j \in 1..n : i < j => indents[i] < indents[j]
  BY <1>4 DEF IndentsOK
<1>5. \A i \in 1..n : indents[i] < column
  <2> TAKE i \in 1..n
  <2>1. n \in Nat /\ n >= 1 /\ indents # <<>>
    BY <1>1, <1>2, EmptySeq
  <2>2. n \in 1..n
    BY <2>1
  <2>a. indents[n] \in Nat /\ indents[i] \in Nat
    BY <1>1, <1>2, <2>2
  <2>b. indents[n] < column
    BY <1>2, <2>1, <2>a DEF Previous
  <2>3. i < n => indents[i] < indents[n]
    BY <1>0, <2>2
  <2>4. QED
    <3>1. CASE i = n
      BY <3>1, <2>b
    <3>2. CASE i # n
      <4>1. indents[i] < indents[n]
        BY <3>2, <2>1, <2>3
      <4>2. QED
        BY <4>1, <2>a, <2>b
    <3>3. QED
      BY <3>1, <3>2
<1>6. IndentsOK'
  BY <1>0, <1>1, <1>2, <1>3, <1>4, <1>5 DEF IndentsOK
<1>7. QED
  BY <1>1, <1>2, <1>3, <1>6, EmptySeq

---------------------------------------------------------------------------
(* One lemma for each action.                                               *)

LEMMA TokenFields ==
    ASSUME NEW t \in Token
    PROVE  t.type \in Types /\ t.pos \in Nat
BY DEF Token

LEMMA MadeFields ==
    LINE_BREAK.type \in Types /\ INDENT.type \in Types /\ DEDENT.type \in Types
BY Tokens, TokenFields

(* What TypeOK says of all fields but the buffer and the indentations.      *)
FieldsOK ==
    /\ pc \in {"idle", "closing", "lexing", "dedenting", "take", "failed"}
    /\ read \in Nat /\ ahead \in Token /\ cur \in Token
    /\ opened \in Nat /\ indent \in Nat
    /\ last \in Types \union {"none"} /\ heard \in Heards
    /\ fault \in {"none", "AttributeError", "ValueError"}

LEMMA TypeParts ==
    /\ TypeOK => FieldsOK /\ indents \in Seq(Nat) /\ SoundRing(ring, Token) /\ Count(ring) \in Nat
    /\ FieldsOK' /\ indents' \in Seq(Nat) /\ SoundRing(ring', Token) => TypeOK'
<1>1. TypeOK => FieldsOK /\ indents \in Seq(Nat) /\ SoundRing(ring, Token)
  BY DEF TypeOK, FieldsOK, Heards
<1>2. SoundRing(ring, Token) => Count(ring) \in Nat
  BY NoneAssumption, RingFacts
<1>3. FieldsOK' /\ indents' \in Seq(Nat) /\ SoundRing(ring', Token) => TypeOK'
  BY DEF TypeOK, FieldsOK, Heards
<1>4. QED
  BY <1>1, <1>2, <1>3

LEMMA IndentsKept ==
    ASSUME IndentsOK, indents' = indents
    PROVE  IndentsOK'
BY DEF IndentsOK

LEMMA ConsumeOK ==
    ASSUME TypeOK, Consume
    PROVE  /\ cur' = ahead /\ cur' \in Token /\ read' \in Nat /\ ahead' \in Token
           /\ ahead'.type = "WS" => ahead'.text \in WsTexts
BY Tokens DEF TypeOK, Consume

(* What is left to show of a step that puts `k` tokens into the buffer.     *)
LEMMA PutStep ==
    ASSUME IInv, NEW k \in Nat \ {0}, Longer(ring, ring', k), FieldsOK', ReadOK',
           indents' \in Seq(Nat), IndentsOK', BacklogOK', OnlyKnownFaults'
    PROVE  IInv' /\ QueueStep
<1>1. SoundRing(ring, Token) /\ SoundRing(ring', Token)
  BY TypeParts DEF IInv, Longer
<1>2. Fifo!Put
  BY <1>1, LongerPuts
<1>3. TypeOK'
  BY <1>1, TypeParts
<1>4. QED
  BY <1>2, <1>3 DEF IInv, QueueStep

LEMMA CloseAtEofStep ==
    ASSUME IInv, CloseAtEof
    PROVE  IInv' /\ QueueStep
<1>i. /\ FieldsOK /\ indents \in Seq(Nat) /\ SoundRing(ring, Token) /\ Count(ring) \in Nat
      /\ IndentsOK /\ ReadOK /\ pc = "idle" /\ indents # <<>>
  BY TypeParts DEF IInv, CloseAtEof, ClosingDue
<1>1. ~IsEmpty(ring)
  BY <1>i DEF IInv, BacklogOK, Count
<1>2. EmitOne(LINE_BREAK) /\ Goto("closing") /\ UNCHANGED <<read, ahead, cur, opened, indents, indent, heard>>
  BY <1>1, <1>i, LastOccupied, NoneAssumption DEF CloseAtEof
<1>3. Longer(ring, ring', 1)
  BY <1>2, <1>i, Tokens, EmitOnce DEF EmitOne
<1>4. FieldsOK'
  BY <1>2, <1>i, MadeFields DEF FieldsOK, EmitOne, Goto
<1>5. BacklogOK'
  BY <1>2, <1>3, <1>i DEF BacklogOK, Goto, Longer
<1>6. OnlyKnownFaults'
  BY <1>2 DEF OnlyKnownFaults, Goto
<1>7. ReadOK' /\ IndentsOK' /\ indents' \in Seq(Nat)
  BY <1>2, <1>i, IndentsKept DEF ReadOK
<1>8. QED
  BY <1>3, <1>4, <1>5, <1>6, <1>7, PutStep, 1 \in Nat \ {0}

LEMMA CloseLevelStep ==
    ASSUME IInv, CloseLevel
    PROVE  IInv' /\ QueueStep
<1>i. /\ FieldsOK /\ indents \in Seq(Nat) /\ SoundRing(ring, Token) /\ Count(ring) \in Nat
      /\ IndentsOK /\ ReadOK /\ pc = "closing" /\ indents # <<>>
  BY TypeParts DEF IInv, CloseLevel, BacklogOK
<1>2. /\ EmitOne(DEDENT) /\ indents' = SubSeq(indents, 1, Len(indents) - 1)
      /\ Goto(IF Len(indents) = 1 THEN "lexing" ELSE "closing")
      /\ UNCHANGED <<read, ahead, cur, opened, indent, heard>>
  BY DEF CloseLevel
<1>3. Longer(ring, ring', 1)
  BY <1>2, <1>i, Tokens, EmitOnce DEF EmitOne
<1>4. FieldsOK'
  BY <1>2, <1>i, MadeFields DEF FieldsOK, EmitOne, Goto
<1>5. indents' \in Seq(Nat) /\ IndentsOK' /\ (Len(indents) = 1 <=> indents' = <<>>)
  BY <1>2, <1>i, IndentsPop
<1>6. BacklogOK'
  BY <1>2, <1>3, <1>5, <1>i DEF BacklogOK, Goto, Longer
<1>7. OnlyKnownFaults' /\ ReadOK'
  BY <1>2, <1>i DEF OnlyKnownFaults, Goto, ReadOK
<1>8. QED
  BY <1>3, <1>4, <1>5, <1>6, <1>7, PutStep, 1 \in Nat \ {0}

(* LexText, IncIndentLevel, DecIndentLevel and LexEof.                      *)
LEMMA LexOneStep ==
    ASSUME IInv, pc # "failed", EmitOne(ahead), Goto("take"), cur' = ahead,
           \/ Consume
           \/ UNCHANGED <<read, ahead>>,
           opened' \in Nat, indent' \in Nat, UNCHANGED <<indents, heard>>
    PROVE  IInv' /\ QueueStep
<1>i. /\ FieldsOK /\ indents \in Seq(Nat) /\ SoundRing(ring, Token) /\ Count(ring) \in Nat
      /\ IndentsOK /\ ReadOK /\ ahead \in Token /\ TypeOK
  BY TypeParts DEF IInv, FieldsOK
<1>1. Longer(ring, ring', 1)
  BY <1>i, EmitOnce DEF EmitOne
<1>2. cur' \in Token /\ read' \in Nat /\ ahead' \in Token /\ (ahead'.type = "WS" => ahead'.text \in WsTexts)
  BY <1>i, ConsumeOK DEF FieldsOK, ReadOK
<1>3. FieldsOK' /\ ReadOK'
  BY <1>2, <1>i, TokenFields DEF FieldsOK, ReadOK, EmitOne, Goto
<1>4. indents' \in Seq(Nat) /\ IndentsOK'
  BY <1>i, IndentsKept
<1>5. BacklogOK'
  BY <1>1, <1>i DEF IInv, BacklogOK, Goto, Longer
<1>6. OnlyKnownFaults'
  BY DEF OnlyKnownFaults, Goto
<1>7. QED
  BY <1>1, <1>3, <1>4, <1>5, <1>6, PutStep, 1 \in Nat \ {0}

(* What holds before an action that reads a token.                          *)
LEMMA BeforeReading ==
    ASSUME IInv
    PROVE  /\ FieldsOK /\ indents \in Seq(Nat) /\ SoundRing(ring, Token) /\ Count(ring) \in Nat
           /\ IndentsOK /\ ReadOK /\ TypeOK /\ ahead \in Token /\ cur \in Token /\ ahead.type \in Types
           /\ pc # "failed" => (indents # <<>> => Count(ring) >= 1)
<1>1. FieldsOK /\ indents \in Seq(Nat) /\ SoundRing(ring, Token) /\ Count(ring) \in Nat /\ TypeOK
  BY TypeParts DEF IInv
<1>2. ahead \in Token /\ cur \in Token /\ ahead.type \in Types
  BY <1>1, TokenFields DEF FieldsOK
<1>3. pc # "failed" => (indents # <<>> => Count(ring) >= 1)
  BY <1>1 DEF IInv, BacklogOK
<1>4. QED
  BY <1>1, <1>2, <1>3 DEF IInv

LEMMA HandleNewLineStep ==
    ASSUME IInv, HandleNewLine
    PROVE  IInv' /\ QueueStep
<1>i. /\ Consume /\ pc # "failed" /\ opened' \in Nat /\ UNCHANGED <<opened, indents, heard>>
  BY BeforeReading DEF HandleNewLine, Lexes, FieldsOK
<1>1. CASE EmitTwo(ahead, LINE_BREAK) /\ indent' = 0 /\ Goto("dedenting")
  <2>1. Longer(ring, ring', 2)
    BY <1>1, BeforeReading, Tokens, EmitMore DEF EmitTwo
  <2>2. FieldsOK' /\ ReadOK'
    BY <1>1, <1>i, BeforeReading, ConsumeOK, MadeFields DEF FieldsOK, ReadOK, EmitTwo, Goto
  <2>3. indents' \in Seq(Nat) /\ IndentsOK'
    BY <1>i, BeforeReading, IndentsKept
  <2>4. BacklogOK'
    BY <1>1, <1>i, <2>1, BeforeReading DEF BacklogOK, Goto, Longer
  <2>5. OnlyKnownFaults'
    BY <1>1 DEF OnlyKnownFaults, Goto
  <2>6. QED
    BY <2>1, <2>2, <2>3, <2>4, <2>5, PutStep, 2 \in Nat \ {0}
<1>2. CASE EmitOne(ahead) /\ Goto("take") /\ UNCHANGED indent
  <2>1. cur' = ahead /\ indent' \in Nat
    BY <1>2, <1>i, BeforeReading DEF Consume, FieldsOK
  <2>2. QED
    BY <1>2, <1>i, <2>1, LexOneStep
<1>3. QED
  BY <1>1, <1>2 DEF HandleNewLine

(* The column that whitespace reaches.                                      *)
Reached(c, x, tab) == IF x = tab THEN c + TabSize - (c % TabSize) ELSE c + 1

IsColumn(f, s, tab) ==
    f = [i \in 0..Len(s) |-> IF i = 0 THEN 0 ELSE Reached(f[i-1], s[i], tab)]

LEMMA ReachedType ==
    ASSUME NEW c \in Nat, NEW x, NEW tab
    PROVE  Reached(c, x, tab) \in Nat \ {0}
<1>1. c % 4 \in 0..3
  OBVIOUS
<1>2. c + 1 \in Nat \ {0} /\ c + 4 - (c % 4) \in Nat \ {0}
  BY <1>1
<1>3. QED
  BY <1>2 DEF Reached, TabSize

LEMMA ColumnExists ==
    ASSUME NEW s, Len(s) \in Nat, NEW tab
    PROVE  \E f : IsColumn(f, s, tab)
<1>1. PICK m \in Nat : m = Len(s)
  OBVIOUS
<1>2. PICK G \in [1..m -> [Nat -> Nat]] :
         \A i \in 1..m : \A c \in Nat : G[i][c] = Reached(c, s[i], tab)
  <2> DEFINE g == [i \in 1..m |-> [c \in Nat |-> Reached(c, s[i], tab)]]
  <2>1. \A i \in 1..m : [c \in Nat |-> Reached(c, s[i], tab)] \in [Nat -> Nat]
    BY ReachedType
  <2>2. g \in [1..m -> [Nat -> Nat]]
    BY <2>1
  <2>3. \A i \in 1..m : \A c \in Nat : g[i][c] = Reached(c, s[i], tab)
    OBVIOUS
  <2> HIDE DEF g
  <2>4. QED
    BY <2>2, <2>3
<1>3. PICK f \in [0..m -> Nat] : f[0] = 0 /\ \A i \in 1..m : f[i] = G[i][f[i-1]]
  <2>1. PICK V : V = Nat
    OBVIOUS
  <2>2. PICK z \in V, H \in [1..m -> [V -> V]] : z = 0 /\ H = G
    BY <1>2, <2>1
  <2>3. \E f \in [0..m -> V] : f[0] = z /\ \A i \in 1..m : f[i] = H[i][f[i-1]]
    BY <1>1, <2>2, StepByStep, SMTT(30)
  <2>4. QED
    BY <2>1, <2>2, <2>3
<1>4. \A i \in 0..m : f[i] = IF i = 0 THEN 0 ELSE Reached(f[i-1], s[i], tab)
  <2> TAKE i \in 0..m
  <2>1. CASE i = 0
    BY <1>3, <2>1
  <2>2. CASE i # 0
    <3>1. i \in 1..m /\ i - 1 \in 0..m
      BY <1>1, <2>2
    <3>2. f[i - 1] \in Nat /\ f[i] = G[i][f[i-1]]
      BY <1>3, <3>1
    <3>3. QED
      BY <1>2, <2>2, <3>1, <3>2
  <2>3. QED
    BY <2>1, <2>2
<1>5. f = [i \in 0..m |-> IF i = 0 THEN 0 ELSE Reached(f[i-1], s[i], tab)]
  BY <1>3, <1>4
<1>6. IsColumn(f, s, tab)
  BY <1>1, <1>5 DEF IsColumn
<1>7. QED
  BY <1>6

LEMMA ColumnPositive ==
    ASSUME NEW s, Len(s) \in Nat \ {0}, NEW tab, NEW f, IsColumn(f, s, tab)
    PROVE  f[Len(s)] \in Nat \ {0}
<1>1. PICK m \in Nat \ {0} : m = Len(s)
  OBVIOUS
<1>2. \A i \in 0..m : f[i] = IF i = 0 THEN 0 ELSE Reached(f[i-1], s[i], tab)
  BY <1>1 DEF IsColumn
<1> DEFINE Bad == {i \in 0..m : f[i] \notin Nat}
<1>3. Bad = {}
  <2> SUFFICES ASSUME Bad # {} PROVE FALSE
    OBVIOUS
  <2>1. PICK k \in Bad : \A i \in Bad : k <= i
    <3>1. Bad \in SUBSET Nat /\ Bad # {}
      BY <1>1
    <3> HIDE DEF Bad
    <3>2. QED
      BY <3>1, SmallestOf
  <2>2. k \in 0..m /\ f[k] \notin Nat
    OBVIOUS
  <2>3. k # 0
    BY <1>2, <2>2
  <2>4. k - 1 \in 0..m /\ f[k - 1] \in Nat
    BY <1>1, <2>1, <2>2, <2>3
  <2>5. f[k] = Reached(f[k-1], s[k], tab)
    BY <1>2, <2>2, <2>3
  <2>6. QED
    BY <2>2, <2>4, <2>5, ReachedType
<1>4. m \in 0..m /\ m - 1 \in 0..m /\ m # 0
  BY <1>1
<1>5. f[m - 1] \in Nat /\ f[m] = Reached(f[m-1], s[m], tab)
  BY <1>2, <1>3, <1>4
<1>6. QED
  BY <1>1, <1>5, ReachedType

(* A WS token reaches a column behind the first.                            *)
LEMMA Columns == \A text \in WsTexts : Column(text, TabSize) \in Nat \ {0}
<1> TAKE s \in WsTexts
<1>1. Len(s) \in Nat \ {0}
  <2>1. PICK S : S = {" ", "\t"}
    OBVIOUS
  <2>2. s \in Seq(S) /\ s # <<>>
    BY <2>1, TextAssumption, Zenon
  <2>3. QED
    BY <2>2, EmptySeq, LenProperties
<1> DEFINE f == CHOOSE f : IsColumn(f, s, "\t")
<1>2. IsColumn(f, s, "\t")
  <2>1. \E g : IsColumn(g, s, "\t")
    BY <1>1, ColumnExists
  <2>2. QED
    BY <2>1, Zenon
<1>3. f[Len(s)] \in Nat \ {0}
  <2> HIDE DEF f
  <2>1. QED
    BY <1>1, <1>2, ColumnPositive
<1>4. Column(s, TabSize) = f[Len(s)]
  BY Zenon DEF Column, IsColumn, Reached
<1>5. QED
  BY <1>3, <1>4

LEMMA HandleSpacesStep ==
    ASSUME IInv, HandleSpaces
    PROVE  IInv' /\ QueueStep
<1> DEFINE column == Column(ahead.text, TabSize)
<1>i. /\ Consume /\ pc # "failed" /\ ahead.type = "WS" /\ UNCHANGED <<opened, heard>> /\ opened' \in Nat
  BY BeforeReading DEF HandleSpaces, Lexes, FieldsOK
<1>c. column \in Nat \ {0}
  BY <1>i, BeforeReading, Columns DEF ReadOK
<1>k. /\ cur' = ahead /\ cur' \in Token /\ read' \in Nat /\ ahead' \in Token
      /\ ahead'.type = "WS" => ahead'.text \in WsTexts
  BY <1>i, BeforeReading, ConsumeOK
<1> HIDE DEF column
<1>1. CASE ahead'.type = "EOF" /\ Fail("ValueError") /\ UNCHANGED <<ring, last, indent, indents>>
  <2>1. FieldsOK' /\ ReadOK'
    BY <1>1, <1>i, <1>k, BeforeReading DEF FieldsOK, ReadOK, Fail
  <2>2. indents' \in Seq(Nat) /\ IndentsOK' /\ SoundRing(ring', Token) /\ TypeOK'
    BY <1>1, <2>1, BeforeReading, IndentsKept, TypeParts
  <2>3. BacklogOK' /\ OnlyKnownFaults'
    BY <1>1, <1>i, <1>k DEF BacklogOK, OnlyKnownFaults, Fail
  <2>4. UNCHANGED Contents(ring)
    BY <1>1
  <2>5. QED
    BY <2>1, <2>2, <2>3, <2>4 DEF IInv, QueueStep
<1>2. CASE /\ Deeper(column)
           /\ ring' = Emit(Emit(Emit(ring, LINE_BREAK), INDENT), ahead)
           /\ last' = "WS" /\ indents' = Append(indents, column)
           /\ indent' = column /\ Goto("take")
  <2>1. Longer(ring, ring', 3)
    BY <1>2, BeforeReading, Tokens, EmitMore
  <2>2. FieldsOK' /\ ReadOK'
    BY <1>2, <1>i, <1>k, <1>c, BeforeReading DEF FieldsOK, ReadOK, Goto, Types
  <2>3. indents' \in Seq(Nat) /\ IndentsOK' /\ indents' # <<>>
    BY <1>2, <1>c, BeforeReading, IndentsPush DEF Deeper
  <2>4. BacklogOK'
    BY <1>2, <2>1, BeforeReading DEF BacklogOK, Goto, Longer
  <2>5. OnlyKnownFaults'
    BY <1>2 DEF OnlyKnownFaults, Goto
  <2>6. QED
    BY <2>1, <2>2, <2>3, <2>4, <2>5, PutStep, 3 \in Nat \ {0}
<1>3. CASE /\ EmitOne(LINE_BREAK) /\ indent' = column /\ Goto("dedenting")
           /\ UNCHANGED indents
  <2>1. Longer(ring, ring', 1)
    BY <1>3, BeforeReading, Tokens, EmitOnce DEF EmitOne
  <2>2. FieldsOK' /\ ReadOK'
    BY <1>3, <1>i, <1>k, <1>c, BeforeReading, MadeFields DEF FieldsOK, ReadOK, EmitOne, Goto
  <2>3. indents' \in Seq(Nat) /\ IndentsOK'
    BY <1>3, BeforeReading, IndentsKept
  <2>4. BacklogOK'
    BY <1>3, <1>i, <2>1, BeforeReading DEF BacklogOK, Goto, Longer
  <2>5. OnlyKnownFaults'
    BY <1>3 DEF OnlyKnownFaults, Goto
  <2>6. QED
    BY <2>1, <2>2, <2>3, <2>4, <2>5, PutStep, 1 \in Nat \ {0}
<1>4. CASE EmitOne(ahead) /\ Goto("take") /\ UNCHANGED <<indents, indent>>
  <2>1. indent' \in Nat
    BY <1>4, BeforeReading DEF FieldsOK
  <2>2. QED
    BY <1>4, <1>i, <1>k, <2>1, LexOneStep
<1>5. QED
  BY <1>1, <1>2, <1>3, <1>4 DEF HandleSpaces, column

LEMMA DedentStep ==
    ASSUME IInv, Dedent
    PROVE  IInv' /\ QueueStep
<1>i. /\ pc = "dedenting" /\ EmitOne(DEDENT) /\ indents' = SubSeq(indents, 1, Len(indents) - 1)
      /\ UNCHANGED <<pc, fault, read, ahead, cur, opened, indent, heard>>
  BY DEF Dedent
<1>1. indents # <<>>
  <2>1. Previous > indent /\ indent \in Nat
    BY BeforeReading DEF Dedent, FieldsOK
  <2>2. QED
    BY <2>1 DEF Previous
<1>2. Longer(ring, ring', 1)
  BY <1>i, BeforeReading, Tokens, EmitOnce DEF EmitOne
<1>3. FieldsOK' /\ ReadOK'
  BY <1>i, BeforeReading, MadeFields DEF FieldsOK, ReadOK, EmitOne
<1>4. indents' \in Seq(Nat) /\ IndentsOK'
  BY <1>i, <1>1, BeforeReading, IndentsPop
<1>5. BacklogOK'
  <2>1. Count(ring) >= 2 /\ Count(ring) \in Nat
    BY <1>i, <1>1, BeforeReading DEF IInv, BacklogOK
  <2>2. QED
    BY <1>i, <1>2, <2>1 DEF BacklogOK, Longer
<1>6. OnlyKnownFaults'
  BY <1>i DEF OnlyKnownFaults
<1>7. QED
  BY <1>2, <1>3, <1>4, <1>5, <1>6, PutStep, 1 \in Nat \ {0}

LEMMA DedentedStep ==
    ASSUME IInv, Dedented
    PROVE  IInv' /\ QueueStep
<1>i. /\ pc = "dedenting" /\ Goto("take")
      /\ UNCHANGED <<read, ahead, cur, opened, indents, indent, heard>>
  BY DEF Dedented
<1>1. indents' \in Seq(Nat) /\ IndentsOK' /\ OnlyKnownFaults'
  BY <1>i, BeforeReading, IndentsKept DEF OnlyKnownFaults, Goto
<1>2. CASE EmitOne(cur)
  <2>1. Longer(ring, ring', 1)
    BY <1>2, BeforeReading, EmitOnce DEF EmitOne
  <2>2. FieldsOK' /\ ReadOK'
    BY <1>2, <1>i, BeforeReading, TokenFields DEF FieldsOK, ReadOK, EmitOne, Goto
  <2>3. BacklogOK'
    BY <1>i, <2>1, BeforeReading DEF IInv, BacklogOK, Goto, Longer
  <2>4. QED
    BY <1>1, <2>1, <2>2, <2>3, PutStep, 1 \in Nat \ {0}
<1>3. CASE UNCHANGED <<ring, last>>
  <2>1. FieldsOK' /\ ReadOK' /\ SoundRing(ring', Token)
    BY <1>3, <1>i, BeforeReading DEF FieldsOK, ReadOK, Goto
  <2>2. TypeOK'
    BY <1>1, <2>1, TypeParts
  <2>3. BacklogOK'
    BY <1>i, <1>3, BeforeReading DEF IInv, BacklogOK, Goto
  <2>4. UNCHANGED Contents(ring)
    BY <1>3
  <2>5. QED
    BY <1>1, <2>1, <2>2, <2>3, <2>4 DEF IInv, QueueStep
<1>4. QED
  BY <1>2, <1>3 DEF Dedented

LEMMA SkipCharStep ==
    ASSUME IInv, SkipChar
    PROVE  IInv' /\ QueueStep
<1>i. /\ pc # "failed" /\ Consume /\ Goto("lexing")
      /\ UNCHANGED <<opened, indents, indent, ring, last, heard>>
  BY DEF SkipChar, Lexes
<1>1. indents' \in Seq(Nat) /\ IndentsOK' /\ OnlyKnownFaults'
  BY <1>i, BeforeReading, IndentsKept DEF OnlyKnownFaults, Goto
<1>2. FieldsOK' /\ ReadOK' /\ SoundRing(ring', Token)
  BY <1>i, BeforeReading, ConsumeOK DEF FieldsOK, ReadOK, Goto
<1>3. TypeOK'
  BY <1>1, <1>2, TypeParts
<1>4. BacklogOK'
  BY <1>i, BeforeReading DEF BacklogOK, Goto
<1>5. UNCHANGED Contents(ring)
  BY <1>i
<1>6. QED
  BY <1>1, <1>2, <1>3, <1>4, <1>5 DEF IInv, QueueStep

LEMMA TakeTokenStep ==
    ASSUME IInv, TakeToken
    PROVE  IInv' /\ QueueStep
<1>i. /\ pc = "take" /\ ring' = Take(ring) /\ Goto("idle")
      /\ heard' = HeardAfter(heard, IF IsEmpty(ring) THEN cur ELSE First(ring))
      /\ UNCHANGED <<read, ahead, cur, opened, indents, indent, last>>
  BY DEF TakeToken
<1>1. ~IsEmpty(ring)
  BY <1>i, BeforeReading DEF IInv, BacklogOK, Count
<1>2. /\ SoundRing(ring', Token) /\ Contents(ring') = Tail(Contents(ring))
      /\ First(ring) \in Token /\ Count(ring') = Count(ring) - 1
  BY <1>i, <1>1, BeforeReading, TakeTail, NoneAssumption
<1>3. Fifo!Get
  <2>1. Contents(ring) # <<>>
    BY <1>1, BeforeReading, ContentsType, NoneAssumption
  <2>2. QED
    BY <1>2, <2>1 DEF Fifo!Get
<1>4. heard' \in Heards
  BY <1>i, <1>1, <1>2, BeforeReading, HeardType DEF FieldsOK
<1>5. FieldsOK' /\ ReadOK'
  BY <1>i, <1>4, BeforeReading DEF FieldsOK, ReadOK, Goto
<1>6. indents' \in Seq(Nat) /\ IndentsOK' /\ OnlyKnownFaults'
  BY <1>i, BeforeReading, IndentsKept DEF OnlyKnownFaults, Goto
<1>7. TypeOK'
  BY <1>2, <1>5, <1>6, TypeParts
<1>8. BacklogOK'
  BY <1>i, <1>2, BeforeReading DEF IInv, BacklogOK, Goto
<1>9. QED
  BY <1>3, <1>5, <1>6, <1>7, <1>8 DEF IInv, QueueStep

---------------------------------------------------------------------------
(* Every step keeps the invariant, and moves tokens as a queue does.        *)
LEMMA NextStep ==
    ASSUME IInv, Next
    PROVE  IInv' /\ QueueStep
<1>1. ASSUME LexText \/ IncIndentLevel \/ DecIndentLevel \/ LexEof
      PROVE  IInv' /\ QueueStep
  <2>i. /\ pc # "failed" /\ FieldsOK
        /\ EmitOne(ahead) /\ Goto("take") /\ cur' = ahead /\ UNCHANGED <<indents, indent, heard>>
        /\ Consume \/ UNCHANGED <<read, ahead>>
        /\ opened' \in {opened, opened + 1} \/ (opened # 0 /\ opened' = opened - 1)
    BY <1>1, BeforeReading
       DEF LexText, IncIndentLevel, DecIndentLevel, LexEof, Lexes, Consume
  <2>1. opened' \in Nat /\ indent' \in Nat
    BY <2>i DEF FieldsOK
  <2>2. QED
    BY <2>i, <2>1, LexOneStep
<1>2. CASE CloseAtEof
  BY <1>2, CloseAtEofStep
<1>3. CASE CloseLevel
  BY <1>3, CloseLevelStep
<1>4. CASE HandleNewLine
  BY <1>4, HandleNewLineStep
<1>5. CASE HandleSpaces
  BY <1>5, HandleSpacesStep
<1>6. CASE Dedent
  BY <1>6, DedentStep
<1>7. CASE Dedented
  BY <1>7, DedentedStep
<1>8. CASE SkipChar
  BY <1>8, SkipCharStep
<1>9. CASE TakeToken
  BY <1>9, TakeTokenStep
<1>10. QED
  BY <1>1, <1>2, <1>3, <1>4, <1>5, <1>6, <1>7, <1>8, <1>9 DEF Next, NextToken

LEMMA InitIInv ==
    ASSUME Init
    PROVE  IInv /\ Contents(ring) = <<>>
<1>1. SoundRing(ring, Token) /\ Contents(ring) = <<>> /\ Count(ring) = 0
  BY BoundAssumption, NoneAssumption, NewRingSound DEF Init
<1>2. ahead \in Token /\ (ahead.type = "WS" => ahead.text \in WsTexts) /\ cur \in Token
  BY Tokens, 0 \in Nat DEF Init
<1>3. heard \in Heards
  BY DEF Init, NothingHeard, Heards
<1>4. indents = <<>> /\ indents \in Seq(Nat)
  BY EmptySeq DEF Init
<1>5. TypeOK
  BY <1>1, <1>2, <1>3, <1>4 DEF Init, TypeOK, Heards
<1>6. IndentsOK
  BY <1>4 DEF IndentsOK
<1>7. BacklogOK /\ OnlyKnownFaults /\ ReadOK
  BY <1>2, <1>4 DEF Init, BacklogOK, OnlyKnownFaults, ReadOK
<1>8. QED
  BY <1>1, <1>5, <1>6, <1>7 DEF IInv

LEMMA StutterIInv ==
    ASSUME IInv, UNCHANGED vars
    PROVE  IInv' /\ UNCHANGED Contents(ring)
<1>1. TypeOK'
  BY DEF IInv, TypeOK, vars
<1>2. IndentsOK' /\ ReadOK'
  BY DEF IInv, IndentsOK, ReadOK, vars
<1>3. BacklogOK' /\ OnlyKnownFaults'
  BY DEF IInv, BacklogOK, OnlyKnownFaults, vars
<1>4. UNCHANGED Contents(ring)
  BY DEF vars
<1>5. QED
  BY <1>1, <1>2, <1>3, <1>4 DEF IInv

(* The inductive invariant holds in every state the lexer can be in.        *)
THEOREM Invariance == Spec => []IInv
<1>1. Init => IInv
  BY InitIInv
<1>2. IInv /\ [Next]_vars => IInv'
  BY NextStep, StutterIInv
<1>3. QED
  BY <1>1, <1>2, PTL DEF Spec

(* Every field keeps its range, and the buffer is sound however it wraps    *)
(* and grows (emitToken, nextToken).                                        *)
THEOREM Typing == Spec => []TypeOK
<1>1. IInv => TypeOK
  BY DEF IInv
<1>2. QED
  BY <1>1, Invariance, PTL

(* The indentations of the open blocks increase (process_new_line).         *)
THEOREM Indents == Spec => []IndentsOK
<1>1. IInv => IndentsOK
  BY DEF IInv
<1>2. QED
  BY <1>1, Invariance, PTL

(* Only whitespace at the end of the input raises an exception: the slot    *)
(* whose type nextToken reads before EOF holds a token, because an open     *)
(* block leaves a token in excess.                                          *)
THEOREM KnownFaults == Spec => []OnlyKnownFaults
<1>1. IInv => OnlyKnownFaults
  BY DEF IInv
<1>2. QED
  BY <1>1, Invariance, PTL

(* The circular buffer is a queue, for every size it begins with and every  *)
(* number of tokens (emitToken, nextToken).                                 *)
THEOREM Refinement == Spec => RingIsQueue
<1>1. Init => Contents(ring) = <<>>
  BY InitIInv
<1>2. IInv /\ [Next]_vars => [Fifo!Put \/ Fifo!Get]_(Contents(ring))
  BY NextStep, StutterIInv DEF QueueStep
<1>3. QED
  BY <1>1, <1>2, Invariance, PTL DEF Spec, RingIsQueue, Fifo!Spec

---------------------------------------------------------------------------
(* The order of the raw tokens.                                             *)

(* The raw tokens in the queue `q` follow the one with ordinal `p`, and the *)
(* one with ordinal `a` comes behind them.                                  *)
InOrder(q, p, a) ==
    /\ \A i \in 1..Len(OnlyIn(q, RawTokens)) : OnlyIn(q, RawTokens)[i].pos = p + i
    /\ a = p + Len(OnlyIn(q, RawTokens)) + 1

(* An EOF is in the queue only at the end of the input, and no raw token is *)
(* behind it.                                                               *)
EofsLast(q, e) ==
    \A i \in 1..Len(q) : q[i].type = "EOF" =>
        e /\ \A j \in (i + 1)..Len(q) : q[j] \notin RawTokens

LEMMA RawsType ==
    ASSUME NEW q \in Seq(Token)
    PROVE  /\ OnlyIn(q, RawTokens) \in Seq(RawTokens)
           /\ Len(OnlyIn(q, RawTokens)) \in Nat
<1>1. Token \cap RawTokens = RawTokens
  BY DEF RawTokens
<1>2. OnlyIn(q, RawTokens) \in Seq(Token \cap RawTokens)
  BY OnlyInType
<1>3. QED
  BY <1>1, <1>2, LenProperties

LEMMA PutMade ==
    ASSUME NEW q \in Seq(Token), NEW p \in Nat, NEW a \in Nat, NEW e \in BOOLEAN,
           NEW t \in Token, t.pos = 0 \/ (t.type = "EOF" /\ e), t.type = "EOF" => e
    PROVE  /\ InOrder(q, p, a) => InOrder(Append(q, t), p, a)
           /\ EofsLast(q, e) => EofsLast(Append(q, t), e)
<1>1. t \notin RawTokens
  BY DEF RawTokens
<1>2. OnlyIn(Append(q, t), RawTokens) = OnlyIn(q, RawTokens)
  BY <1>1, OnlyInAppend
<1>3. /\ Len(Append(q, t)) = Len(q) + 1 /\ Len(q) \in Nat
      /\ \A i \in 1..Len(q) : Append(q, t)[i] = q[i]
      /\ Append(q, t)[Len(q) + 1] = t
  BY AppendLast, LenProperties
<1>4. ASSUME EofsLast(q, e) PROVE EofsLast(Append(q, t), e)
  <2> SUFFICES ASSUME NEW i \in 1..Len(Append(q, t)), Append(q, t)[i].type = "EOF"
               PROVE  e /\ \A j \in (i + 1)..Len(Append(q, t)) : Append(q, t)[j] \notin RawTokens
    BY DEF EofsLast
  <2>1. CASE i \in 1..Len(q)
    <3>1. e /\ \A j \in (i + 1)..Len(q) : q[j] \notin RawTokens
      BY <1>3, <1>4, <2>1 DEF EofsLast
    <3>2. ASSUME NEW j \in (i + 1)..Len(Append(q, t)) PROVE Append(q, t)[j] \notin RawTokens
      <4>1. (j \in (i + 1)..Len(q) /\ j \in 1..Len(q)) \/ j = Len(q) + 1
        BY <1>3, <2>1
      <4>2. QED
        BY <1>1, <1>3, <3>1, <4>1
    <3>3. QED
      BY <3>1, <3>2
  <2>2. CASE i = Len(q) + 1
    BY <1>3, <2>2
  <2>3. QED
    BY <1>3, <2>1, <2>2
<1>5. QED
  BY <1>2, <1>4 DEF InOrder

(* Before the end of the input there is no EOF.                             *)
LEMMA NoEofs ==
    ASSUME NEW q, EofsLast(q, FALSE)
    PROVE  \A e \in BOOLEAN : EofsLast(q, e)
BY DEF EofsLast

LEMMA PutRaw ==
    ASSUME NEW q \in Seq(Token), NEW p \in Nat, NEW a \in Nat,
           NEW t \in RawTokens, t.pos = a, InOrder(q, p, a), EofsLast(q, FALSE)
    PROVE  /\ InOrder(Append(q, t), p, a + 1)
           /\ \A e \in BOOLEAN : EofsLast(Append(q, t), e)
<1>1. t \in Token /\ t.type # "EOF"
  BY DEF RawTokens
<1>2. PICK b \in Seq(RawTokens) : b = OnlyIn(q, RawTokens) /\ Len(b) \in Nat
  BY RawsType
<1>3. PICK c \in Seq(RawTokens) :
        /\ c = Append(b, t) /\ Len(c) = Len(b) + 1
        /\ \A i \in 1..Len(b) : c[i] = b[i]
        /\ c[Len(b) + 1] = t
  BY AppendLast
<1>4. OnlyIn(Append(q, t), RawTokens) = c
  BY <1>1, <1>2, <1>3, OnlyInAppend
<1>5. (\A i \in 1..Len(b) : b[i].pos = p + i) /\ a = p + Len(b) + 1
  BY <1>2 DEF InOrder
<1>6. ASSUME NEW i \in 1..Len(c) PROVE c[i].pos = p + i
  <2>1. CASE i \in 1..Len(b)
    BY <1>3, <1>5, <2>1
  <2>2. CASE i = Len(b) + 1
    <3>1. c[i].pos = p + Len(b) + 1
      BY <1>3, <1>5, <2>2
    <3>2. p + Len(b) + 1 = p + i
      BY <1>2, <2>2
    <3>3. QED
      BY <3>1, <3>2
  <2>3. QED
    BY <1>2, <1>3, <2>1, <2>2
<1>7. a + 1 = p + Len(c) + 1
  BY <1>2, <1>3, <1>5
<1>8. InOrder(Append(q, t), p, a + 1)
  BY <1>4, <1>6, <1>7 DEF InOrder
<1>9. \A i \in 1..Len(Append(q, t)) : Append(q, t)[i].type # "EOF"
  <2>1. /\ Len(Append(q, t)) = Len(q) + 1 /\ Len(q) \in Nat
        /\ \A i \in 1..Len(q) : Append(q, t)[i] = q[i]
        /\ Append(q, t)[Len(q) + 1] = t
    BY <1>1, AppendLast, LenProperties
  <2>2. \A i \in 1..Len(q) : q[i].type # "EOF"
    BY DEF EofsLast
  <2>3. QED
    BY <1>1, <2>1, <2>2
<1>10. QED
  BY <1>8, <1>9 DEF EofsLast

LEMMA TakeFirst ==
    ASSUME NEW q \in Seq(Token), q # <<>>, NEW p \in Nat, NEW a \in Nat, NEW e \in BOOLEAN,
           InOrder(q, p, a), EofsLast(q, e)
    PROVE  /\ Tail(q) \in Seq(Token) /\ Head(q) \in Token
           /\ InOrder(Tail(q), IF Head(q) \in RawTokens THEN Head(q).pos ELSE p, a)
           /\ EofsLast(Tail(q), e)
           /\ Head(q).type = "EOF" => e /\ OnlyIn(Tail(q), RawTokens) = <<>>
<1>0. PICK r \in Seq(Token) : r = Tail(q)
  BY HeadTailProperties
<1>1. /\ r = Tail(q) /\ Len(r) = Len(q) - 1 /\ Len(q) \in Nat \ {0} /\ Len(r) \in Nat
      /\ \A i \in 1..Len(r) : r[i] = q[i + 1]
      /\ q[1] = Head(q) /\ Head(q) \in Token
  <2>1. /\ Tail(q) \in Seq(Token) /\ Len(Tail(q)) = Len(q) - 1
        /\ \A i \in 1..Len(Tail(q)) : Tail(q)[i] = q[i + 1]
    BY HeadTailProperties
  <2>2. Head(q) \in Token /\ q[1] = Head(q)
    BY HeadTail
  <2>3. Len(q) \in Nat \ {0} /\ Len(Tail(q)) \in Nat
    BY <2>1, EmptySeq, LenProperties
  <2>4. QED
    BY <1>0, <2>1, <2>2, <2>3
<1>2. EofsLast(r, e)
  <2> SUFFICES ASSUME NEW i \in 1..Len(r), r[i].type = "EOF"
               PROVE  e /\ \A j \in (i + 1)..Len(r) : r[j] \notin RawTokens
    BY DEF EofsLast
  <2>1. i + 1 \in 1..Len(q) /\ q[i + 1].type = "EOF"
    BY <1>1
  <2>2. e /\ \A j \in (i + 2)..Len(q) : q[j] \notin RawTokens
    BY <2>1 DEF EofsLast
  <2>3. ASSUME NEW j \in (i + 1)..Len(r) PROVE r[j] \notin RawTokens
    <3>1. j + 1 \in (i + 2)..Len(q) /\ j \in 1..Len(r)
      BY <1>1
    <3>2. QED
      BY <1>1, <2>2, <3>1
  <2>4. QED
    BY <2>2, <2>3
<1>3. ASSUME Head(q).type = "EOF" PROVE e /\ OnlyIn(r, RawTokens) = <<>>
  <2>1. 1 \in 1..Len(q) /\ q[1].type = "EOF"
    BY <1>1, <1>3
  <2>2. e /\ \A j \in 2..Len(q) : q[j] \notin RawTokens
    BY <2>1 DEF EofsLast
  <2>3. \A i \in 1..Len(r) : r[i] \in Token \ RawTokens
    <3> TAKE i \in 1..Len(r)
    <3>1. i + 1 \in 2..Len(q)
      BY <1>1
    <3>2. r[i] \in Token
      BY ElementOfSeq
    <3>3. QED
      BY <1>1, <2>2, <3>1, <3>2
  <2>4. r \in Seq(Token \ RawTokens)
    BY <2>3, SeqOfAll
  <2>5. (Token \ RawTokens) \cap RawTokens = {}
    OBVIOUS
  <2>6. QED
    BY <2>2, <2>4, <2>5, OnlyInNone
<1>4. PICK b \in Seq(RawTokens) : b = OnlyIn(r, RawTokens) /\ Len(b) \in Nat
  BY RawsType
<1>5. OnlyIn(q, RawTokens) = IF Head(q) \in RawTokens THEN <<Head(q)>> \o b ELSE b
  BY <1>1, <1>4, OnlyInTail
<1>6. CASE Head(q) \notin RawTokens
  BY <1>1, <1>2, <1>3, <1>4, <1>5, <1>6 DEF InOrder
<1>7. CASE Head(q) \in RawTokens
  <2>1. PICK u \in Seq(RawTokens) : u = <<Head(q)>> /\ Len(u) = 1 /\ u[1] = Head(q)
    BY <1>7, Singleton
  <2>2. /\ Len(u \o b) = Len(u) + Len(b)
        /\ \A i \in 1..(Len(u) + Len(b)) : (u \o b)[i] = IF i <= Len(u) THEN u[i] ELSE b[i - Len(u)]
    BY ConcatProperties
  <2>3. PICK c : c = u \o b /\ c = OnlyIn(q, RawTokens)
    BY <1>5, <1>7, <2>1
  <2>4. Len(c) = Len(b) + 1 /\ c[1] = Head(q) /\ 1 \in 1..Len(c)
    BY <1>4, <2>1, <2>2, <2>3
  <2>5. (\A i \in 1..Len(c) : c[i].pos = p + i) /\ a = p + Len(c) + 1
    BY <2>3 DEF InOrder
  <2>6. Head(q).pos = p + 1
    BY <2>4, <2>5
  <2>7. ASSUME NEW i \in 1..Len(b) PROVE b[i].pos = (p + 1) + i
    <3>1. i + 1 \in 1..Len(c) /\ i + 1 \in 1..(Len(u) + Len(b)) /\ ~(i + 1 <= 1) /\ (i + 1) - 1 = i
      BY <1>4, <2>1, <2>4
    <3>2. c[i + 1] = b[i]
      BY <2>1, <2>2, <2>3, <3>1
    <3>3. c[i + 1].pos = p + (i + 1) /\ p + (i + 1) = (p + 1) + i
      BY <2>5, <3>1
    <3>4. QED
      BY <3>2, <3>3
  <2>8. a = (p + 1) + Len(b) + 1
    BY <1>4, <2>4, <2>5
  <2>9. InOrder(r, Head(q).pos, a)
    BY <1>4, <2>6, <2>7, <2>8 DEF InOrder
  <2>10. QED
    BY <1>1, <1>2, <1>3, <1>7, <2>9
<1>8. QED
  BY <1>6, <1>7

LEMMA AheadFollows ==
    ASSUME FieldsOK, Consume
    PROVE  /\ ahead'.pos = IF ahead.type \in Unmatched THEN ahead.pos ELSE ahead.pos + 1
           /\ cur' = ahead /\ ahead' \in Token
<1>1. ahead \in Token /\ read + 1 \in Nat /\ ahead' \in Raw(ahead, read + 1) /\ cur' = ahead
  BY DEF FieldsOK, Consume
<1>2. QED
  BY <1>1, RawItem

(* The ordinal of the raw token that goes into the queue next.              *)
NextPos == IF pc = "dedenting" /\ cur.type = "WS" THEN cur.pos ELSE ahead.pos

OrderOK ==
    /\ ahead.pos # 0
    /\ pc = "dedenting" =>
          /\ ahead.type # "EOF"
          /\ cur.type = "WS" => cur.pos # 0 /\ ahead.pos = cur.pos + 1
    /\ EofsLast(Contents(ring), ahead.type = "EOF")
    /\ pc # "failed" => InOrder(Contents(ring), heard.got, NextPos)
    /\ heard.over => /\ pc = "idle" /\ ahead.type = "EOF"
                     /\ OnlyIn(Contents(ring), RawTokens) = <<>>

(* What holds before a step.                                                *)
LEMMA BeforeStep ==
    ASSUME IInv
    PROVE  /\ FieldsOK /\ SoundRing(ring, Token)
           /\ Contents(ring) \in Seq(Token) /\ heard \in Heards /\ heard.got \in Nat
           /\ ahead \in Token /\ ahead.pos \in Nat /\ cur \in Token /\ cur.pos \in Nat
           /\ (ahead.type = "EOF") \in BOOLEAN /\ NextPos \in Nat
<1>1. FieldsOK /\ SoundRing(ring, Token)
  BY BeforeReading
<1>2. Contents(ring) \in Seq(Token)
  BY <1>1, ContentsType, NoneAssumption
<1>3. heard \in Heards /\ heard.got \in Nat
  BY <1>1 DEF FieldsOK, Heards
<1>4. ahead \in Token /\ ahead.pos \in Nat /\ cur \in Token /\ cur.pos \in Nat
  BY <1>1, TokenFields DEF FieldsOK
<1>5. QED
  BY <1>1, <1>2, <1>3, <1>4 DEF NextPos

LEMMA Emitted ==
    ASSUME NEW r, SoundRing(r, Token), NEW t \in Token
    PROVE  /\ SoundRing(Emit(r, t), Token) /\ Contents(Emit(r, t)) \in Seq(Token)
           /\ Contents(Emit(r, t)) = Append(Contents(r), t)
<1>1. SoundRing(Emit(r, t), Token) /\ Contents(Emit(r, t)) = Append(Contents(r), t)
  BY EmitAppends, NoneAssumption
<1>2. QED
  BY <1>1, ContentsType, NoneAssumption

LEMMA MadeTokens ==
    /\ \A t \in {LINE_BREAK, INDENT, DEDENT} :
         t \in Token /\ t.pos = 0 /\ t.gap = FALSE /\ t.type # "EOF"
    /\ LINE_BREAK.type = "LINE_BREAK" /\ INDENT.type = "INDENT" /\ DEDENT.type = "DEDENT"
<1>1. /\ LINE_BREAK.type = "LINE_BREAK" /\ INDENT.type = "INDENT" /\ DEDENT.type = "DEDENT"
      /\ \A t \in {LINE_BREAK, INDENT, DEDENT} : t.pos = 0 /\ t.gap = FALSE
  BY MadeUp DEF LINE_BREAK, INDENT, DEDENT
<1>2. QED
  BY <1>1, Tokens

(* A made-up token goes into the queue, and the input stands still.         *)
LEMMA MadeOrder ==
    ASSUME IInv, OrderOK, pc # "failed", ~heard.over,
           NEW t \in {LINE_BREAK, INDENT, DEDENT}, ring' = Emit(ring, t),
           UNCHANGED <<ahead, cur, heard>>, NextPos' = NextPos, pc' = "dedenting" => pc = "dedenting"
    PROVE  OrderOK'
<1>1. PICK q \in Seq(Token) : q = Contents(ring)
  BY BeforeStep
<1>2. Contents(ring') = Append(q, t)
  BY <1>1, BeforeStep, MadeTokens, Emitted
<1>3. PICK e \in BOOLEAN : e = (ahead.type = "EOF")
  OBVIOUS
<1>4. EofsLast(q, e) /\ InOrder(q, heard.got, NextPos)
  BY <1>1, <1>3 DEF OrderOK
<1>5. EofsLast(Append(q, t), e) /\ InOrder(Append(q, t), heard.got, NextPos)
  BY <1>4, MadeTokens, BeforeStep, PutMade
<1>6. EofsLast(Contents(ring'), ahead'.type = "EOF") /\ InOrder(Contents(ring'), heard'.got, NextPos')
  BY <1>2, <1>3, <1>5
<1>7. QED
  BY <1>6 DEF OrderOK

(* One raw token goes into the queue, and the input goes on behind it.      *)
LEMMA RawOrder ==
    ASSUME IInv, OrderOK, pc \in {"idle", "lexing"}, ~heard.over,
           ahead.type \notin Unmatched \union {"EOF"},
           Consume, EmitOne(ahead), Goto("take"), UNCHANGED heard
    PROVE  OrderOK'
<1>1. PICK q \in Seq(Token) : q = Contents(ring)
  BY BeforeStep
<1>2. Contents(ring') = Append(q, ahead)
  BY <1>1, BeforeStep, Emitted DEF EmitOne
<1>3. ahead \in RawTokens /\ NextPos = ahead.pos
  BY BeforeStep DEF OrderOK, RawTokens, NextPos
<1>4. EofsLast(q, FALSE) /\ InOrder(q, heard.got, ahead.pos)
  <2>1. (ahead.type = "EOF") = FALSE
    OBVIOUS
  <2>2. EofsLast(q, ahead.type = "EOF") /\ InOrder(q, heard.got, NextPos)
    BY <1>1 DEF OrderOK
  <2>3. QED
    BY <1>3, <2>1, <2>2
<1>5. InOrder(Append(q, ahead), heard.got, ahead.pos + 1) /\ \A e \in BOOLEAN : EofsLast(Append(q, ahead), e)
  BY <1>3, <1>4, BeforeStep, PutRaw
<1>6. ahead'.pos = ahead.pos + 1 /\ ahead'.pos # 0
  BY BeforeStep, AheadFollows
<1>7. NextPos' = ahead.pos + 1 /\ pc' = "take"
  BY <1>6 DEF NextPos, Goto
<1>8. EofsLast(Contents(ring'), ahead'.type = "EOF") /\ InOrder(Contents(ring'), heard'.got, NextPos')
  <2>1. PICK e \in BOOLEAN : e = (ahead'.type = "EOF")
    OBVIOUS
  <2>2. QED
    BY <1>2, <1>5, <1>7, <2>1
<1>9. QED
  BY <1>6, <1>7, <1>8 DEF OrderOK

LEMMA EofOrder ==
    ASSUME IInv, OrderOK, LexEof
    PROVE  OrderOK'
<1>i. /\ pc \in {"idle", "lexing"} /\ ahead.type = "EOF" /\ ~heard.over
      /\ ring' = Emit(ring, ahead) /\ pc' = "take" /\ UNCHANGED <<ahead, heard>>
  BY DEF LexEof, Lexes, OrderOK, EmitOne, Goto
<1>1. PICK q \in Seq(Token) : q = Contents(ring)
  BY BeforeStep
<1>2. Contents(ring') = Append(q, ahead)
  BY <1>1, <1>i, BeforeStep, Emitted
<1>3. PICK e \in BOOLEAN : e = (ahead.type = "EOF") /\ e
  BY <1>i
<1>4. EofsLast(q, e) /\ InOrder(q, heard.got, NextPos)
  BY <1>1, <1>3, <1>i DEF OrderOK
<1>5. EofsLast(Append(q, ahead), e) /\ InOrder(Append(q, ahead), heard.got, NextPos)
  BY <1>3, <1>4, <1>i, BeforeStep, PutMade
<1>6. NextPos' = NextPos
  BY <1>i DEF NextPos
<1>7. EofsLast(Contents(ring'), ahead'.type = "EOF") /\ InOrder(Contents(ring'), heard'.got, NextPos')
  BY <1>2, <1>3, <1>5, <1>6, <1>i
<1>8. QED
  BY <1>7, <1>i DEF OrderOK

LEMMA NewLineOrder ==
    ASSUME IInv, OrderOK, HandleNewLine
    PROVE  OrderOK'
<1>i. /\ pc \in {"idle", "lexing"} /\ ahead.type = "NEWLINE" /\ ~heard.over /\ Consume
      /\ UNCHANGED heard
  BY DEF HandleNewLine, Lexes, OrderOK
<1>1. CASE EmitOne(ahead) /\ Goto("take")
  BY <1>1, <1>i, RawOrder DEF Unmatched
<1>2. CASE EmitTwo(ahead, LINE_BREAK) /\ Goto("dedenting") /\ ahead'.type # "EOF"
  <2>1. PICK q \in Seq(Token) : q = Contents(ring)
    BY BeforeStep
  <2>2. Contents(ring') = Append(Append(q, ahead), LINE_BREAK) /\ Append(q, ahead) \in Seq(Token)
    BY <1>2, <2>1, BeforeStep, MadeTokens, Emitted DEF EmitTwo
  <2>3. ahead \in RawTokens /\ NextPos = ahead.pos
    BY <1>i, BeforeStep DEF OrderOK, RawTokens, NextPos
  <2>4. EofsLast(q, FALSE) /\ InOrder(q, heard.got, ahead.pos)
    <3>1. (ahead.type = "EOF") = FALSE
      BY <1>i
    <3>2. EofsLast(q, ahead.type = "EOF") /\ InOrder(q, heard.got, NextPos)
      BY <1>i, <2>1 DEF OrderOK
    <3>3. QED
      BY <2>3, <3>1, <3>2
  <2>5. InOrder(Append(q, ahead), heard.got, ahead.pos + 1) /\ EofsLast(Append(q, ahead), FALSE)
    BY <2>3, <2>4, BeforeStep, PutRaw
  <2>6. PICK u \in Seq(Token) : u = Append(q, ahead)
    BY <2>2
  <2>7. /\ InOrder(Append(u, LINE_BREAK), heard.got, ahead.pos + 1)
        /\ EofsLast(Append(u, LINE_BREAK), FALSE)
    <3>1. ahead.pos + 1 \in Nat
      BY BeforeStep
    <3>2. QED
      BY <2>5, <2>6, <3>1, MadeTokens, BeforeStep, PutMade
  <2>8. ahead'.pos = ahead.pos + 1 /\ ahead'.pos # 0 /\ cur' = ahead
    BY <1>i, BeforeStep, AheadFollows DEF Unmatched, OrderOK, FieldsOK, Token
  <2>9. NextPos' = ahead.pos + 1 /\ pc' = "dedenting" /\ cur'.type # "WS"
    BY <1>2, <1>i, <2>8 DEF NextPos, Goto
  <2>10. (ahead'.type = "EOF") = FALSE
    BY <1>2
  <2>11. EofsLast(Contents(ring'), ahead'.type = "EOF") /\ InOrder(Contents(ring'), heard'.got, NextPos')
    BY <1>i, <2>2, <2>6, <2>7, <2>9, <2>10
  <2>12. QED
    BY <1>2, <1>i, <2>8, <2>9, <2>11 DEF OrderOK
<1>3. QED
  BY <1>1, <1>2 DEF HandleNewLine

LEMMA SpacesOrder ==
    ASSUME IInv, OrderOK, HandleSpaces
    PROVE  OrderOK'
<1>i. /\ pc \in {"idle", "lexing"} /\ ahead.type = "WS" /\ ~heard.over /\ Consume
      /\ UNCHANGED heard
  BY DEF HandleSpaces, Lexes, OrderOK
<1>1. PICK q \in Seq(Token) : q = Contents(ring)
  BY BeforeStep
<1>2. ahead \in RawTokens /\ NextPos = ahead.pos
  BY <1>i, BeforeStep DEF OrderOK, RawTokens, NextPos
<1>3. EofsLast(q, FALSE) /\ InOrder(q, heard.got, ahead.pos)
  <2>1. (ahead.type = "EOF") = FALSE
    BY <1>i
  <2>2. EofsLast(q, ahead.type = "EOF") /\ InOrder(q, heard.got, NextPos)
    BY <1>i, <1>1 DEF OrderOK
  <2>3. QED
    BY <1>2, <2>1, <2>2
<1>4. ahead'.pos = ahead.pos + 1 /\ ahead'.pos # 0 /\ cur' = ahead
  BY <1>i, BeforeStep, AheadFollows DEF Unmatched, OrderOK, FieldsOK, Token
<1>5. CASE Fail("ValueError") /\ UNCHANGED ring
  <2>1. EofsLast(Contents(ring'), ahead'.type = "EOF")
    BY <1>1, <1>3, <1>5, NoEofs
  <2>2. QED
    BY <1>4, <1>5, <1>i, <2>1 DEF OrderOK, Fail
<1>6. CASE ring' = Emit(Emit(Emit(ring, LINE_BREAK), INDENT), ahead) /\ Goto("take")
  <2>1. PICK s : s = Emit(ring, LINE_BREAK) /\ SoundRing(s, Token) /\ Contents(s) = Append(q, LINE_BREAK)
                 /\ Contents(s) \in Seq(Token)
    BY <1>1, BeforeStep, MadeTokens, Emitted
  <2>2. PICK r : r = Emit(s, INDENT) /\ SoundRing(r, Token) /\ Contents(r) = Append(Contents(s), INDENT)
                 /\ Contents(r) \in Seq(Token)
    BY <2>1, MadeTokens, Emitted
  <2>3. Contents(ring') = Append(Contents(r), ahead)
    BY <1>6, <2>1, <2>2, BeforeStep, Emitted
  <2>4. EofsLast(Contents(s), FALSE) /\ InOrder(Contents(s), heard.got, ahead.pos)
    BY <1>3, <2>1, MadeTokens, BeforeStep, PutMade
  <2>5. EofsLast(Contents(r), FALSE) /\ InOrder(Contents(r), heard.got, ahead.pos)
    <3>1. PICK v \in Seq(Token) : v = Contents(s)
      BY <2>1
    <3>2. QED
      BY <2>2, <2>4, <3>1, MadeTokens, BeforeStep, PutMade
  <2>6. PICK w \in Seq(Token) : w = Contents(r)
    BY <2>2
  <2>7. InOrder(Append(w, ahead), heard.got, ahead.pos + 1) /\ \A e \in BOOLEAN : EofsLast(Append(w, ahead), e)
    BY <1>2, <2>5, <2>6, BeforeStep, PutRaw
  <2>8. NextPos' = ahead.pos + 1 /\ pc' = "take"
    BY <1>4, <1>6 DEF NextPos, Goto
  <2>9. EofsLast(Contents(ring'), ahead'.type = "EOF") /\ InOrder(Contents(ring'), heard'.got, NextPos')
    <3>1. PICK e \in BOOLEAN : e = (ahead'.type = "EOF")
      OBVIOUS
    <3>2. QED
      BY <1>i, <2>3, <2>6, <2>7, <2>8, <3>1
  <2>10. QED
    BY <1>4, <1>i, <2>8, <2>9 DEF OrderOK
<1>7. CASE EmitOne(LINE_BREAK) /\ Goto("dedenting") /\ ahead'.type # "EOF"
  <2>1. Contents(ring') = Append(q, LINE_BREAK)
    BY <1>1, <1>7, BeforeStep, MadeTokens, Emitted DEF EmitOne
  <2>2. EofsLast(Append(q, LINE_BREAK), FALSE) /\ InOrder(Append(q, LINE_BREAK), heard.got, ahead.pos)
    BY <1>3, MadeTokens, BeforeStep, PutMade
  <2>3. NextPos' = ahead.pos /\ pc' = "dedenting" /\ (ahead'.type = "EOF") = FALSE
    BY <1>4, <1>7, <1>i DEF NextPos, Goto
  <2>4. EofsLast(Contents(ring'), ahead'.type = "EOF") /\ InOrder(Contents(ring'), heard'.got, NextPos')
    BY <1>i, <2>1, <2>2, <2>3
  <2>5. cur'.pos # 0 /\ ahead'.pos = cur'.pos + 1
    BY <1>4 DEF OrderOK
  <2>6. QED
    BY <1>4, <1>7, <1>i, <2>3, <2>4, <2>5 DEF OrderOK
<1>8. CASE EmitOne(ahead) /\ Goto("take")
  BY <1>8, <1>i, RawOrder DEF Unmatched
<1>9. QED
  BY <1>5, <1>6, <1>7, <1>8 DEF HandleSpaces

LEMMA DedentedOrder ==
    ASSUME IInv, OrderOK, Dedented
    PROVE  OrderOK'
<1>i. /\ pc = "dedenting" /\ pc' = "take" /\ ahead.type # "EOF" /\ UNCHANGED <<ahead, heard>>
      /\ ~heard.over /\ (ahead.type = "EOF") = FALSE /\ NextPos' = ahead.pos
  BY DEF Dedented, Goto, OrderOK, NextPos
<1>1. CASE cur.type = "WS" /\ EmitOne(cur)
  <2>1. PICK q \in Seq(Token) : q = Contents(ring)
    BY BeforeStep
  <2>2. Contents(ring') = Append(q, cur)
    BY <1>1, <2>1, BeforeStep, Emitted DEF EmitOne
  <2>3. cur \in RawTokens /\ NextPos = cur.pos /\ ahead.pos = cur.pos + 1
    BY <1>1, <1>i, BeforeStep DEF OrderOK, RawTokens, NextPos
  <2>4. EofsLast(q, FALSE) /\ InOrder(q, heard.got, cur.pos)
    <3>1. EofsLast(q, ahead.type = "EOF") /\ InOrder(q, heard.got, NextPos)
      BY <1>i, <2>1 DEF OrderOK
    <3>2. QED
      BY <1>i, <2>3, <3>1
  <2>5. InOrder(Append(q, cur), heard.got, cur.pos + 1) /\ EofsLast(Append(q, cur), FALSE)
    BY <2>3, <2>4, BeforeStep, PutRaw
  <2>6. EofsLast(Contents(ring'), ahead'.type = "EOF") /\ InOrder(Contents(ring'), heard'.got, NextPos')
    BY <1>i, <2>2, <2>3, <2>5
  <2>7. QED
    BY <1>i, <2>6 DEF OrderOK
<1>2. CASE cur.type # "WS" /\ UNCHANGED ring
  <2>1. NextPos = ahead.pos
    BY <1>2 DEF NextPos
  <2>2. EofsLast(Contents(ring'), ahead'.type = "EOF") /\ InOrder(Contents(ring'), heard'.got, NextPos')
    BY <1>2, <1>i, <2>1 DEF OrderOK
  <2>3. QED
    BY <1>i, <2>2 DEF OrderOK
<1>3. QED
  BY <1>1, <1>2 DEF Dedented

LEMMA TakeOrder ==
    ASSUME IInv, OrderOK, TakeToken
    PROVE  OrderOK'
<1>i. /\ pc = "take" /\ pc' = "idle" /\ ring' = Take(ring)
      /\ heard' = HeardAfter(heard, IF IsEmpty(ring) THEN cur ELSE First(ring))
      /\ UNCHANGED <<ahead, cur>> /\ NextPos = ahead.pos /\ NextPos' = ahead.pos
  BY DEF TakeToken, Goto, NextPos
<1>1. ~IsEmpty(ring)
  BY <1>i, BeforeReading DEF IInv, BacklogOK, Count
<1>2. PICK q \in Seq(Token) :
        q = Contents(ring) /\ q # <<>> /\ Contents(ring') = Tail(q) /\ First(ring) = Head(q)
  BY <1>1, <1>i, BeforeStep, ContentsType, TakeTail, NoneAssumption
<1>3. PICK e \in BOOLEAN : e = (ahead.type = "EOF")
  OBVIOUS
<1>4. InOrder(q, heard.got, ahead.pos) /\ EofsLast(q, e)
  BY <1>i, <1>2, <1>3 DEF OrderOK
<1>5. /\ Head(q) \in Token
      /\ InOrder(Tail(q), IF Head(q) \in RawTokens THEN Head(q).pos ELSE heard.got, ahead.pos)
      /\ EofsLast(Tail(q), e)
      /\ Head(q).type = "EOF" => e /\ OnlyIn(Tail(q), RawTokens) = <<>>
  BY <1>2, <1>4, BeforeStep, TakeFirst
<1>6. PICK t \in Token : t = Head(q)
  BY <1>5
<1>7. /\ heard'.got = (IF t \in RawTokens THEN t.pos ELSE heard.got)
      /\ heard'.over = (heard.over \/ t.type = "EOF")
  <2>1. heard' = HeardAfter(heard, t)
    BY <1>1, <1>2, <1>6, <1>i
  <2>2. /\ heard'.got = (IF t.pos = 0 \/ t.type = "EOF" THEN heard.got ELSE t.pos)
        /\ heard'.over = (heard.over \/ t.type = "EOF")
    BY <2>1 DEF HeardAfter
  <2>3. QED
    BY <2>2 DEF RawTokens
<1>8. EofsLast(Contents(ring'), ahead'.type = "EOF") /\ InOrder(Contents(ring'), heard'.got, NextPos')
  BY <1>2, <1>3, <1>5, <1>6, <1>7, <1>i
<1>9. heard'.over => ahead'.type = "EOF" /\ OnlyIn(Contents(ring'), RawTokens) = <<>>
  <2>1. ~heard.over
    BY <1>i DEF OrderOK
  <2>2. QED
    BY <1>2, <1>3, <1>5, <1>6, <1>7, <1>i, <2>1
<1>10. QED
  BY <1>8, <1>9, <1>i DEF OrderOK

LEMMA SkipOrder ==
    ASSUME IInv, OrderOK, SkipChar
    PROVE  OrderOK'
<1>i. /\ pc \in {"idle", "lexing"} /\ ahead.type \in Unmatched /\ ~heard.over /\ Consume
      /\ pc' = "lexing" /\ UNCHANGED <<ring, heard>> /\ (ahead.type = "EOF") = FALSE
  BY DEF SkipChar, Lexes, OrderOK, Goto, Unmatched
<1>1. ahead'.pos = ahead.pos
  BY <1>i, BeforeStep, AheadFollows
<1>2. NextPos' = ahead.pos /\ NextPos = ahead.pos
  BY <1>i, <1>1 DEF NextPos
<1>3. PICK q : q = Contents(ring)
  OBVIOUS
<1>4. EofsLast(q, FALSE) /\ InOrder(q, heard.got, ahead.pos)
  <2>1. EofsLast(q, ahead.type = "EOF") /\ InOrder(q, heard.got, NextPos)
    BY <1>i, <1>3 DEF OrderOK
  <2>2. QED
    BY <1>i, <1>2, <2>1
<1>5. EofsLast(Contents(ring'), ahead'.type = "EOF") /\ InOrder(Contents(ring'), heard'.got, NextPos')
  BY <1>2, <1>3, <1>4, <1>i, NoEofs
<1>6. QED
  BY <1>1, <1>5, <1>i DEF OrderOK

LEMMA OrderStep ==
    ASSUME IInv, OrderOK, [Next]_vars
    PROVE  OrderOK'
<1>1. CASE LexText \/ IncIndentLevel \/ DecIndentLevel
  <2>1. /\ pc \in {"idle", "lexing"} /\ ahead.type \notin Unmatched \union {"EOF"} /\ ~heard.over
        /\ Consume /\ EmitOne(ahead) /\ Goto("take") /\ UNCHANGED heard
    BY <1>1 DEF LexText, IncIndentLevel, DecIndentLevel, Lexes, OrderOK, Unmatched
  <2>2. QED
    BY <2>1, RawOrder
<1>2. CASE CloseAtEof
  <2>1. ~IsEmpty(ring)
    BY <1>2, BeforeReading DEF IInv, BacklogOK, Count, CloseAtEof, ClosingDue
  <2>2. /\ EmitOne(LINE_BREAK) /\ Goto("closing") /\ pc = "idle" /\ ~heard.over
        /\ UNCHANGED <<ahead, cur, heard>>
    BY <1>2, <2>1, BeforeReading, LastOccupied, NoneAssumption DEF CloseAtEof, ClosingDue
  <2>3. QED
    BY <2>2, MadeOrder DEF EmitOne, Goto, NextPos
<1>3. CASE CloseLevel
  <2>1. /\ EmitOne(DEDENT) /\ pc = "closing" /\ pc' \in {"closing", "lexing"} /\ ~heard.over
        /\ UNCHANGED <<ahead, cur, heard>>
    BY <1>3 DEF CloseLevel, OrderOK, Goto
  <2>2. QED
    BY <2>1, MadeOrder DEF EmitOne, NextPos
<1>4. CASE HandleNewLine
  BY <1>4, NewLineOrder
<1>5. CASE HandleSpaces
  BY <1>5, SpacesOrder
<1>6. CASE Dedent
  <2>1. /\ EmitOne(DEDENT) /\ pc = "dedenting" /\ ~heard.over /\ UNCHANGED <<pc, ahead, cur, heard>>
    BY <1>6 DEF Dedent, OrderOK
  <2>2. QED
    BY <2>1, MadeOrder DEF EmitOne, NextPos
<1>7. CASE Dedented
  BY <1>7, DedentedOrder
<1>8. CASE SkipChar
  BY <1>8, SkipOrder
<1>9. CASE LexEof
  BY <1>9, EofOrder
<1>10. CASE TakeToken
  BY <1>10, TakeOrder
<1>11. CASE UNCHANGED vars
  <2>1. UNCHANGED <<pc, ahead, cur, ring, heard>>
    BY <1>11 DEF vars
  <2>2. NextPos' = NextPos /\ Contents(ring)' = Contents(ring)
    BY <2>1 DEF NextPos
  <2>3. QED
    BY <2>1, <2>2 DEF OrderOK
<1>12. QED
  BY <1>1, <1>2, <1>3, <1>4, <1>5, <1>6, <1>7, <1>8, <1>9, <1>10, <1>11 DEF Next, NextToken

LEMMA OrderStarts == Init => OrderOK
<1> SUFFICES ASSUME Init PROVE OrderOK
  OBVIOUS
<1>1. Contents(ring) = <<>> /\ IInv
  BY InitIInv
<1>2. ahead.pos = 1
  <2>1. ahead \in Raw(MadeToken("EOF"), 0)
    BY DEF Init
  <2>2. QED
    <3>1. PICK t : t = MadeToken("EOF")
      OBVIOUS
    <3>2. t \in Token /\ t.type = "EOF" /\ t.pos = 0
      BY <3>1, MadeUp DEF Types
    <3>3. ahead \in Raw(t, 0) /\ t.type \notin Unmatched /\ 0 \in Nat
      BY <2>1, <3>1, <3>2 DEF Unmatched
    <3>4. ahead.pos = t.pos + 1
      BY <3>2, <3>3, RawItem
    <3>5. QED
      BY <3>2, <3>4
<1>3. OnlyIn(<<>>, RawTokens) = <<>>
  BY OnlyInEmpty
<1>4. InOrder(<<>>, 0, 1)
  BY <1>3 DEF InOrder
<1>5. EofsLast(<<>>, ahead.type = "EOF")
  BY DEF EofsLast
<1>6. pc = "idle" /\ heard.got = 0 /\ ~heard.over /\ NextPos = 1
  BY <1>2 DEF Init, NothingHeard, NextPos
<1>7. QED
  BY <1>1, <1>2, <1>4, <1>5, <1>6 DEF OrderOK

LEMMA OrderKept == Spec => [](IInv /\ OrderOK)
<1>1. Init => IInv /\ OrderOK
  BY InitIInv, OrderStarts
<1>2. IInv /\ OrderOK /\ [Next]_vars => (IInv /\ OrderOK)'
  BY NextStep, StutterIInv, OrderStep
<1>3. QED
  BY <1>1, <1>2, PTL DEF Spec

LEMMA Regrouped ==
    ASSUME NEW r \in Seq(Token), NEW s \in Seq(Token), NEW t \in Seq(Token)
    PROVE  (r \o s) \o t = r \o (s \o t)
BY ConcatAssociative

(* Every raw token is returned, once and in the order it was read, however  *)
(* many tokens the buffer holds back (emitToken, nextToken).                *)
THEOREM Order == Spec => []RawTokensInOrder
<1>1. IInv /\ OrderOK => RawTokensInOrder
  <2> SUFFICES ASSUME IInv, OrderOK, pc # "failed", NEW i \in DOMAIN OnTheWay
               PROVE  OnTheWay[i].pos = (IF i = 1 THEN heard.got ELSE OnTheWay[i - 1].pos) + 1
    BY DEF RawTokensInOrder
  <2>1. PICK b \in Seq(RawTokens) : b = OnlyIn(Contents(ring), RawTokens) /\ Len(b) \in Nat
    BY BeforeStep, RawsType
  <2>2. PICK b2 \in Seq(Token) : b2 = b
    <3>1. RawTokens \subseteq Token
      BY DEF RawTokens
    <3>2. \A j \in 1..Len(b) : b[j] \in Token
      BY <3>1, ElementOfSeq
    <3>3. QED
      BY <3>2, SeqOfAll
  <2>3. PICK p \in Nat : p = heard.got
    BY BeforeStep
  <2>4. (\A j \in 1..Len(b) : b[j].pos = p + j) /\ NextPos = p + Len(b) + 1
    BY <2>1, <2>3 DEF OrderOK, InOrder
  <2>d. PICK d \in Seq(Token) : d = <<ahead>> /\ Len(d) = 1 /\ d[1] = ahead
    BY BeforeStep, Singleton
  <2>c. PICK c \in Seq(Token) :
          c = InHand /\ (InHand # <<>> => Len(c) = 1 /\ c[1] = cur) /\ Len(c) \in Nat
    <3>1. <<cur>> \in Seq(Token) /\ Len(<<cur>>) = 1 /\ <<cur>>[1] = cur
      BY BeforeStep, Singleton
    <3>2. <<>> \in Seq(Token) /\ Len(<<>>) = 0
      BY EmptySeq
    <3>3. QED
      BY <3>1, <3>2 DEF InHand
  <2>5. PICK h \in Seq(Token) : h = c \o d /\ Len(h) \in Nat
    BY ConcatProperties, LenProperties
  <2>6. \A j \in 1..Len(h) : h[j].pos = p + Len(b) + j
    <3>1. CASE pc = "dedenting" /\ cur.type = "WS"
      <4>0. /\ Len(h) = Len(c) + Len(d)
            /\ \A j \in 1..(Len(c) + Len(d)) : h[j] = IF j <= Len(c) THEN c[j] ELSE d[j - Len(c)]
        BY <2>5, ConcatProperties
      <4>1. NextPos = cur.pos /\ ahead.pos = cur.pos + 1 /\ Len(c) = 1 /\ c[1] = cur
        BY <2>c, <3>1 DEF InHand, OrderOK, NextPos
      <4>2. Len(h) = 2 /\ h[1] = cur /\ h[2] = ahead
        BY <2>d, <4>0, <4>1
      <4>3. cur.pos = p + Len(b) + 1 /\ ahead.pos = p + Len(b) + 2
        BY <2>1, <2>4, <4>1
      <4>4. ASSUME NEW j \in 1..Len(h) PROVE h[j].pos = p + Len(b) + j
        <5>1. j = 1 \/ j = 2
          BY <4>2
        <5>2. QED
          BY <4>2, <4>3, <5>1
      <4>5. QED
        BY <4>4
    <3>2. CASE ~(pc = "dedenting" /\ cur.type = "WS")
      <4>1. c = <<>> /\ NextPos = ahead.pos
        BY <2>c, <3>2 DEF InHand, NextPos
      <4>2. h = d
        BY <2>5, <4>1, ConcatEmptySeq
      <4>3. ahead.pos = p + Len(b) + 1
        BY <2>4, <4>1
      <4>4. ASSUME NEW j \in 1..Len(h) PROVE h[j].pos = p + Len(b) + j
        <5>1. j = 1 /\ h[j] = ahead
          BY <2>d, <4>2
        <5>2. QED
          BY <4>3, <5>1
      <4>5. QED
        BY <4>4
    <3>3. QED
      BY <3>1, <3>2
  <2>w. PICK w \in Seq(Token) : w = b2 \o h
    BY ConcatProperties
  <2>7. /\ w = b2 \o h /\ Len(w) = Len(b2) + Len(h)
        /\ \A j \in 1..(Len(b2) + Len(h)) : w[j] = IF j <= Len(b2) THEN b2[j] ELSE h[j - Len(b2)]
    BY <2>w, ConcatProperties
  <2>8. OnTheWay = w
    <3>1. (b2 \o c) \o d = b2 \o (c \o d)
      BY Regrouped
    <3>2. QED
      BY <2>1, <2>2, <2>c, <2>d, <2>5, <2>7, <3>1 DEF OnTheWay
  <2>9. DOMAIN w = 1..Len(w) /\ i \in 1..Len(w)
    BY <2>8, LenProperties
  <2>10. ASSUME NEW j \in 1..Len(w) PROVE w[j].pos = p + j
    <3>1. CASE j <= Len(b)
      <4>1. j \in 1..Len(b) /\ w[j] = b[j]
        BY <2>1, <2>2, <2>7, <3>1
      <4>2. QED
        BY <2>4, <4>1
    <3>2. CASE ~(j <= Len(b))
      <4>1. j - Len(b) \in 1..Len(h) /\ w[j] = h[j - Len(b)]
        BY <2>1, <2>2, <2>5, <2>7, <3>2
      <4>2. w[j].pos = p + Len(b) + (j - Len(b))
        BY <2>6, <4>1
      <4>3. QED
        BY <2>1, <4>2
    <3>3. QED
      BY <3>1, <3>2
  <2>11. CASE i = 1
    BY <2>3, <2>8, <2>9, <2>10, <2>11
  <2>12. CASE i # 1
    <3>1. i - 1 \in 1..Len(w)
      BY <2>9, <2>12
    <3>2. w[i - 1].pos = p + (i - 1) /\ w[i].pos = p + i
      BY <2>9, <2>10, <3>1
    <3>3. p + i = (p + (i - 1)) + 1
      BY <2>9
    <3>4. QED
      BY <2>8, <2>12, <3>2, <3>3
  <2>13. QED
    BY <2>11, <2>12
<1>2. QED
  BY <1>1, OrderKept, PTL

(* EOF comes after the last token of the input, also when blocks are closed *)
(* or skipped characters come before it (nextToken).                        *)
THEOREM Heard == Spec => []WholeInputHeard
<1>1. IInv /\ OrderOK => WholeInputHeard
  <2> SUFFICES ASSUME IInv, OrderOK, heard.over
               PROVE  ahead.type = "EOF" /\ heard.got = ahead.pos - 1
    BY DEF WholeInputHeard
  <2>1. /\ pc = "idle" /\ ahead.type = "EOF" /\ InOrder(Contents(ring), heard.got, NextPos)
        /\ OnlyIn(Contents(ring), RawTokens) = <<>>
    BY DEF OrderOK
  <2>2. NextPos = heard.got + 0 + 1
    BY <2>1 DEF InOrder
  <2>3. NextPos = ahead.pos
    BY <2>1 DEF NextPos
  <2>4. QED
    BY <2>1, <2>2, <2>3, BeforeStep
<1>2. QED
  BY <1>1, OrderKept, PTL
---------------------------------------------------------------------------
(* The stream that the caller receives.                                     *)

TextTypes == {"NAME", "OPEN", "CLOSE"}

(* What may come next in the stream; the EOFs behind the first one are not  *)
(* heard of.                                                                *)
Legal(h, t) ==
    IF h.over THEN t.type = "EOF"
    ELSE /\ t.type = "LINE_BREAK" => h.line \in {"first", "open", "joined"}
         /\ t.type = "INDENT" => h.line = "ended"
         /\ t.type = "DEDENT" => h.line \in {"ended", "closing"} /\ h.depth > 0
         /\ t.type \in TextTypes \/ (t.type \in HiddenTypes /\ t.gap) => h.line # "closing"
         /\ t.type = "EOF" => h.depth = 0 /\ h.line # "indented"

Readings ==
    {s \in Heards \X Token \X Heards :
       Legal(s[1], s[2]) /\ s[3] = HeardAfter(s[1], s[2])}

(* What a line begins with, once its break is out.                          *)
BeginsLine(t) == t.type \in TextTypes \union {"LINE_JOIN", "STRAY"} \/ t.gap

(* The buffered tokens lead the caller from what it has heard to the levels *)
(* and brackets where the lexer is, and to a line that has no tokens yet    *)
(* only in front of its first token and at the end of the input.            *)
Matched(e) ==
    /\ Leads(Readings, heard, Contents(ring), e)
    /\ e.depth = Len(indents) /\ e.brackets = opened
    /\ e.over => ahead.type = "EOF" /\ indents = <<>>
    /\ e.line \in {"ended", "indented", "closing"} =>
          \/ BeginsLine(ahead) /\ e.line # "closing"
          \/ ahead.type = "EOF" /\ e.line # "indented" /\ (e.over \/ pc \in {"closing", "lexing"})
    /\ pc = "dedenting" => e.line = "ended"
    /\ pc = "closing" => e.line \in {"ended", "closing"}
    /\ AtLineStart => e.line \in {"first", "open", "joined"}

StreamFollows == \E e \in Heards : Matched(e)

(* Where blocks are closed before EOF is lexed.                             *)
ClosingOK ==
    /\ pc = "closing" => ahead.type = "EOF"
    /\ pc = "lexing" /\ ahead.type = "EOF" => indents = <<>>
    /\ ahead.type = "EOF" => ahead.gap = FALSE

StreamInv == pc # "failed" => ClosingOK /\ StreamFollows

LEMMA HeardFields ==
    ASSUME NEW h \in Heards, NEW t \in Token
    PROVE  /\ HeardAfter(h, t) \in Heards
           /\ HeardAfter(h, t).over = (h.over \/ t.type = "EOF")
           /\ HeardAfter(h, t).depth = IF t.type = "INDENT" THEN h.depth + 1
                                       ELSE IF t.type = "DEDENT" THEN h.depth - 1 ELSE h.depth
           /\ HeardAfter(h, t).brackets = IF t.type = "OPEN" THEN h.brackets + 1
                                          ELSE IF t.type = "CLOSE" /\ h.brackets > 0
                                          THEN h.brackets - 1 ELSE h.brackets
           /\ HeardAfter(h, t).line = LineAfter(h, t)
<1>1. HeardAfter(h, t) \in Heards
  BY HeardType
<1>2. QED
  BY <1>1 DEF HeardAfter

LEMMA LineFields ==
    ASSUME NEW h, NEW t
    PROVE  LineAfter(h, t) =
             IF t.type = "LINE_BREAK" THEN IF h.brackets = 0 THEN "ended" ELSE "closing"
             ELSE IF t.type = "INDENT" THEN "indented"
             ELSE IF t.type \in TextTypes \/ (t.type \in HiddenTypes /\ t.gap) THEN "open"
             ELSE IF t.type = "LINE_JOIN"
             THEN IF h.line = "ended" THEN "joined" ELSE IF h.line = "indented" THEN "open" ELSE h.line
             ELSE h.line
<1>1. PICK gap : gap = t.gap
  OBVIOUS
<1>2. QED
  BY <1>1 DEF LineAfter, TextTypes, HiddenTypes

LEMMA StillGoing ==
    ASSUME NEW h \in Heards, NEW t \in Token, ~h.over, t.type # "EOF"
    PROVE  h.over = FALSE /\ HeardAfter(h, t).over = FALSE
<1>1. PICK c : c = HeardAfter(h, t)
  OBVIOUS
<1>2. c \in Heards /\ ~c.over
  BY <1>1, HeardFields
<1>3. \A g \in Heards : g.over \in BOOLEAN
  BY DEF Heards
<1>4. h.over = FALSE /\ c.over = FALSE
  BY <1>2, <1>3
<1>5. QED
  BY <1>1, <1>4

(* Spaces in front of a line change nothing, if no stray characters are     *)
(* before them.                                                             *)
LEMMA SpacesHeard ==
    ASSUME NEW h \in Heards, NEW t \in Token, ~h.over, t.type = "WS", h.line # "closing"
    PROVE  /\ Legal(h, t) /\ ~HeardAfter(h, t).over /\ HeardAfter(h, t).depth = h.depth
           /\ HeardAfter(h, t).brackets = h.brackets
           /\ HeardAfter(h, t).line \in {h.line, "open"}
<1>1. Legal(h, t)
  BY DEF Legal, TextTypes, HiddenTypes
<1>2. HeardAfter(h, t).line \in {h.line, "open"}
  BY HeardFields, LineFields DEF TextTypes, HiddenTypes
<1>3. ~HeardAfter(h, t).over
  BY StillGoing
<1>4. QED
  BY <1>1, <1>2, <1>3, HeardFields

LEMMA Reading ==
    ASSUME NEW a, NEW t, NEW c
    PROVE  <<a, t, c>> \in Readings
             <=> /\ a \in Heards /\ t \in Token /\ Legal(a, t) /\ c = HeardAfter(a, t)
<1>1. a \in Heards /\ t \in Token => HeardAfter(a, t) \in Heards
  BY HeardFields
<1>2. QED
  BY <1>1 DEF Readings

(* One token more in the buffer.                                            *)
LEMMA LedOn ==
    ASSUME NEW r, SoundRing(r, Token), NEW h, NEW e \in Heards, NEW t \in Token,
           Leads(Readings, h, Contents(r), e), Legal(e, t)
    PROVE  /\ SoundRing(Emit(r, t), Token)
           /\ HeardAfter(e, t) \in Heards
           /\ Leads(Readings, h, Contents(Emit(r, t)), HeardAfter(e, t))
<1>1. Contents(r) \in Seq(Token)
  BY ContentsType, NoneAssumption
<1>2. SoundRing(Emit(r, t), Token) /\ Contents(Emit(r, t)) = Append(Contents(r), t)
  BY Emitted
<1>3. <<e, t, HeardAfter(e, t)>> \in Readings
  BY Reading
<1>4. Leads(Readings, h, Append(Contents(r), t), HeardAfter(e, t))
  BY <1>1, <1>3, LeadsAppend
<1>5. QED
  BY <1>2, <1>4, HeardFields

(* What the input goes on with.                                             *)
LEMMA ReadsOn ==
    ASSUME FieldsOK, Consume
    PROVE  /\ cur' = ahead
           /\ ahead'.type \in AllRawTypes \union {"WS", "EOF"}
           /\ ahead.type = "WS" => ahead'.type # "WS"
           /\ ahead.type \in Unmatched /\ ~SkippedLast => ahead'.type # "EOF"
           /\ ahead.type = "STRAY" \/ (ahead.type = "SKIPPED" /\ ahead.gap)
                => ahead'.type = "EOF" \/ ahead'.gap
           /\ ahead'.type = "EOF" => ahead'.gap = FALSE
<1>1. ahead' \in Raw(ahead, read + 1) /\ cur' = ahead /\ ahead \in Token /\ read + 1 \in Nat
  BY DEF FieldsOK, Consume
<1>2. /\ \/ ahead'.type \in RawTypes \union {"WS"} /\ MayFollow(ahead, ahead')
         \/ ahead'.type = "EOF" /\ (ahead.type \in Unmatched => SkippedLast)
      /\ ahead.type = "STRAY" \/ (ahead.type = "SKIPPED" /\ ahead.gap)
            => ahead'.type = "EOF" \/ ahead'.gap
      /\ ahead'.type = "EOF" => ahead'.gap = FALSE
  BY <1>1, RawItem
<1>3. RawTypes \subseteq AllRawTypes /\ "EOF" \notin RawTypes
  BY RawTypesAssumption DEF AllRawTypes, Unmatched
<1>4. QED
  BY <1>1, <1>2, <1>3 DEF MayFollow

(* A raw token is heard: what there is of its line is open, or nothing.     *)
LEMMA RawHeard ==
    ASSUME NEW e \in Heards, NEW t \in Token, ~e.over,
           t.type \in {"NAME", "OPEN", "CLOSE", "LINE_JOIN", "COMMENT", "NEWLINE", "WS"},
           e.line # "closing", e.line \in {"ended", "indented"} => BeginsLine(t)
    PROVE  /\ Legal(e, t) /\ ~HeardAfter(e, t).over
           /\ HeardAfter(e, t).depth = e.depth
           /\ HeardAfter(e, t).brackets = IF t.type = "OPEN" THEN e.brackets + 1
                                          ELSE IF t.type = "CLOSE" /\ e.brackets > 0
                                          THEN e.brackets - 1 ELSE e.brackets
           /\ HeardAfter(e, t).line \in {"first", "open", "joined"}
<1>1. e.line \in {"first", "open", "ended", "indented", "joined"}
  BY DEF Heards
<1>2. Legal(e, t)
  BY DEF Legal
<1>3. HeardAfter(e, t).line \in {"first", "open", "joined"}
  BY <1>1, HeardFields, LineFields DEF BeginsLine, TextTypes, HiddenTypes
<1>4. QED
  BY <1>2, <1>3, HeardFields

(* Before a raw token, EOF aside, is lexed.                                 *)
LEMMA LineBefore ==
    ASSUME NEW e \in Heards, Matched(e), ahead.type # "EOF"
    PROVE  /\ ~e.over /\ e.line # "closing"
           /\ e.line \in {"ended", "indented"} => BeginsLine(ahead)
           /\ ~BeginsLine(ahead) => e.line \in {"first", "open", "joined"}
<1>1. e.line \in {"first", "open", "ended", "indented", "joined", "closing"} /\ e.over \in BOOLEAN
  BY DEF Heards
<1>2. QED
  BY <1>1 DEF Matched

(* The token of a rule goes into the buffer alone.                          *)
LEMMA RawStream ==
    ASSUME IInv, StreamInv, Consume, pc \in {"idle", "lexing"},
           ahead.type \in {"NAME", "OPEN", "CLOSE", "LINE_JOIN", "COMMENT", "NEWLINE", "WS"},
           ring' = Emit(ring, ahead), pc' = "take", UNCHANGED <<indents, heard>>,
           opened' = IF ahead.type = "OPEN" THEN opened + 1
                     ELSE IF ahead.type = "CLOSE" /\ opened > 0 THEN opened - 1 ELSE opened
    PROVE  StreamInv'
<1>1. PICK e \in Heards : Matched(e)
  BY DEF StreamInv, StreamFollows
<1>2. /\ ~e.over /\ e.line # "closing" /\ (e.line \in {"ended", "indented"} => BeginsLine(ahead))
  BY <1>1, LineBefore
<1>3. PICK c : c = HeardAfter(e, ahead)
  OBVIOUS
<1>4. /\ Legal(e, ahead) /\ ~c.over /\ c.depth = e.depth
      /\ c.brackets = (IF ahead.type = "OPEN" THEN e.brackets + 1
                       ELSE IF ahead.type = "CLOSE" /\ e.brackets > 0 THEN e.brackets - 1
                       ELSE e.brackets)
      /\ c.line \in {"first", "open", "joined"}
  BY <1>2, <1>3, BeforeStep, RawHeard
<1>5. c \in Heards /\ Leads(Readings, heard, Contents(ring'), c)
  BY <1>1, <1>3, <1>4, BeforeStep, LedOn DEF Matched
<1>6. Matched(c)'
  BY <1>1, <1>4, <1>5 DEF Matched
<1>7. ClosingOK'
  BY BeforeStep, ReadsOn DEF ClosingOK
<1>8. QED
  BY <1>5, <1>6, <1>7 DEF StreamInv, StreamFollows

(* A made-up token is heard.                                                *)
LEMMA MadeHeard ==
    ASSUME NEW e \in Heards, ~e.over
    PROVE  /\ e.line \in {"first", "open", "joined"} =>
                 /\ Legal(e, LINE_BREAK) /\ ~HeardAfter(e, LINE_BREAK).over
                 /\ HeardAfter(e, LINE_BREAK).depth = e.depth
                 /\ HeardAfter(e, LINE_BREAK).brackets = e.brackets
                 /\ HeardAfter(e, LINE_BREAK).line = IF e.brackets = 0 THEN "ended" ELSE "closing"
           /\ e.line = "ended" =>
                 /\ Legal(e, INDENT) /\ ~HeardAfter(e, INDENT).over
                 /\ HeardAfter(e, INDENT).depth = e.depth + 1
                 /\ HeardAfter(e, INDENT).brackets = e.brackets
                 /\ HeardAfter(e, INDENT).line = "indented"
           /\ e.line \in {"ended", "closing"} /\ e.depth > 0 =>
                 /\ Legal(e, DEDENT) /\ ~HeardAfter(e, DEDENT).over
                 /\ HeardAfter(e, DEDENT).depth = e.depth - 1
                 /\ HeardAfter(e, DEDENT).brackets = e.brackets
                 /\ HeardAfter(e, DEDENT).line = e.line
<1>1. PICK lb, id, dd : lb = LINE_BREAK /\ id = INDENT /\ dd = DEDENT
  OBVIOUS
<1>2. /\ lb \in Token /\ lb.type = "LINE_BREAK" /\ lb.gap = FALSE
      /\ id \in Token /\ id.type = "INDENT" /\ id.gap = FALSE
      /\ dd \in Token /\ dd.type = "DEDENT" /\ dd.gap = FALSE
  BY <1>1, MadeTokens
<1>3. /\ e.line \in {"first", "open", "joined"} => Legal(e, lb)
      /\ e.line = "ended" => Legal(e, id)
      /\ e.line \in {"ended", "closing"} /\ e.depth > 0 => Legal(e, dd)
  BY <1>2 DEF Legal, TextTypes, HiddenTypes
<1>4. /\ HeardAfter(e, lb).line = IF e.brackets = 0 THEN "ended" ELSE "closing"
      /\ HeardAfter(e, id).line = "indented" /\ HeardAfter(e, dd).line = e.line
  BY <1>2, HeardFields, LineFields DEF TextTypes, HiddenTypes
<1>5. /\ ~HeardAfter(e, lb).over /\ ~HeardAfter(e, id).over /\ ~HeardAfter(e, dd).over
  BY <1>2, StillGoing
<1>6. /\ HeardAfter(e, lb).depth = e.depth /\ HeardAfter(e, lb).brackets = e.brackets
      /\ HeardAfter(e, id).depth = e.depth + 1 /\ HeardAfter(e, id).brackets = e.brackets
      /\ HeardAfter(e, dd).depth = e.depth - 1 /\ HeardAfter(e, dd).brackets = e.brackets
  BY <1>2, HeardFields
<1>7. QED
  BY <1>1, <1>3, <1>4, <1>5, <1>6

LEMMA NewLineStream ==
    ASSUME IInv, OrderOK, StreamInv, HandleNewLine
    PROVE  StreamInv'
<1>i. /\ pc \in {"idle", "lexing"} /\ ahead.type = "NEWLINE" /\ Consume
      /\ UNCHANGED <<opened, indents, heard>> /\ FieldsOK /\ SoundRing(ring, Token)
      /\ ahead \in Token
  BY BeforeStep DEF HandleNewLine, Lexes
<1>1. CASE EmitOne(ahead) /\ Goto("take")
  BY <1>1, <1>i, RawStream DEF EmitOne, Goto
<1>2. CASE /\ EmitTwo(ahead, LINE_BREAK) /\ Goto("dedenting") /\ StartsLine(ahead')
           /\ ahead'.type \notin {"WS", "EOF"}
  <2>1. PICK e \in Heards : Matched(e)
    BY <1>i DEF StreamInv, StreamFollows
  <2>2. ~e.over /\ e.line # "closing" /\ (e.line \in {"ended", "indented"} => BeginsLine(ahead))
    BY <1>i, <2>1, LineBefore
  <2>3. PICK c : c = HeardAfter(e, ahead)
    OBVIOUS
  <2>4. PICK r : r = Emit(ring, ahead)
    OBVIOUS
  <2>5. /\ Legal(e, ahead) /\ ~c.over /\ c.depth = e.depth /\ c.brackets = e.brackets
        /\ c.line \in {"first", "open", "joined"}
    BY <1>i, <2>2, <2>3, RawHeard
  <2>6. c \in Heards /\ SoundRing(r, Token) /\ Leads(Readings, heard, Contents(r), c)
    BY <1>i, <2>1, <2>3, <2>4, <2>5, LedOn DEF Matched
  <2>7. PICK d : d = HeardAfter(c, LINE_BREAK)
    OBVIOUS
  <2>8. opened = 0
    BY <1>2, <1>i DEF StartsLine
  <2>9. /\ Legal(c, LINE_BREAK) /\ ~d.over /\ d.depth = e.depth /\ d.brackets = e.brackets
        /\ d.line = "ended"
    BY <2>1, <2>5, <2>6, <2>7, <2>8, MadeHeard DEF Matched
  <2>10. d \in Heards /\ Leads(Readings, heard, Contents(ring'), d)
    BY <1>2, <2>4, <2>6, <2>7, <2>9, MadeTokens, LedOn DEF EmitTwo
  <2>11. BeginsLine(ahead')
    BY <1>2, <1>i, ReadsOn DEF StartsLine, BeginsLine, TextTypes, HiddenTypes, AllRawTypes, Unmatched
  <2>12. Matched(d)'
    BY <1>2, <1>i, <2>1, <2>9, <2>10, <2>11, MadeTokens DEF Matched, Goto, EmitTwo, AtLineStart
  <2>13. QED
    BY <1>2, <2>10, <2>12 DEF StreamInv, StreamFollows, ClosingOK, Goto
<1>3. QED
  BY <1>1, <1>2 DEF HandleNewLine

LEMMA SpacesStream ==
    ASSUME IInv, OrderOK, StreamInv, HandleSpaces
    PROVE  StreamInv'
<1>i. /\ pc \in {"idle", "lexing"} /\ ahead.type = "WS" /\ Consume
      /\ UNCHANGED <<opened, heard>> /\ FieldsOK /\ SoundRing(ring, Token)
      /\ ahead \in Token /\ indents \in Seq(Nat) /\ opened \in Nat
  BY BeforeStep, BeforeReading DEF HandleSpaces, Lexes, FieldsOK
<1>e. PICK e \in Heards : Matched(e)
  BY <1>i DEF StreamInv, StreamFollows
<1>b. ~e.over /\ (AtLineStart => e.line \in {"first", "open", "joined"})
  BY <1>i, <1>e, LineBefore DEF Matched
<1>1. CASE Fail("ValueError")
  BY <1>1 DEF StreamInv, Fail
<1>2. CASE EmitOne(ahead) /\ Goto("take") /\ UNCHANGED indents
  BY <1>2, <1>i, RawStream DEF EmitOne, Goto
<1>3. ASSUME StartsLine(ahead')
      PROVE  /\ opened = 0 /\ (ahead'.type # "EOF" => BeginsLine(ahead'))
             /\ e.brackets = 0
  BY <1>3, <1>i, <1>e, ReadsOn DEF StartsLine, BeginsLine, TextTypes, HiddenTypes, AllRawTypes, Unmatched, Matched
<1>c. PICK c, r : c = HeardAfter(e, LINE_BREAK) /\ r = Emit(ring, LINE_BREAK)
  OBVIOUS
<1>d. ASSUME AtLineStart, StartsLine(ahead')  \* a statement follows
      PROVE  /\ ~c.over /\ c.depth = e.depth /\ c.brackets = e.brackets /\ c.line = "ended"
             /\ c \in Heards /\ SoundRing(r, Token) /\ Leads(Readings, heard, Contents(r), c)
  <2>1. /\ Legal(e, LINE_BREAK) /\ ~c.over /\ c.depth = e.depth /\ c.brackets = e.brackets
        /\ c.line = "ended"
    BY <1>3, <1>b, <1>c, <1>d, MadeHeard
  <2>2. QED
    BY <1>c, <1>e, <1>i, <2>1, MadeTokens, LedOn DEF Matched
<1>4. CASE /\ AtLineStart /\ StartsLine(ahead') /\ ahead'.type # "EOF" /\ last' = "WS"
           /\ ring' = Emit(Emit(Emit(ring, LINE_BREAK), INDENT), ahead) /\ Goto("take")
           /\ \E column : indents' = Append(indents, column)
  <2>1. PICK d, q : d = HeardAfter(c, INDENT) /\ q = Emit(r, INDENT)
    OBVIOUS
  <2>2. /\ Legal(c, INDENT) /\ ~d.over /\ d.depth = e.depth + 1 /\ d.brackets = e.brackets
        /\ d.line = "indented"
    BY <1>4, <1>d, <2>1, MadeHeard
  <2>3. d \in Heards /\ SoundRing(q, Token) /\ Leads(Readings, heard, Contents(q), d)
    BY <1>4, <1>d, <2>1, <2>2, MadeTokens, LedOn
  <2>4. PICK f : f = HeardAfter(d, ahead)
    OBVIOUS
  <2>5. /\ Legal(d, ahead) /\ ~f.over /\ f.depth = d.depth /\ f.brackets = d.brackets
        /\ f.line \in {"indented", "open"}
    BY <1>i, <2>2, <2>3, <2>4, SpacesHeard
  <2>6. f \in Heards /\ Leads(Readings, heard, Contents(ring'), f)
    BY <1>4, <1>c, <1>i, <2>1, <2>3, <2>4, <2>5, LedOn
  <2>7. Len(indents') = Len(indents) + 1
    BY <1>4, <1>i DEF HandleSpaces
  <2>8. Matched(f)'
    BY <1>3, <1>4, <1>i, <1>e, <2>2, <2>5, <2>6, <2>7 DEF Matched, Goto, AtLineStart
  <2>9. QED
    BY <1>4, <2>6, <2>8 DEF StreamInv, StreamFollows, ClosingOK, Goto
<1>5. CASE /\ AtLineStart /\ StartsLine(ahead') /\ ahead'.type # "EOF"
           /\ EmitOne(LINE_BREAK) /\ Goto("dedenting") /\ UNCHANGED indents
  <2>1. Matched(c)'
    BY <1>3, <1>5, <1>i, <1>e, <1>c, <1>d, MadeTokens DEF Matched, Goto, EmitOne, AtLineStart
  <2>2. QED
    BY <1>5, <1>d, <2>1 DEF StreamInv, StreamFollows, ClosingOK, Goto
<1>6. QED
  BY <1>1, <1>2, <1>4, <1>5 DEF HandleSpaces

(* The last element of a sequence of numbers is taken away.                 *)
LEMMA OneLess ==
    ASSUME NEW s \in Seq(Nat), s # <<>>
    PROVE  /\ SubSeq(s, 1, Len(s) - 1) \in Seq(Nat)
           /\ Len(SubSeq(s, 1, Len(s) - 1)) = Len(s) - 1
           /\ Len(s) = 1 => SubSeq(s, 1, Len(s) - 1) = <<>>
<1>1. Len(s) \in Nat \ {0} /\ \A i \in 1..Len(s) : s[i] \in Nat
  BY EmptySeq, ElementOfSeq
<1>2. PICK n \in Nat : n = Len(s) - 1
  BY <1>1
<1>p. SubSeq(s, 1, n) = SubSeq(s, 1, Len(s) - 1)
  BY <1>2
<1>3. SubSeq(s, 1, n) \in Seq(Nat) /\ Len(SubSeq(s, 1, n)) = (IF 1 <= n THEN n - 1 + 1 ELSE 0)
  <2>1. n \in Int /\ \A i \in 1..n : s[i] \in Nat
    BY <1>1, <1>2
  <2>2. QED
    BY <2>1, 1 \in Int, SubSeqProperties
<1>4. Len(SubSeq(s, 1, n)) = n
  BY <1>2, <1>3
<1>5. n = 0 => SubSeq(s, 1, n) = <<>>
  BY <1>3, <1>4, EmptySeq
<1>6. Len(s) = 1 => n = 0
  BY <1>2
<1>7. QED
  BY <1>2, <1>p, <1>3, <1>4, <1>5, <1>6

LEMMA DedentedStream ==
    ASSUME IInv, OrderOK, StreamInv, Dedent \/ Dedented
    PROVE  StreamInv'
<1>i. /\ pc = "dedenting" /\ UNCHANGED <<ahead, opened, heard>> /\ SoundRing(ring, Token)
      /\ cur \in Token /\ indents \in Seq(Nat) /\ ahead.type # "EOF" /\ FieldsOK
  BY BeforeStep, BeforeReading DEF Dedent, Dedented, OrderOK
<1>1. PICK e \in Heards : Matched(e)
  BY <1>i DEF StreamInv, StreamFollows
<1>2. ~e.over /\ e.line = "ended" /\ BeginsLine(ahead)
  BY <1>1, <1>i, LineBefore DEF Matched
<1>3. CASE Dedent
  <2>1. indents # <<>> /\ Len(indents) \in Nat \ {0}
    <3>1. indents # <<>>
      BY <1>i, <1>3 DEF Dedent, Previous, FieldsOK
    <3>2. QED
      BY <1>i, <3>1, EmptySeq
  <2>2. PICK c : c = HeardAfter(e, DEDENT)
    OBVIOUS
  <2>3. /\ Legal(e, DEDENT) /\ ~c.over /\ c.depth = e.depth - 1 /\ c.brackets = e.brackets
        /\ c.line = "ended"
    BY <1>1, <1>2, <2>1, <2>2, MadeHeard DEF Matched
  <2>4. c \in Heards /\ Leads(Readings, heard, Contents(ring'), c)
    BY <1>1, <1>3, <1>i, <2>2, <2>3, MadeTokens, LedOn DEF Matched, Dedent, EmitOne
  <2>5. Len(indents') = Len(indents) - 1
    BY <1>3, <1>i, <2>1, OneLess DEF Dedent
  <2>6. Matched(c)'
    BY <1>1, <1>2, <1>3, <1>i, <2>3, <2>4, <2>5, MadeTokens DEF Matched, Dedent, EmitOne, AtLineStart
  <2>7. QED
    BY <1>3, <1>i, <2>4, <2>6 DEF StreamInv, StreamFollows, ClosingOK, Dedent
<1>4. CASE Dedented
  <2>i. pc' = "take" /\ UNCHANGED indents
    BY <1>4 DEF Dedented, Goto
  <2>1. CASE cur.type = "WS" /\ EmitOne(cur)
    <3>1. PICK c : c = HeardAfter(e, cur)
      OBVIOUS
    <3>2. /\ Legal(e, cur) /\ ~c.over /\ c.depth = e.depth /\ c.brackets = e.brackets
          /\ c.line \in {"ended", "open"}
      BY <1>2, <1>i, <2>1, <3>1, SpacesHeard
    <3>3. c \in Heards /\ Leads(Readings, heard, Contents(ring'), c)
      BY <1>1, <1>i, <2>1, <3>1, <3>2, LedOn DEF Matched, EmitOne
    <3>4. Matched(c)'
      BY <1>1, <1>2, <1>i, <2>i, <2>1, <3>2, <3>3 DEF Matched, EmitOne, AtLineStart
    <3>5. QED
      BY <1>i, <2>i, <3>3, <3>4 DEF StreamInv, StreamFollows, ClosingOK
  <2>2. CASE UNCHANGED <<ring, last>>
    <3>1. Matched(e)'
      BY <1>1, <1>2, <1>i, <2>i, <2>2 DEF Matched, AtLineStart
    <3>2. QED
      BY <1>i, <2>i, <3>1 DEF StreamInv, StreamFollows, ClosingOK
  <2>3. QED
    BY <1>4, <2>1, <2>2 DEF Dedented
<1>5. QED
  BY <1>3, <1>4

(* Before EOF: the line is ended, and every block is closed.                *)
LEMMA ClosingStream ==
    ASSUME IInv, OrderOK, StreamInv, CloseAtEof \/ CloseLevel
    PROVE  StreamInv'
<1>i. /\ pc \in {"idle", "closing"} /\ ahead.type = "EOF" /\ indents # <<>>
      /\ UNCHANGED <<ahead, opened, heard>> /\ SoundRing(ring, Token)
      /\ indents \in Seq(Nat) /\ Len(indents) \in Nat \ {0} /\ FieldsOK
  <2>1. /\ pc \in {"idle", "closing"} /\ ahead.type = "EOF" /\ indents # <<>>
        /\ UNCHANGED <<ahead, opened, heard>>
    BY DEF CloseAtEof, ClosingDue, CloseLevel, IInv, BacklogOK, StreamInv, ClosingOK
  <2>2. QED
    BY <2>1, BeforeStep, BeforeReading, EmptySeq
<1>1. PICK e \in Heards : Matched(e)
  BY <1>i DEF StreamInv, StreamFollows
<1>2. ~e.over /\ ~BeginsLine(ahead)
  BY <1>1, <1>i DEF Matched, BeginsLine, TextTypes, HiddenTypes, StreamInv, ClosingOK
<1>3. CASE CloseAtEof
  <2>1. ~IsEmpty(ring)
    BY <1>3, <1>i, BeforeReading DEF IInv, BacklogOK, Count, CloseAtEof, ClosingDue
  <2>2. /\ ring' = Emit(ring, LINE_BREAK) /\ last' = "LINE_BREAK"
        /\ pc' = "closing" /\ pc = "idle" /\ UNCHANGED indents
    BY <1>3, <1>i, <2>1, MadeTokens, LastOccupied, NoneAssumption
      DEF CloseAtEof, ClosingDue, EmitOne, Goto
  <2>3. e.line \in {"first", "open", "joined"}
    BY <1>1, <1>2, <2>2 DEF Matched, Heards
  <2>4. PICK c : c = HeardAfter(e, LINE_BREAK)
    OBVIOUS
  <2>5. /\ Legal(e, LINE_BREAK) /\ ~c.over /\ c.depth = e.depth /\ c.brackets = e.brackets
        /\ c.line \in {"ended", "closing"}
    BY <1>2, <2>3, <2>4, MadeHeard
  <2>6. c \in Heards /\ Leads(Readings, heard, Contents(ring'), c)
    BY <1>1, <1>i, <2>2, <2>4, <2>5, MadeTokens, LedOn DEF Matched
  <2>7. Matched(c)'
    BY <1>1, <1>i, <2>2, <2>5, <2>6 DEF Matched, AtLineStart
  <2>8. QED
    BY <1>i, <2>2, <2>6, <2>7 DEF StreamInv, StreamFollows, ClosingOK
<1>4. CASE CloseLevel
  <2>1. /\ pc = "closing" /\ pc' = (IF Len(indents) = 1 THEN "lexing" ELSE "closing")
        /\ ring' = Emit(ring, DEDENT) /\ last' = "DEDENT"
        /\ indents' = SubSeq(indents, 1, Len(indents) - 1)
    BY <1>4, MadeTokens DEF CloseLevel, EmitOne, Goto
  <2>2. PICK c : c = HeardAfter(e, DEDENT)
    OBVIOUS
  <2>3. /\ Legal(e, DEDENT) /\ ~c.over /\ c.depth = e.depth - 1 /\ c.brackets = e.brackets
        /\ c.line \in {"ended", "closing"}
    BY <1>1, <1>2, <1>i, <2>1, <2>2, MadeHeard DEF Matched
  <2>4. c \in Heards /\ Leads(Readings, heard, Contents(ring'), c)
    BY <1>1, <1>i, <2>1, <2>2, <2>3, MadeTokens, LedOn DEF Matched
  <2>5. Len(indents') = Len(indents) - 1 /\ (Len(indents) = 1 => indents' = <<>>)
    BY <1>i, <2>1, OneLess
  <2>6. Matched(c)'
    BY <1>1, <1>i, <2>1, <2>3, <2>4, <2>5 DEF Matched, AtLineStart
  <2>7. QED
    BY <1>i, <2>1, <2>4, <2>5, <2>6 DEF StreamInv, StreamFollows, ClosingOK
<1>5. QED
  BY <1>3, <1>4

(* Stray characters begin a line, and the token behind tells of them.       *)
LEMMA SkipStream ==
    ASSUME IInv, StreamInv, SkipChar, ~SkippedLast
    PROVE  StreamInv'
<1>i. /\ pc \in {"idle", "lexing"} /\ ahead.type \in Unmatched /\ Consume /\ FieldsOK
      /\ pc' = "lexing" /\ UNCHANGED <<opened, indents, ring, last, heard>>
  BY BeforeStep DEF SkipChar, Lexes, Goto
<1>1. PICK e \in Heards : Matched(e)
  BY <1>i DEF StreamInv, StreamFollows
<1>2. /\ ~e.over /\ e.line # "closing" /\ (e.line \in {"ended", "indented"} => BeginsLine(ahead))
  BY <1>1, <1>i, LineBefore DEF Unmatched
<1>3. ahead'.type # "EOF"
  BY <1>i, ReadsOn
<1>g. BeginsLine(ahead) => BeginsLine(ahead')
  BY <1>3, <1>i, ReadsOn DEF BeginsLine, Unmatched, TextTypes, HiddenTypes
<1>4. Matched(e)'
  BY <1>1, <1>2, <1>g, <1>i DEF Matched, AtLineStart
<1>5. QED
  BY <1>3, <1>4, <1>i DEF StreamInv, StreamFollows, ClosingOK

LEMMA EofStream ==
    ASSUME IInv, StreamInv, LexEof
    PROVE  StreamInv'
<1>i. /\ pc \in {"idle", "lexing"} /\ ahead.type = "EOF" /\ indents = <<>>
      /\ ring' = Emit(ring, ahead) /\ pc' = "take" /\ UNCHANGED <<ahead, opened, indents, heard>>
      /\ SoundRing(ring, Token) /\ ahead \in Token /\ ahead.gap = FALSE /\ last' = "EOF"
  BY BeforeStep DEF LexEof, Lexes, ClosingDue, EmitOne, Goto, StreamInv, ClosingOK
<1>1. PICK e \in Heards : Matched(e)
  BY <1>i DEF StreamInv, StreamFollows
<1>2. e.depth = 0 /\ e.line # "indented"
  <2>1. Len(<<>>) = 0
    BY EmptySeq
  <2>2. QED
    BY <1>1, <1>i, <2>1 DEF Matched, BeginsLine, TextTypes, HiddenTypes
<1>3. PICK c : c = HeardAfter(e, ahead)
  OBVIOUS
<1>4. /\ Legal(e, ahead) /\ c.over /\ c.depth = e.depth /\ c.brackets = e.brackets
      /\ c.line = e.line
  BY <1>2, <1>3, <1>i, HeardFields, LineFields DEF Legal, TextTypes, HiddenTypes
<1>5. c \in Heards /\ Leads(Readings, heard, Contents(ring'), c)
  BY <1>1, <1>3, <1>4, <1>i, LedOn DEF Matched
<1>6. Matched(c)'
  BY <1>1, <1>2, <1>4, <1>5, <1>i DEF Matched, AtLineStart
<1>7. QED
  BY <1>5, <1>6, <1>i DEF StreamInv, StreamFollows, ClosingOK

(* What is heard is a step of the stream, or nothing to it.                 *)
LEMMA HeardStep ==
    ASSUME NEW h \in Heards, NEW t \in Token, heard = h, Legal(h, t), ~h.over,
           heard' = HeardAfter(h, t)
    PROVE  Lines!Emit \/ UNCHANGED Lines!stream
<1>1. /\ heard'.over = (h.over \/ t.type = "EOF")
      /\ heard'.depth = IF t.type = "INDENT" THEN h.depth + 1
                        ELSE IF t.type = "DEDENT" THEN h.depth - 1 ELSE h.depth
      /\ heard'.brackets = IF t.type = "OPEN" THEN h.brackets + 1
                           ELSE IF t.type = "CLOSE" /\ h.brackets > 0
                           THEN h.brackets - 1 ELSE h.brackets
      /\ heard'.line =
           IF t.type = "LINE_BREAK" THEN IF h.brackets = 0 THEN "ended" ELSE "closing"
           ELSE IF t.type = "INDENT" THEN "indented"
           ELSE IF t.type \in TextTypes \/ (t.type \in HiddenTypes /\ t.gap) THEN "open"
           ELSE IF t.type = "LINE_JOIN"
           THEN IF h.line = "ended" THEN "joined" ELSE IF h.line = "indented" THEN "open" ELSE h.line
           ELSE h.line
  BY HeardFields, LineFields
<1>2. h.over = FALSE /\ h.brackets \in Nat /\ (t.type # "EOF" => heard'.over = FALSE)
  BY StillGoing DEF Heards
<1>3. CASE t.type = "LINE_BREAK"
  <2>1. /\ h.line \in {"first", "open", "joined"} /\ heard'.depth = h.depth
        /\ heard'.brackets = h.brackets /\ heard'.over = FALSE
        /\ heard'.line = IF h.brackets > 0 THEN "closing" ELSE "ended"
    BY <1>1, <1>2, <1>3 DEF Legal
  <2>2. Lines!Break
    BY <1>2, <2>1 DEF Lines!Break
  <2>3. QED
    BY <2>2 DEF Lines!Emit
<1>4. CASE t.type = "INDENT"
  <2>1. Lines!Indent
    BY <1>1, <1>2, <1>4 DEF Lines!Indent, Legal, TextTypes, HiddenTypes
  <2>2. QED
    BY <2>1 DEF Lines!Emit
<1>5. CASE t.type = "DEDENT"
  <2>1. Lines!Dedent
    BY <1>1, <1>2, <1>5 DEF Lines!Dedent, Legal, TextTypes, HiddenTypes
  <2>2. QED
    BY <2>1 DEF Lines!Emit
<1>6. CASE t.type \in TextTypes \/ (t.type \in HiddenTypes /\ t.gap)
  <2>1. /\ t.type \notin {"LINE_BREAK", "INDENT", "DEDENT", "EOF"} /\ h.line # "closing"
    BY <1>2, <1>6 DEF Legal, TextTypes, HiddenTypes
  <2>2. Lines!Text
    BY <1>1, <1>2, <1>6, <2>1 DEF Lines!Text, TextTypes, HiddenTypes
  <2>3. QED
    BY <2>2 DEF Lines!Emit
<1>7. CASE t.type = "LINE_JOIN" /\ ~t.gap
  <2>1. CASE h.line \in {"ended", "indented"}
    <3>1. Lines!Joining
      BY <1>1, <1>2, <1>7, <2>1 DEF Lines!Joining, TextTypes, HiddenTypes
    <3>2. QED
      BY <3>1 DEF Lines!Emit
  <2>2. CASE h.line \notin {"ended", "indented"}
    BY <1>1, <1>2, <1>7, <2>2 DEF Lines!stream, TextTypes, HiddenTypes
  <2>3. QED
    BY <2>1, <2>2
<1>8. CASE t.type = "EOF"
  <2>1. Lines!Eof
    BY <1>1, <1>2, <1>8 DEF Lines!Eof, Legal, TextTypes, HiddenTypes
  <2>2. QED
    BY <2>1 DEF Lines!Emit
<1>9. CASE /\ ~(t.type \in HiddenTypes /\ t.gap)
           /\ t.type \notin TextTypes \union {"LINE_BREAK", "INDENT", "DEDENT", "LINE_JOIN", "EOF"}
  <2>1. /\ heard'.depth = h.depth /\ heard'.brackets = h.brackets
        /\ heard'.line = h.line /\ heard'.over = FALSE
    BY <1>1, <1>2, <1>9 DEF TextTypes, HiddenTypes
  <2>2. QED
    BY <1>2, <2>1 DEF Lines!stream
<1>10. QED
  BY <1>3, <1>4, <1>5, <1>6, <1>7, <1>8, <1>9 DEF TextTypes, HiddenTypes

LEMMA TakeStream ==
    ASSUME IInv, OrderOK, StreamInv, TakeToken
    PROVE  StreamInv' /\ (Lines!Emit \/ UNCHANGED Lines!stream)
<1>i. /\ pc = "take" /\ pc' = "idle" /\ ring' = Take(ring)
      /\ heard' = HeardAfter(heard, IF IsEmpty(ring) THEN cur ELSE First(ring))
      /\ UNCHANGED <<ahead, opened, indents, last>> /\ heard \in Heards /\ ~heard.over
  BY BeforeStep DEF TakeToken, Goto, OrderOK
<1>1. ~IsEmpty(ring)
  BY <1>i, BeforeReading DEF IInv, BacklogOK, Count
<1>2. PICK q \in Seq(Token) :
        q = Contents(ring) /\ q # <<>> /\ Contents(ring') = Tail(q) /\ First(ring) = Head(q)
  BY <1>1, <1>i, BeforeStep, ContentsType, TakeTail, NoneAssumption
<1>3. PICK e \in Heards : Matched(e)
  BY <1>i DEF StreamInv, StreamFollows
<1>4. PICK c : <<heard, Head(q), c>> \in Readings /\ Leads(Readings, c, Tail(q), e)
  BY <1>2, <1>3, LeadsTail DEF Matched
<1>5. Head(q) \in Token /\ Legal(heard, Head(q)) /\ c = HeardAfter(heard, Head(q)) /\ c = heard'
  BY <1>1, <1>2, <1>4, <1>i, Reading
<1>6. Lines!Emit \/ UNCHANGED Lines!stream
  BY <1>5, <1>i, HeardStep
<1>7. Matched(e)'
  BY <1>2, <1>3, <1>4, <1>5, <1>i DEF Matched, AtLineStart
<1>8. QED
  BY <1>6, <1>7, <1>i DEF StreamInv, StreamFollows, ClosingOK

LEMMA StreamStep ==
    ASSUME IInv, OrderOK, StreamInv, [Next]_vars, ~SkippedLast
    PROVE  StreamInv' /\ [Lines!Emit \/ Lines!Restart]_(Lines!stream)
<1>1. CASE heard' = heard /\ StreamInv'
  BY <1>1 DEF Lines!stream
<1>2. CASE LexText \/ IncIndentLevel \/ DecIndentLevel
  <2>1. /\ pc \in {"idle", "lexing"} /\ ahead.type \in {"NAME", "OPEN", "CLOSE", "LINE_JOIN", "COMMENT"}
        /\ ring' = Emit(ring, ahead) /\ pc' = "take" /\ UNCHANGED <<indents, heard>> /\ Consume
    BY <1>2 DEF LexText, IncIndentLevel, DecIndentLevel, Lexes, EmitOne, Goto
  <2>2. opened' = IF ahead.type = "OPEN" THEN opened + 1
                  ELSE IF ahead.type = "CLOSE" /\ opened > 0 THEN opened - 1 ELSE opened
    <3>1. opened \in Nat
      BY BeforeStep DEF FieldsOK
    <3>2. CASE LexText
      BY <3>2 DEF LexText, Lexes
    <3>3. CASE IncIndentLevel
      BY <3>3 DEF IncIndentLevel, Lexes
    <3>4. CASE DecIndentLevel
      BY <3>1, <3>4 DEF DecIndentLevel, Lexes
    <3>5. QED
      BY <1>2, <3>2, <3>3, <3>4
  <2>3. QED
    BY <1>1, <2>1, <2>2, RawStream
<1>3. CASE CloseAtEof \/ CloseLevel
  BY <1>1, <1>3, ClosingStream DEF CloseAtEof, CloseLevel
<1>4. CASE HandleNewLine
  BY <1>1, <1>4, NewLineStream DEF HandleNewLine
<1>5. CASE HandleSpaces
  BY <1>1, <1>5, SpacesStream DEF HandleSpaces
<1>6. CASE Dedent \/ Dedented
  BY <1>1, <1>6, DedentedStream DEF Dedent, Dedented
<1>7. CASE SkipChar
  BY <1>1, <1>7, SkipStream DEF SkipChar
<1>8. CASE LexEof
  BY <1>1, <1>8, EofStream DEF LexEof
<1>9. CASE TakeToken
  BY <1>9, TakeStream
<1>10. CASE UNCHANGED vars
  <2>1. ClosingOK => ClosingOK'
    BY <1>10 DEF ClosingOK, vars
  <2>2. StreamFollows => StreamFollows'
    BY <1>10 DEF StreamFollows, Matched, AtLineStart, vars
  <2>3. QED
    BY <1>1, <1>10, <2>1, <2>2 DEF StreamInv, vars
<1>11. QED
  BY <1>2, <1>3, <1>4, <1>5, <1>6, <1>7, <1>8, <1>9, <1>10 DEF Next, NextToken

LEMMA StreamStarts ==
    ASSUME Init
    PROVE  StreamInv /\ Lines!Start
<1>1. Contents(ring) = <<>> /\ Len(<<>>) = 0
  BY InitIInv
<1>2. NothingHeard \in Heards /\ Leads(Readings, NothingHeard, <<>>, NothingHeard)
  BY LeadsEmpty DEF NothingHeard, Heards
<1>3. Matched(NothingHeard)
  BY <1>1, <1>2 DEF Init, Matched, NothingHeard
<1>a. ahead.type = "EOF" => ahead.gap = FALSE
  <2>1. ahead \in Raw(MadeToken("EOF"), 0) /\ MadeToken("EOF") \in Token
    BY Tokens DEF Init
  <2>2. QED
    BY <2>1, 0 \in Nat, RawItem
<1>4. StreamInv
  BY <1>2, <1>3, <1>a DEF Init, StreamInv, StreamFollows, ClosingOK
<1>5. QED
  BY <1>4 DEF Init, Lines!Start, NothingHeard

(* The tokens the caller receives are a stream of lines and blocks, if no   *)
(* input ends with a character that no rule matches (nextToken,             *)
(* process_new_line, HandleNewLine, HandleSpaces).                          *)
THEOREM Stream ==
    ASSUME ~SkippedLast
    PROVE  Spec => StreamOK
<1>1. Init => StreamInv /\ Lines!Start
  BY StreamStarts
<1>2. IInv /\ OrderOK /\ StreamInv /\ [Next]_vars
        => StreamInv' /\ [Lines!Emit \/ Lines!Restart]_(Lines!stream)
  BY StreamStep
<1>3. QED
  BY <1>1, <1>2, OrderKept, PTL DEF Spec, StreamOK, Lines!Stream
=============================================================================
