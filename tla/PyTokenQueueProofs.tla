------------------------- MODULE PyTokenQueueProofs -------------------------
(***************************************************************************)
(* Lemmas about the operators of PyTokenQueue.                              *)
(***************************************************************************)
EXTENDS PyTokenQueue, SequenceLemmas, FiniteSetTheorems, WellFoundedInduction

(* The tokens the lexers read and make up are tokens.                       *)
LEMMA TokenType ==
    ASSUME NEW type \in Types, NEW text \in Seq(Chars), NEW pos \in Nat
    PROVE  /\ RawToken(type, text, pos) \in Token
           /\ RawToken(type, text, pos).type = type
           /\ RawToken(type, text, pos).text = text
           /\ RawToken(type, text, pos).pos = pos
           /\ MadeToken(type, text) \in Token
BY DEF RawToken, MadeToken, Token, Channels

LEMMA MadeTokens ==
    /\ {INDENT, DEDENT, EMPTY_MIDDLE, TRAILING_NEWLINE, LEADING_INDENT,
        BAD_DEDENT, BAD_TABS} \subseteq Token
    /\ NoToken \in Token
<1>1. Messages \subseteq Chars
  BY DEF Chars
<1>2. \A m \in Messages : <<m>> \in Seq(Chars)
  BY <1>1, Singleton
<1>3. <<>> \in Seq(Chars)
  BY EmptySeq
<1>a. \A type \in Types, text \in Seq(Chars) : MadeToken(type, text) \in Token
  BY 0 \in Nat, TokenType
<1>4. {INDENT, DEDENT, EMPTY_MIDDLE} \subseteq Token
  <2>1. {"INDENT", "DEDENT", "FSTRING_MIDDLE"} \subseteq Types
    BY DEF Types
  <2>2. QED
    BY <1>3, <1>a, <2>1 DEF INDENT, DEDENT, EMPTY_MIDDLE
<1>5. {TRAILING_NEWLINE, LEADING_INDENT, BAD_DEDENT, BAD_TABS} \subseteq Token
  <2>1. {"NEWLINE", "INDENT", "ERRORTOKEN"} \subseteq Types
    BY DEF Types
  <2>2. {"trailing", "first statement indented", "inconsistent dedent",
         "inconsistent use of tabs and spaces"} \subseteq Messages
    BY DEF Messages
  <2>3. QED
    BY <1>2, <1>a, <2>1, <2>2
    DEF TRAILING_NEWLINE, LEADING_INDENT, BAD_DEDENT, BAD_TABS
<1>6. NoToken \in Token
  BY <1>3 DEF NoToken, Token, Types, Channels
<1>7. QED
  BY <1>4, <1>5, <1>6

(* A non-empty set of natural numbers that has an upper bound has a largest *)
(* element.                                                                 *)
LEMMA LargestBelow ==
    ASSUME NEW n \in Nat, NEW T \in SUBSET (0..n), T # {}
    PROVE  \E m \in T : \A i \in T : i <= m
<1> DEFINE U == {n - i : i \in T}
<1>1. U \subseteq Nat /\ U # {}
  <2>1. \A i \in T : n - i \in Nat
    OBVIOUS
  <2>2. QED
    BY <2>1
<1>2. PICK x \in U : \A y \in U : ~(<<y, x>> \in OpToRel(<, Nat))
  BY <1>1, WFMin, NatLessThanWellFounded
<1>3. \A y \in U : x <= y
  <2> SUFFICES ASSUME NEW y \in U PROVE x <= y
    OBVIOUS
  <2>1. <<y, x>> \in Nat \X Nat /\ ~(y < x)
    BY <1>1, <1>2 DEF OpToRel
  <2>2. QED
    BY <1>1, <2>1
<1>4. PICK m \in T : x = n - m
  OBVIOUS
<1>5. \A i \in T : i <= m
  <2> SUFFICES ASSUME NEW i \in T PROVE i <= m
    OBVIOUS
  <2>1. n - m <= n - i
    BY <1>3, <1>4
  <2>2. i \in Int /\ m \in Int /\ n \in Int
    BY DEF U
  <2> HIDE DEF U
  <2>3. QED
    BY <2>1, <2>2
<1>6. QED
  BY <1>5

(* The queue stays a queue, and its last token is the one just added.       *)
LEMMA AddPendingType ==
    ASSUME NEW q \in Queue, NEW t \in Token
    PROVE  /\ AddPending(q, t) \in Queue
           /\ AddPending(q, t).pending # <<>>
           /\ Last(AddPending(q, t).pending) = t
           /\ AddPending(q, t).prev = t.type
<1>1. q.pending \in Seq(Token) /\ q.last \in Types /\ t.type \in Types
  BY DEF Queue, Token
<1>2. /\ Append(q.pending, t) \in Seq(Token)
      /\ Append(q.pending, t) # <<>>
      /\ Len(Append(q.pending, t)) = Len(q.pending) + 1
      /\ Append(q.pending, t)[Len(q.pending) + 1] = t
  BY <1>1, AppendProperties
<1>3. QED
  BY <1>1, <1>2 DEF AddPending, Queue, Last

LEMMA AddAllType ==
    ASSUME NEW q \in Queue, NEW ts \in Seq(Token)
    PROVE  /\ AddAll(q, ts) \in Queue
           /\ ts = <<>> => AddAll(q, ts) = q
           /\ ts # <<>> => /\ AddAll(q, ts).pending # <<>>
                           /\ Last(AddAll(q, ts).pending) = Last(ts)
                           /\ AddAll(q, ts).prev = Last(ts).type
<1>1. CASE ts = <<>>
  BY <1>1 DEF AddAll
<1>2. CASE ts # <<>>
  <2>1. q.pending \in Seq(Token)
    BY DEF Queue
  <2>2. Last(ts) \in Token /\ Last(ts) = ts[Len(ts)] /\ Len(ts) \in Nat \ {0}
    BY <1>2, FrontLast
  <2> DEFINE s == q.pending \o ts
  <2>3. /\ s \in Seq(Token)
        /\ Len(s) = Len(q.pending) + Len(ts)
        /\ \A i \in 1..(Len(q.pending) + Len(ts)) :
              s[i] = IF i <= Len(q.pending) THEN q.pending[i] ELSE ts[i - Len(q.pending)]
    BY <2>1, ConcatProperties
  <2>4. Len(q.pending) \in Nat
    BY <2>1, LenProperties
  <2>5. s[Len(s)] = ts[Len(ts)]
    <3>1. Len(s) \in 1..(Len(q.pending) + Len(ts)) /\ ~(Len(s) <= Len(q.pending))
      BY <2>2, <2>3, <2>4
    <3>2. Len(s) - Len(q.pending) = Len(ts)
      BY <2>2, <2>3, <2>4
    <3>3. QED
      BY <2>3, <3>1, <3>2
  <2>6. s # <<>>
    BY <2>2, <2>3, <2>4, EmptySeq
  <2>7. Last(ts).type \in Types
    BY <2>2 DEF Token
  <2> HIDE DEF s
  <2>8. AddAll(q, ts) = [pending |-> s, prev |-> Last(ts).type, last |-> Last(ts).type]
    BY <1>2 DEF AddAll, s
  <2>9. Last(s) = Last(ts)
    BY <2>2, <2>5 DEF Last
  <2>10. QED
    BY <1>2, <2>3, <2>6, <2>7, <2>8, <2>9 DEF Queue
<1>3. QED
  BY <1>1, <1>2
(* The loop of insert_INDENT_or_DEDENT stops: the bottom 0 is never deeper  *)
(* than the new line.                                                       *)
LEMMA KeptStops ==
    ASSUME NEW stack \in Seq(Nat), SoundStack(stack), NEW len \in Nat
    PROVE  /\ Kept(stack, len) \in 1..Len(stack)
           /\ StopsAt(stack, len, Kept(stack, len))
<1>1. /\ DOMAIN stack = 1..Len(stack) /\ Len(stack) \in Nat \ {0}
      /\ \A i \in 1..Len(stack) : stack[i] \in Nat
  BY EmptySeq, LenProperties, ElementOfSeq DEF SoundStack
<1> DEFINE T == {i \in 1..Len(stack) : stack[i] <= len}
<1>2. 1 \in T
  BY <1>1 DEF SoundStack
<1>3. T \in SUBSET (0..Len(stack))
  BY <1>1
<1>4. PICK m \in T : \A i \in T : i <= m
  BY <1>1, <1>2, <1>3, LargestBelow
<1>5. StopsAt(stack, len, m)
  BY <1>1, <1>4 DEF StopsAt
<1>6. QED
  BY <1>1, <1>5 DEF Kept

(* INDENT and DEDENT leave the stack sound, and its top is the new line's   *)
(* length or the level it falls back on.                                    *)
LEMMA StackAfterSound ==
    ASSUME NEW stack \in Seq(Nat), SoundStack(stack), NEW len \in Nat
    PROVE  /\ StackAfter(stack, len) \in Seq(Nat)
           /\ SoundStack(StackAfter(stack, len))
<1>1. /\ DOMAIN stack = 1..Len(stack) /\ Len(stack) \in Nat \ {0}
      /\ \A i \in 1..Len(stack) : stack[i] \in Nat
  BY EmptySeq, LenProperties, ElementOfSeq DEF SoundStack
<1>2. CASE len > Last(stack)
  <2> DEFINE s == Append(stack, len)
  <2>1. /\ s \in Seq(Nat) /\ s # <<>> /\ Len(s) = Len(stack) + 1
        /\ \A i \in 1..Len(stack) : s[i] = stack[i]
        /\ s[Len(stack) + 1] = len
    BY AppendProperties
  <2>2. DOMAIN s = 1..(Len(stack) + 1)
    BY <2>1, LenProperties
  <2> HIDE DEF s
  <2>3. s[1] = 0
    BY <1>1, <2>1 DEF SoundStack
  <2>4. \A i, j \in DOMAIN s : i < j => s[i] < s[j]
    <3> SUFFICES ASSUME NEW i \in DOMAIN s, NEW j \in DOMAIN s, i < j
                 PROVE  s[i] < s[j]
      OBVIOUS
    <3>1. i \in 1..Len(stack) /\ s[i] = stack[i]
      BY <1>1, <2>1, <2>2
    <3>2. stack[i] <= stack[Len(stack)]
      BY <1>1, <3>1 DEF SoundStack
    <3>3. CASE j = Len(stack) + 1
      BY <1>1, <1>2, <2>1, <3>1, <3>2, <3>3 DEF Last
    <3>4. CASE j \in 1..Len(stack)
      BY <1>1, <2>1, <3>1, <3>4 DEF SoundStack
    <3>5. QED
      BY <1>1, <2>2, <3>3, <3>4
  <2>5. StackAfter(stack, len) = s
    BY <1>2 DEF StackAfter, s
  <2>6. QED
    BY <2>1, <2>3, <2>4, <2>5 DEF SoundStack
<1>3. CASE ~(len > Last(stack))
  <2> DEFINE k == Kept(stack, len)
             s == SubSeq(stack, 1, k)
  <2>1. k \in 1..Len(stack)
    BY KeptStops
  <2> HIDE DEF k
  <2>2. /\ s \in Seq(Nat) /\ Len(s) = k
        /\ \A i \in 1..k : s[i] = stack[i]
    <3>1. k \in Int /\ \A i \in 1..k : stack[i] \in Nat
      BY <1>1, <2>1
    <3>2. /\ s \in Seq(Nat) /\ Len(s) = IF 1 <= k THEN k - 1 + 1 ELSE 0
          /\ \A i \in 1..(k - 1 + 1) : s[i] = stack[1 + i - 1]
      BY <3>1, 1 \in Int, SubSeqProperties
    <3>3. k - 1 + 1 = k /\ 1 <= k /\ \A i \in 1..k : 1 + i - 1 = i
      BY <1>1, <2>1
    <3>4. QED
      BY <3>2, <3>3
  <2>3. DOMAIN s = 1..k
    BY <2>2, LenProperties
  <2> HIDE DEF s
  <2>4. s # <<>> /\ s[1] = 0
    BY <1>1, <2>1, <2>2, EmptySeq DEF SoundStack
  <2>5. \A i, j \in DOMAIN s : i < j => s[i] < s[j]
    BY <1>1, <2>1, <2>2, <2>3 DEF SoundStack
  <2>6. StackAfter(stack, len) = s
    BY <1>3 DEF StackAfter, s, k
  <2>7. QED
    BY <2>2, <2>4, <2>5, <2>6 DEF SoundStack
<1>4. QED
  BY <1>2, <1>3

(* The tokens that announce the change of level.                            *)
LEMMA LevelTokensType ==
    ASSUME NEW stack \in Seq(Nat), SoundStack(stack), NEW len \in Nat
    PROVE  /\ LevelTokens(stack, len) \in Seq(Token)
           /\ \A i \in 1..Len(LevelTokens(stack, len)) :
                 LevelTokens(stack, len)[i] \in {INDENT, DEDENT, BAD_DEDENT}
<1>1. {INDENT, DEDENT, BAD_DEDENT} \subseteq Token
  BY MadeTokens
<1>2. CASE len > Last(stack)
  <2>1. LevelTokens(stack, len) = <<INDENT>>
    BY <1>2 DEF LevelTokens
  <2>2. QED
    BY <1>1, <2>1
<1>3. CASE ~(len > Last(stack))
  <2> DEFINE n == Len(stack) - Kept(stack, len)
             t == [i \in 1..n |-> IF len <= stack[Len(stack) - i] THEN DEDENT ELSE BAD_DEDENT]
  <2>1. n \in Nat
    <3>1. Kept(stack, len) \in 1..Len(stack) /\ Len(stack) \in Nat
      BY KeptStops, LenProperties
    <3>2. QED
      BY <3>1
  <2>2. LevelTokens(stack, len) = t
    BY <1>3 DEF LevelTokens
  <2> HIDE DEF n
  <2>3. t \in [1..n -> {INDENT, DEDENT, BAD_DEDENT}]
    OBVIOUS
  <2> HIDE DEF t
  <2>4. t \in [1..n -> Token]
    BY <1>1, <2>3
  <2>5. t \in Seq(Token) /\ Len(t) = n
    BY <2>1, <2>4
  <2>6. QED
    BY <2>2, <2>3, <2>5
<1>4. QED
  BY <1>2, <1>3

(* The queue knows the type of its last token.                              *)
QueueOK(q) == q \in Queue /\ (q.pending # <<>> => Last(q.pending).type = q.prev)

LEMMA AddPendingOK ==
    ASSUME NEW q, QueueOK(q), NEW t \in Token
    PROVE  /\ QueueOK(AddPending(q, t))
           /\ AddPending(q, t).pending # <<>>
           /\ AddPending(q, t).prev = t.type
BY AddPendingType DEF QueueOK

LEMMA AddAllOK ==
    ASSUME NEW q, QueueOK(q), NEW ts \in Seq(Token)
    PROVE  /\ QueueOK(AddAll(q, ts))
           /\ q.pending # <<>> => AddAll(q, ts).pending # <<>>
BY AddAllType DEF QueueOK

LEMMA HideAndAddOK ==
    ASSUME NEW q, QueueOK(q), NEW t \in Token
    PROVE  QueueOK(HideAndAdd(q, t)) /\ HideAndAdd(q, t).pending # <<>>
<1>1. [t EXCEPT !.ch = "hidden"] \in Token
  BY DEF Token, Channels
<1>2. QED
  BY <1>1, AddPendingOK DEF HideAndAdd

(* Measuring whitespace only moves the flags.                               *)
LEMMA MeasuredType ==
    ASSUME NEW i \in Indentation, NEW text
    PROVE  Measured(i, text) \in Indentation /\ Measured(i, text).stack = i.stack
<1>1. /\ SeenSpace(i, text) \in BOOLEAN /\ SeenTab(i, text) \in BOOLEAN
      /\ (i.mixed \/ FirstMix(i, text)) \in BOOLEAN
  BY DEF SeenSpace, SeenTab, FirstMix, Indentation
<1>2. i.stack \in Seq(Nat)
  BY DEF Indentation
<1>3. QED
  BY <1>1, <1>2 DEF Measured, Indentation

(* What the next popped token tells the caller.                             *)
LEMMA HeardType ==
    ASSUME NEW h \in Heard, NEW t \in Token
    PROVE  HeardAfter(h, t) \in Heard /\ (t.type = "EOF" => HeardAfter(h, t).phase = "ended")
<1>1. LineAfter(h.line, t) \in {"first", "open", "ended", "indented", "joined"}
  BY DEF LineAfter, Heard
<1>2. PhaseAfter(h.phase, t) \in {"fresh", "body", "closing", "ended"}
  BY DEF PhaseAfter, Heard
<1>3. (IF t.pos = 0 THEN h.got ELSE t.pos) \in Nat
  BY DEF Heard, Token
<1>4. t.type = "EOF" => PhaseAfter(h.phase, t) = "ended"
  BY DEF PhaseAfter, TRAILING_NEWLINE, MadeToken
<1>5. QED
  BY <1>1, <1>2, <1>3, <1>4 DEF HeardAfter, Heard

---------------------------------------------------------------------------
(* The order of the raw tokens.  After raw token p comes the next one, a    *)
(* brace cut off from p itself, or, when a WS token was dropped, the one    *)
(* after.                                                                   *)
Follows(again, mixed, p, t) ==
    \/ t.pos = p + 1
    \/ t.pos = p /\ t.type \in again
    \/ t.pos = p + 2 /\ mixed

(* Those waiting in a queue, and whether they come in order after p, the    *)
(* last of them being e.                                                    *)
Waiting(q) == OnlyIn(q.pending, ReadTokens)

InOrder(again, mixed, p, s) ==
    \A i \in 1..Len(s) : Follows(again, mixed, IF i = 1 THEN p ELSE s[i - 1].pos, s[i])

EndOf(p, s) == IF s = <<>> THEN p ELSE s[Len(s)].pos

Ordered(again, mixed, p, q, e) ==
    InOrder(again, mixed, p, Waiting(q)) /\ e = EndOf(p, Waiting(q))

LEMMA WaitingType ==
    ASSUME NEW q \in Queue
    PROVE  q.pending \in Seq(Token) /\ Waiting(q) \in Seq(Token)
<1>1. q.pending \in Seq(Token)
  BY DEF Queue
<1>2. Waiting(q) \in Seq(Token \cap ReadTokens)
  BY <1>1, OnlyInType DEF Waiting
<1>3. Token \cap ReadTokens \subseteq Token
  OBVIOUS
<1>4. QED
  BY <1>1, <1>2, <1>3, SeqMonotonic

LEMMA EmptyOrdered ==
    ASSUME NEW again, NEW mixed, NEW p, NEW q, q.pending = <<>>
    PROVE  Ordered(again, mixed, p, q, p)
<1>1. Waiting(q) = <<>>
  BY OnlyInEmpty DEF Waiting
<1>2. Len(<<>>) = 0
  OBVIOUS
<1>3. QED
  BY <1>1, <1>2 DEF Ordered, InOrder, EndOf

(* One more at the end, one less at the front.                              *)
LEMMA OrderAppend ==
    ASSUME NEW again, NEW mixed, NEW p, NEW s \in Seq(Token), NEW t \in Token,
           InOrder(again, mixed, p, s), Follows(again, mixed, EndOf(p, s), t)
    PROVE  InOrder(again, mixed, p, Append(s, t)) /\ EndOf(p, Append(s, t)) = t.pos
<1> DEFINE n == Len(s)
           u == Append(s, t)
<1>1. /\ n \in Nat /\ Len(u) = n + 1 /\ u # <<>>
      /\ \A i \in 1..n : u[i] = s[i]
      /\ u[n + 1] = t
  BY AppendLast, LenProperties
<1>2. n = 0 => s = <<>>
  BY EmptySeq
<1>3. n # 0 => s # <<>>
  BY EmptySeq
<1> HIDE DEF n, u
<1>4. SUFFICES ASSUME NEW i \in 1..(n + 1)
               PROVE  Follows(again, mixed, IF i = 1 THEN p ELSE u[i - 1].pos, u[i])
  BY <1>1 DEF InOrder, EndOf, u
<1>5. CASE i = n + 1
  <2>1. CASE n = 0
    BY <1>1, <1>2, <1>5, <2>1 DEF EndOf
  <2>2. CASE n # 0
    <3>1. i # 1 /\ i - 1 = n /\ n \in 1..n
      BY <1>1, <1>5, <2>2
    <3>2. u[i - 1] = s[n] /\ u[i] = t
      BY <1>1, <1>5, <3>1
    <3>3. EndOf(p, s) = s[n].pos
      BY <1>3, <2>2 DEF EndOf, n
    <3>4. QED
      BY <3>1, <3>2, <3>3
  <2>3. QED
    BY <2>1, <2>2
<1>6. CASE i # n + 1
  <2>1. i \in 1..n /\ (i # 1 => i - 1 \in 1..n)
    BY <1>1, <1>6
  <2>2. u[i] = s[i] /\ (i # 1 => u[i - 1] = s[i - 1])
    BY <1>1, <2>1
  <2>3. Follows(again, mixed, IF i = 1 THEN p ELSE s[i - 1].pos, s[i])
    BY <2>1 DEF InOrder, n
  <2>4. QED
    BY <2>2, <2>3
<1>7. QED
  BY <1>5, <1>6

LEMMA OrderTail ==
    ASSUME NEW again, NEW mixed, NEW p, NEW s \in Seq(Token), s # <<>>,
           InOrder(again, mixed, p, s)
    PROVE  /\ InOrder(again, mixed, Head(s).pos, Tail(s))
           /\ EndOf(Head(s).pos, Tail(s)) = EndOf(p, s)
<1> DEFINE n == Len(s)
           t == Tail(s)
<1>1. /\ n \in Nat \ {0} /\ Len(t) = n - 1 /\ Head(s) = s[1] /\ t \in Seq(Token)
      /\ \A i \in 1..(n - 1) : t[i] = s[i + 1]
  BY HeadTailProperties, EmptySeq
<1>2. (n = 1 => t = <<>>) /\ (n # 1 => t # <<>>)
  <2>1. n = 1 => Len(t) = 0
    BY <1>1
  <2>2. n # 1 => Len(t) # 0
    BY <1>1
  <2> HIDE DEF t, n
  <2>3. QED
    BY <1>1, <2>1, <2>2, EmptySeq
<1> HIDE DEF n, t
<1>3. InOrder(again, mixed, s[1].pos, t)
  <2> SUFFICES ASSUME NEW i \in 1..(n - 1)
               PROVE  Follows(again, mixed, IF i = 1 THEN s[1].pos ELSE t[i - 1].pos, t[i])
    BY <1>1 DEF InOrder
  <2>1. i + 1 \in 1..n /\ i + 1 # 1 /\ (i + 1) - 1 = i
    BY <1>1
  <2>2. Follows(again, mixed, s[i].pos, s[i + 1])
    BY <2>1 DEF InOrder, n
  <2>3. i # 1 => t[i - 1] = s[i]
    <3> SUFFICES ASSUME i # 1 PROVE t[i - 1] = s[i]
      OBVIOUS
    <3>1. i - 1 \in 1..(n - 1) /\ (i - 1) + 1 = i
      BY <1>1
    <3>2. QED
      BY <1>1, <3>1
  <2>4. t[i] = s[i + 1]
    BY <1>1
  <2>5. QED
    BY <2>2, <2>3, <2>4
<1>4. EndOf(s[1].pos, t) = s[n].pos
  <2>1. CASE n = 1
    BY <1>2, <2>1 DEF EndOf
  <2>2. CASE n # 1
    <3>1. n - 1 \in 1..(n - 1) /\ (n - 1) + 1 = n
      BY <1>1, <2>2
    <3>2. t[n - 1] = s[n]
      BY <1>1, <3>1
    <3>3. QED
      BY <1>1, <1>2, <2>2, <3>2 DEF EndOf
  <2>3. QED
    BY <2>1, <2>2
<1>5. QED
  BY <1>1, <1>3, <1>4 DEF t, EndOf, n

(* What the operations on the queue do to the order.                        *)
LEMMA PutMade ==
    ASSUME NEW again, NEW mixed, NEW p, NEW e, NEW q \in Queue, NEW t \in Token,
           Ordered(again, mixed, p, q, e), t.pos = 0
    PROVE  Ordered(again, mixed, p, AddPending(q, t), e)
<1>1. q.pending \in Seq(Token) /\ t \notin ReadTokens
  BY WaitingType DEF ReadTokens
<1>2. OnlyIn(Append(q.pending, t), ReadTokens) = OnlyIn(q.pending, ReadTokens)
  BY <1>1, OnlyInAppend
<1>3. AddPending(q, t).pending = Append(q.pending, t)
  BY DEF AddPending
<1>4. QED
  BY <1>2, <1>3 DEF Ordered, Waiting

LEMMA PutRead ==
    ASSUME NEW again, NEW mixed, NEW p, NEW e, NEW q \in Queue, NEW t \in Token,
           Ordered(again, mixed, p, q, e), t.pos # 0, Follows(again, mixed, e, t)
    PROVE  Ordered(again, mixed, p, AddPending(q, t), t.pos)
<1>1. q.pending \in Seq(Token) /\ t \in ReadTokens /\ Waiting(q) \in Seq(Token)
  BY WaitingType DEF ReadTokens
<1>2. OnlyIn(Append(q.pending, t), ReadTokens) = Append(OnlyIn(q.pending, ReadTokens), t)
  BY <1>1, OnlyInAppend
<1>3. AddPending(q, t).pending = Append(q.pending, t)
  BY DEF AddPending
<1>4. Waiting(AddPending(q, t)) = Append(Waiting(q), t)
  BY <1>2, <1>3 DEF Waiting
<1>5. QED
  BY <1>1, <1>4, OrderAppend DEF Ordered

LEMMA PutHidden ==
    ASSUME NEW again, NEW mixed, NEW p, NEW e, NEW q \in Queue, NEW t \in Token,
           Ordered(again, mixed, p, q, e), t.pos # 0, Follows(again, mixed, e, t)
    PROVE  Ordered(again, mixed, p, HideAndAdd(q, t), t.pos)
<1> DEFINE h == [t EXCEPT !.ch = "hidden"]
<1>1. h \in Token /\ h.pos = t.pos /\ h.type = t.type
  BY DEF Token, Channels
<1> HIDE DEF h
<1>2. Follows(again, mixed, e, h)
  BY <1>1 DEF Follows
<1>3. Ordered(again, mixed, p, AddPending(q, h), h.pos)
  BY <1>1, <1>2, PutRead
<1>4. QED
  BY <1>1, <1>3 DEF HideAndAdd, h

LEMMA PutLevels ==
    ASSUME NEW again, NEW mixed, NEW p, NEW e, NEW q \in Queue,
           NEW stack \in Seq(Nat), SoundStack(stack), NEW len \in Nat,
           Ordered(again, mixed, p, q, e)
    PROVE  Ordered(again, mixed, p, AddAll(q, LevelTokens(stack, len)), e)
<1> DEFINE Made == {INDENT, DEDENT, BAD_DEDENT}
<1>1. Made \subseteq Token /\ Made \cap ReadTokens = {}
  <2>1. INDENT.pos = 0 /\ DEDENT.pos = 0 /\ BAD_DEDENT.pos = 0
    BY DEF INDENT, DEDENT, BAD_DEDENT, MadeToken
  <2>2. QED
    BY <2>1, MadeTokens DEF ReadTokens
<1>2. PICK ts \in Seq(Token) : ts = LevelTokens(stack, len)
  BY LevelTokensType
<1>3. \A i \in 1..Len(ts) : ts[i] \in Made
  BY <1>2, LevelTokensType
<1> HIDE DEF Made
<1>4. ts \in Seq(Made)
  BY <1>3, SeqOfAll
<1>5. OnlyIn(ts, ReadTokens) = <<>>
  BY <1>1, <1>4, OnlyInNone
<1>6. q.pending \in Seq(Token) /\ Waiting(q) \in Seq(Token)
  BY WaitingType
<1>7. OnlyIn(q.pending \o ts, ReadTokens) = OnlyIn(q.pending, ReadTokens) \o OnlyIn(ts, ReadTokens)
  BY <1>6, OnlyInConcat
<1>8. Waiting(q) \o <<>> = Waiting(q)
  BY <1>6, ConcatEmptySeq
<1>9. OnlyIn(q.pending \o ts, ReadTokens) = Waiting(q)
  BY <1>5, <1>7, <1>8 DEF Waiting
<1>10. Waiting(AddAll(q, ts)) = Waiting(q)
  <2>1. CASE ts = <<>>
    BY <2>1 DEF AddAll
  <2>2. CASE ts # <<>>
    <3>1. AddAll(q, ts).pending = q.pending \o ts
      BY <2>2 DEF AddAll
    <3>2. QED
      BY <1>9, <3>1 DEF Waiting
  <2>3. QED
    BY <2>1, <2>2
<1>11. QED
  BY <1>2, <1>10 DEF Ordered

LEMMA TakeHead ==
    ASSUME NEW again, NEW mixed, NEW h \in Heard, NEW e, NEW q \in Queue, q.pending # <<>>,
           Ordered(again, mixed, h.got, q, e)
    PROVE  Ordered(again, mixed, HeardAfter(h, Head(q.pending)).got,
                   [q EXCEPT !.pending = Tail(@)], e)
<1> DEFINE s == q.pending
           c == Waiting(q)
           g == HeardAfter(h, Head(s)).got
           r == [q EXCEPT !.pending = Tail(@)]
<1>1. s \in Seq(Token) /\ c \in Seq(Token) /\ s # <<>>
  BY WaitingType
<1>2. Head(s) \in Token /\ Tail(s) \in Seq(Token)
  BY <1>1, HeadTail
<1>3. r.pending = Tail(s) /\ c = OnlyIn(s, ReadTokens)
  BY DEF Queue, Waiting
<1>4. g = IF Head(s).pos = 0 THEN h.got ELSE Head(s).pos
  BY DEF HeardAfter
<1>5. Head(s) \in ReadTokens <=> Head(s).pos # 0
  BY <1>2 DEF ReadTokens
<1> HIDE DEF s, r, g, c
<1>6. c = IF Head(s) \in ReadTokens THEN <<Head(s)>> \o OnlyIn(Tail(s), ReadTokens)
          ELSE OnlyIn(Tail(s), ReadTokens)
  BY <1>1, <1>3, OnlyInTail
<1>7. Waiting(r) = OnlyIn(Tail(s), ReadTokens)
  BY <1>3 DEF Waiting
<1>8. InOrder(again, mixed, h.got, c) /\ e = EndOf(h.got, c)
  BY DEF Ordered, c
<1>9. CASE Head(s).pos = 0
  BY <1>4, <1>5, <1>6, <1>7, <1>8, <1>9 DEF Ordered, r, g, s
<1>10. CASE Head(s).pos # 0
  <2>1. PICK d \in Seq(Token) : d = Waiting(r)
    <3>1. OnlyIn(Tail(s), ReadTokens) \in Seq(Token \cap ReadTokens)
      BY <1>2, OnlyInType
    <3>2. Token \cap ReadTokens \subseteq Token
      OBVIOUS
    <3>3. OnlyIn(Tail(s), ReadTokens) \in Seq(Token)
      BY <3>1, <3>2, SeqMonotonic
    <3>4. QED
      BY <1>7, <3>3
  <2>2. c = <<Head(s)>> \o d
    BY <1>5, <1>6, <1>7, <1>10, <2>1
  <2>3. c # <<>> /\ Head(c) = Head(s) /\ Tail(c) = d
    BY <1>2, <2>2, ConsHeadTail
  <2>4. /\ InOrder(again, mixed, Head(c).pos, Tail(c))
        /\ EndOf(Head(c).pos, Tail(c)) = EndOf(h.got, c)
    BY <1>1, <1>8, <2>3, OrderTail
  <2>5. g = Head(c).pos
    BY <1>4, <1>10, <2>3
  <2>6. QED
    BY <1>8, <2>1, <2>3, <2>4, <2>5 DEF Ordered, r, g, s
<1>11. QED
  BY <1>9, <1>10

LEMMA OrderedMixed ==
    ASSUME NEW again, NEW mixed, NEW m, mixed => m, NEW p, NEW e, NEW q,
           Ordered(again, mixed, p, q, e)
    PROVE  Ordered(again, m, p, q, e)
BY DEF Ordered, InOrder, Follows

(* At most two tokens behind those that wait.                               *)
LEMMA OrderOfTwo ==
    ASSUME NEW again, NEW mixed, NEW p, NEW e, NEW q \in Queue,
           Ordered(again, mixed, p, q, e), NEW a, NEW b,
           a = <<>> \/ \E t \in Token : a = <<t>> /\ Follows(again, mixed, e, t),
           b = <<>> \/ \E t \in Token :
                          b = <<t>> /\ Follows(again, mixed, IF a = <<>> THEN e ELSE a[1].pos, t)
    PROVE  InOrder(again, mixed, p, Waiting(q) \o a \o b)
<1> DEFINE s == Waiting(q)
<1>1. s \in Seq(Token)
  BY WaitingType
<1>2. InOrder(again, mixed, p, s) /\ e = EndOf(p, s)
  BY DEF Ordered
<1> HIDE DEF s
<1>3. \A u \in Seq(Token), t \in Token : u \o <<t>> = Append(u, t) /\ Append(u, t) \in Seq(Token)
  <2> SUFFICES ASSUME NEW u \in Seq(Token), NEW t \in Token
               PROVE  u \o <<t>> = Append(u, t) /\ Append(u, t) \in Seq(Token)
    OBVIOUS
  <2>1. QED
    BY AppendIsConcat, AppendLast
<1>4. \A u \in Seq(Token) : u \o <<>> = u
  BY ConcatEmptySeq
<1>5. PICK v \in Seq(Token) : /\ v = s \o a /\ InOrder(again, mixed, p, v)
                              /\ EndOf(p, v) = IF a = <<>> THEN e ELSE a[1].pos
  <2>1. CASE a = <<>>
    BY <1>1, <1>2, <1>4, <2>1
  <2>2. CASE a # <<>>
    <3>1. PICK t \in Token : a = <<t>> /\ Follows(again, mixed, e, t)
      BY <2>2
    <3>2. InOrder(again, mixed, p, Append(s, t)) /\ EndOf(p, Append(s, t)) = t.pos
      BY <1>1, <1>2, <3>1, OrderAppend
    <3>3. s \o a = Append(s, t) /\ Append(s, t) \in Seq(Token) /\ a[1] = t
      BY <1>1, <1>3, <3>1
    <3>4. QED
      BY <2>2, <3>2, <3>3
  <2>3. QED
    BY <2>1, <2>2
<1>6. CASE b = <<>>
  BY <1>4, <1>5, <1>6 DEF s
<1>7. CASE b # <<>>
  <2>1. PICK t \in Token :
          b = <<t>> /\ Follows(again, mixed, IF a = <<>> THEN e ELSE a[1].pos, t)
    BY <1>7
  <2>2. InOrder(again, mixed, p, Append(v, t))
    BY <1>5, <2>1, OrderAppend
  <2>3. v \o b = Append(v, t)
    BY <1>3, <2>1
  <2>4. QED
    BY <1>5, <2>2, <2>3 DEF s
<1>8. QED
  BY <1>6, <1>7

---------------------------------------------------------------------------
(* The width of an indentation.                                             *)
Widened(w, x, space, tab, feed) ==
    CASE x = space -> w + 1
      [] x = tab   -> w + TabLength - (w % TabLength)
      [] x = feed  -> 0
      [] OTHER     -> w

IsWidth(f, s, space, tab, feed) ==
    f = [i \in 0..Len(s) |-> IF i = 0 THEN 0 ELSE Widened(f[i-1], s[i], space, tab, feed)]

LEMMA WidenedType ==
    ASSUME NEW w \in Nat, NEW x, NEW space, NEW tab, NEW feed,
           space # tab, space # feed, tab # feed
    PROVE  Widened(w, x, space, tab, feed) \in Nat
<1>1. w + 1 \in Nat /\ w + 8 - (w % 8) \in Nat
  <2>1. w % 8 \in 0..7
    OBVIOUS
  <2>2. QED
    BY <2>1
<1>2. CASE x = space
  BY <1>1, <1>2 DEF Widened
<1>3. CASE x = tab
  BY <1>1, <1>3 DEF Widened, TabLength
<1>4. CASE x = feed
  BY <1>4 DEF Widened
<1>5. CASE x # space /\ x # tab /\ x # feed
  BY <1>5 DEF Widened
<1>6. QED
  BY <1>2, <1>3, <1>4, <1>5

LEMMA WidthExists ==
    ASSUME NEW s, Len(s) \in Nat, NEW space, NEW tab, NEW feed,
           space # tab, space # feed, tab # feed
    PROVE  \E f : IsWidth(f, s, space, tab, feed)
<1>1. PICK m \in Nat : m = Len(s)
  OBVIOUS
<1>2. PICK G \in [1..m -> [Nat -> Nat]] :
         \A i \in 1..m : \A w \in Nat : G[i][w] = Widened(w, s[i], space, tab, feed)
  <2> DEFINE g == [i \in 1..m |-> [w \in Nat |-> Widened(w, s[i], space, tab, feed)]]
  <2>1. \A i \in 1..m : [w \in Nat |-> Widened(w, s[i], space, tab, feed)] \in [Nat -> Nat]
    BY WidenedType
  <2>2. g \in [1..m -> [Nat -> Nat]]
    BY <2>1
  <2>3. \A i \in 1..m : \A w \in Nat : g[i][w] = Widened(w, s[i], space, tab, feed)
    OBVIOUS
  <2> HIDE DEF g
  <2>4. QED
    BY <2>2, <2>3
<1>3. PICK f \in [0..m -> Nat] : f[0] = 0 /\ \A i \in 1..m : f[i] = G[i][f[i-1]]
  <2>1. PICK V : V = Nat
    OBVIOUS
  <2>2. PICK z \in V, H \in [1..m -> [V -> V]] : z = 0 /\ H = G
    BY <1>2, <2>1
  <2>3. \E f \in [0..m -> V] : f[0] = z /\ \A i \in 1..m : f[i] = H[i][f[i-1]]
    BY <1>1, <2>2, StepByStep, SMTT(30)
  <2>4. QED
    BY <2>1, <2>2, <2>3
<1>4. \A i \in 0..m : f[i] = IF i = 0 THEN 0 ELSE Widened(f[i-1], s[i], space, tab, feed)
  <2> TAKE i \in 0..m
  <2>1. CASE i = 0
    BY <1>3, <2>1
  <2>2. CASE i # 0
    <3>1. i \in 1..m /\ i - 1 \in 0..m
      BY <1>1, <2>2
    <3>2. f[i - 1] \in Nat /\ f[i] = G[i][f[i-1]]
      BY <1>3, <3>1
    <3>3. QED
      BY <1>2, <2>2, <3>1, <3>2
  <2>3. QED
    BY <2>1, <2>2
<1>5. f = [i \in 0..m |-> IF i = 0 THEN 0 ELSE Widened(f[i-1], s[i], space, tab, feed)]
  BY <1>3, <1>4
<1>6. IsWidth(f, s, space, tab, feed)
  BY <1>1, <1>5 DEF IsWidth
<1>7. QED
  BY <1>6

LEMMA WidthNat ==
    ASSUME NEW s, Len(s) \in Nat, NEW space, NEW tab, NEW feed,
           space # tab, space # feed, tab # feed,
           NEW f, IsWidth(f, s, space, tab, feed)
    PROVE  f[Len(s)] \in Nat
<1>1. PICK m \in Nat : m = Len(s)
  OBVIOUS
<1>2. \A i \in 0..m : f[i] = IF i = 0 THEN 0 ELSE Widened(f[i-1], s[i], space, tab, feed)
  BY <1>1 DEF IsWidth
<1> DEFINE Bad == {i \in 0..m : f[i] \notin Nat}
<1>3. Bad = {}
  <2> SUFFICES ASSUME Bad # {} PROVE FALSE
    OBVIOUS
  <2>1. PICK k \in Bad : \A i \in Bad : k <= i
    <3>1. Bad \in SUBSET Nat /\ Bad # {}
      BY <1>1
    <3> HIDE DEF Bad
    <3>2. QED
      BY <3>1, SmallestOf
  <2>2. k \in 0..m /\ f[k] \notin Nat
    OBVIOUS
  <2>3. k # 0
    BY <1>2, <2>2
  <2>4. k - 1 \in 0..m /\ f[k - 1] \in Nat
    BY <1>1, <2>1, <2>2, <2>3
  <2>5. f[k] = Widened(f[k-1], s[k], space, tab, feed)
    BY <1>2, <2>2, <2>3
  <2>6. QED
    BY <2>2, <2>4, <2>5, WidenedType
<1>4. m \in 0..m
  BY <1>1
<1>5. QED
  BY <1>1, <1>3, <1>4

(* __get_indentation_length: a width for every text.                        *)
LEMMA WidthOfText ==
    ASSUME NEW s \in Seq(Blanks)
    PROVE  IndentWidth(s) \in Nat
<1>1. Len(s) \in Nat
  BY LenProperties
<1>2. " " # "\t" /\ " " # "\f" /\ "\t" # "\f"
  BY Zenon
<1> DEFINE f == CHOOSE f : IsWidth(f, s, " ", "\t", "\f")
<1>3. IsWidth(f, s, " ", "\t", "\f")
  <2>1. \E g : IsWidth(g, s, " ", "\t", "\f")
    BY <1>1, <1>2, WidthExists
  <2>2. QED
    BY <2>1, Zenon
<1>4. f[Len(s)] \in Nat
  <2> HIDE DEF f
  <2>1. QED
    BY <1>1, <1>2, <1>3, WidthNat
<1>5. IndentWidth(s) = f[Len(s)]
  BY Zenon DEF IndentWidth, IsWidth, Widened
<1>6. QED
  BY <1>4, <1>5
---------------------------------------------------------------------------
(* How many elements of a sequence are in a set.                            *)
Number(s, S) == Cardinality({i \in DOMAIN s : s[i] \in S})

LEMMA NumberType ==
    ASSUME NEW T, NEW s \in Seq(T), NEW S
    PROVE  /\ IsFiniteSet({i \in DOMAIN s : s[i] \in S}) /\ Number(s, S) \in Nat
           /\ (\A i \in 1..Len(s) : s[i] \notin S) => Number(s, S) = 0
           /\ (\A i \in 1..Len(s) : s[i] \in S) => Number(s, S) = Len(s)
<1>1. DOMAIN s = 1..Len(s) /\ Len(s) \in Nat
  BY LenProperties
<1>2. IsFiniteSet(1..Len(s)) /\ Cardinality(1..Len(s)) = Len(s)
  <2>1. PICK n : n = Len(s) /\ n \in Nat
    BY <1>1, Zenon
  <2>a. \A a, b \in Int : /\ IsFiniteSet(a..b)
                          /\ Cardinality(a..b) = IF a > b THEN 0 ELSE b - a + 1
    BY FS_Interval, Zenon
  <2>b. 1 \in Int /\ n \in Int
    BY <2>1
  <2>2. IsFiniteSet(1..n)
    BY <2>a, <2>b, Zenon
  <2>3. Cardinality(1..n) = IF 1 > n THEN 0 ELSE n - 1 + 1
    BY <2>a, <2>b, Zenon
  <2>4. Cardinality(1..n) = n
    BY <2>1, <2>3
  <2>5. QED
    BY <2>1, <2>2, <2>4
<1>3. PICK I : I = {i \in DOMAIN s : s[i] \in S}
  OBVIOUS
<1>4. I \subseteq 1..Len(s)
  BY <1>1, <1>3
<1>5. IsFiniteSet(I) /\ Cardinality(I) \in Nat
  BY <1>2, <1>4, FS_Subset, FS_CardinalityType
<1>6. (\A i \in 1..Len(s) : s[i] \notin S) => I = {}
  BY <1>1, <1>3
<1>7. (\A i \in 1..Len(s) : s[i] \in S) => I = 1..Len(s)
  BY <1>1, <1>3
<1>8. QED
  BY <1>2, <1>3, <1>5, <1>6, <1>7, FS_EmptySet DEF Number

LEMMA NumberEmpty == \A S : Number(<<>>, S) = 0
<1>1. \A S : {i \in DOMAIN <<>> : <<>>[i] \in S} = {}
  OBVIOUS
<1>2. QED
  BY <1>1, FS_EmptySet DEF Number

LEMMA NumberAppend ==
    ASSUME NEW T, NEW s \in Seq(T), NEW x \in T, NEW S
    PROVE  Number(Append(s, x), S) = Number(s, S) + IF x \in S THEN 1 ELSE 0
<1>1. DOMAIN s = 1..Len(s) /\ Len(s) \in Nat
  BY LenProperties
<1>2. PICK u \in Seq(T) : /\ u = Append(s, x) /\ Len(u) = Len(s) + 1 /\ u[Len(s) + 1] = x
                          /\ \A i \in 1..Len(s) : u[i] = s[i]
  <2>1. PICK u : u = Append(s, x)
    OBVIOUS
  <2>2. /\ u \in Seq(T) /\ Len(u) = Len(s) + 1 /\ u[Len(s) + 1] = x
        /\ \A i \in 1..Len(s) : u[i] = s[i]
    BY <2>1, AppendLast
  <2>3. QED
    BY <2>1, <2>2
<1>3. DOMAIN u = 1..(Len(s) + 1)
  BY <1>2, LenProperties
<1>4. PICK I, J : I = {i \in DOMAIN s : s[i] \in S} /\ J = {i \in DOMAIN u : u[i] \in S}
  OBVIOUS
<1>5. IsFiniteSet(I) /\ Cardinality(I) \in Nat
  BY <1>4, NumberType DEF Number
<1>6. Len(s) + 1 \notin I
  BY <1>1, <1>4
<1>7. J = IF x \in S THEN I \union {Len(s) + 1} ELSE I
  BY <1>1, <1>2, <1>3, <1>4
<1>8. Cardinality(I \union {Len(s) + 1}) = Cardinality(I) + 1
  BY <1>5, <1>6, FS_AddElement
<1>9. Number(u, S) = Cardinality(J) /\ Number(s, S) = Cardinality(I)
  BY <1>4 DEF Number
<1>10. QED
  BY <1>2, <1>5, <1>7, <1>8, <1>9

LEMMA NumberConcat ==
    ASSUME NEW T, NEW s \in Seq(T), NEW S
    PROVE  \A t \in Seq(T) : Number(s \o t, S) = Number(s, S) + Number(t, S)
<1> DEFINE P == {t \in Seq(T) : Number(s \o t, S) = Number(s, S) + Number(t, S)}
<1>1. <<>> \in P
  <2>1. s \o <<>> = s /\ Number(<<>>, S) = 0 /\ <<>> \in Seq(T) /\ Number(s, S) \in Nat
    BY ConcatEmptySeq, EmptySeq, NumberEmpty, NumberType
  <2>2. QED
    BY <2>1
<1>2. \A t \in Seq(T), x \in T : t \in P => Append(t, x) \in P
  <2> SUFFICES ASSUME NEW t \in Seq(T), NEW x \in T, Number(s \o t, S) = Number(s, S) + Number(t, S)
               PROVE  Append(t, x) \in P
    OBVIOUS
  <2>1. PICK u \in Seq(T) : u = s \o t
    BY ConcatProperties
  <2>2. PICK d \in {0, 1} : d = IF x \in S THEN 1 ELSE 0
    OBVIOUS
  <2>3. Number(Append(u, x), S) = Number(u, S) + d /\ Number(Append(t, x), S) = Number(t, S) + d
    BY <2>2, NumberAppend
  <2>4. s \o Append(t, x) = Append(u, x) /\ Append(t, x) \in Seq(T)
    BY <2>1, AppendConcat, AppendLast
  <2>5. Number(s, S) \in Nat /\ Number(t, S) \in Nat
    BY NumberType
  <2>6. Number(s \o Append(t, x), S) = Number(s, S) + Number(Append(t, x), S)
    BY <2>1, <2>2, <2>3, <2>4, <2>5
  <2>7. QED
    BY <2>4, <2>6
<1> HIDE DEF P
<1>3. Seq(T) \subseteq P
  BY <1>1, <1>2, SeqInduction
<1>4. QED
  BY <1>3 DEF P

LEMMA NumberTail ==
    ASSUME NEW T, NEW s \in Seq(T), s # <<>>, NEW S
    PROVE  Number(s, S) = Number(Tail(s), S) + IF Head(s) \in S THEN 1 ELSE 0
<1>1. PICK x \in T, t \in Seq(T) : x = Head(s) /\ t = Tail(s) /\ s = <<x>> \o t
  BY HeadTail
<1>2. <<x>> \in Seq(T) /\ <<x>> = Append(<<>>, x)
  BY Singleton
<1>3. Number(<<x>>, S) = IF x \in S THEN 1 ELSE 0
  <2>1. Number(Append(<<>>, x), S) = Number(<<>>, S) + IF x \in S THEN 1 ELSE 0
    BY EmptySeq, NumberAppend
  <2>2. QED
    BY <1>2, <2>1, NumberEmpty
<1>4. PICK w \in Seq(T) : w = <<x>>
  BY <1>2
<1>5. Number(w \o t, S) = Number(w, S) + Number(t, S)
  BY NumberConcat
<1>6. Number(t, S) \in Nat
  BY NumberType
<1>7. Number(w \o t, S) = Number(s, S) /\ Number(t, S) = Number(Tail(s), S)
  BY <1>1, <1>4
<1>8. Number(w, S) = IF Head(s) \in S THEN 1 ELSE 0
  BY <1>1, <1>3, <1>4
<1>9. QED
  BY <1>5, <1>6, <1>7, <1>8
---------------------------------------------------------------------------
(* One reading after another.                                               *)
LEMMA LeadsConcat ==
    ASSUME NEW R, NEW T, NEW s \in Seq(T), NEW t \in Seq(T), NEW a, NEW b, NEW c,
           Leads(R, a, s, b), Leads(R, b, t, c)
    PROVE  Leads(R, a, s \o t, c)
<1>1. PICK m, n : m = Len(s) /\ n = Len(t) /\ m \in Nat /\ n \in Nat
  BY LenProperties
<1>2. PICK u : /\ u = s \o t /\ Len(u) = m + n
               /\ \A i \in 1..(m + n) : u[i] = IF i <= m THEN s[i] ELSE t[i - m]
  <2>1. /\ Len(s \o t) = Len(s) + Len(t)
        /\ \A i \in 1..(Len(s) + Len(t)) :
              (s \o t)[i] = IF i <= Len(s) THEN s[i] ELSE t[i - Len(s)]
    BY ConcatProperties
  <2>2. QED
    BY <1>1, <2>1, Zenon
<1>3. PICK h : h[0] = a /\ h[m] = b /\ \A i \in 1..m : <<h[i-1], s[i], h[i]>> \in R
  BY <1>1 DEF Leads
<1>4. PICK k : k[0] = b /\ k[n] = c /\ \A i \in 1..n : <<k[i-1], t[i], k[i]>> \in R
  BY <1>1 DEF Leads
<1> DEFINE g == [i \in 0..(m + n) |-> IF i <= m THEN h[i] ELSE k[i - m]]
<1>5. \A i \in 0..(m + n) : g[i] = IF i <= m THEN h[i] ELSE k[i - m]
  OBVIOUS
<1>6. \A j \in 0..n : m + j \in 0..(m + n) /\ g[m + j] = k[j]
  <2> SUFFICES ASSUME NEW j \in 0..n PROVE m + j \in 0..(m + n) /\ g[m + j] = k[j]
    OBVIOUS
  <2> HIDE DEF g
  <2>1. m + j \in 0..(m + n) /\ (m + j) - m = j /\ (m + j <= m <=> j = 0)
    BY <1>1
  <2>2. CASE j = 0
    <3>1. m + j = m
      BY <1>1, <2>2
    <3>2. QED
      BY <1>3, <1>4, <1>5, <2>1, <2>2, <3>1
  <2>3. CASE j # 0
    BY <1>5, <2>1, <2>3
  <2>4. QED
    BY <2>2, <2>3, <2>1
<1> HIDE DEF g
<1>7. g[0] = a /\ g[Len(u)] = c
  BY <1>1, <1>2, <1>3, <1>4, <1>5, <1>6
<1>8. ASSUME NEW i \in 1..(m + n) PROVE <<g[i-1], u[i], g[i]>> \in R
  <2>1. CASE i <= m
    <3>1. i \in 1..m /\ i \in 0..(m + n) /\ i - 1 \in 0..(m + n) /\ i - 1 <= m
      BY <1>1, <2>1
    <3>2. g[i-1] = h[i-1] /\ u[i] = s[i] /\ g[i] = h[i]
      BY <1>2, <1>5, <2>1, <3>1
    <3>3. QED
      BY <1>3, <3>1, <3>2
  <2>2. CASE ~(i <= m)
    <3>1. PICK j \in 1..n : i = m + j /\ i - 1 = m + (j - 1) /\ j - 1 \in 0..n /\ j \in 0..n /\ i - m = j
      <4>1. i - m \in 1..n /\ i = m + (i - m) /\ i - 1 = m + ((i - m) - 1)
            /\ (i - m) - 1 \in 0..n /\ i - m \in 0..n
        BY <1>1, <2>2
      <4>2. QED
        BY <4>1
    <3>2. g[i-1] = k[j-1] /\ u[i] = t[j] /\ g[i] = k[j]
      BY <1>2, <1>6, <2>2, <3>1
    <3>3. QED
      BY <1>4, <3>1, <3>2
  <2>3. QED
    BY <2>1, <2>2
<1>9. QED
  BY <1>1, <1>2, <1>7, <1>8 DEF Leads

---------------------------------------------------------------------------
(* The stream of tokens as a reader goes through it.  `k` holds the sets of *)
(* the tokens that open and close a bracket, begin and end an f-string.     *)
Reader == [depth : Int, brackets : Int, strings : Int,
           line : {"first", "open", "ended", "indented", "joined"},
           phase : {"fresh", "body", "closing", "ended"}]

ReaderAfter(k, r, t) ==
    [depth    |-> IF t = INDENT THEN r.depth + 1
                  ELSE IF t \in {DEDENT, BAD_DEDENT} THEN r.depth - 1 ELSE r.depth,
     brackets |-> IF t \in k.open THEN r.brackets + 1
                  ELSE IF t \in k.close THEN r.brackets - 1 ELSE r.brackets,
     strings  |-> IF t \in k.begin THEN r.strings + 1
                  ELSE IF t \in k.end THEN r.strings - 1 ELSE r.strings,
     line     |-> LineAfter(r.line, t),
     phase    |-> PhaseAfter(r.phase, t)]

GoodKinds(k) ==
    /\ \A t \in k.open : t.type \in {"LPAR", "LBRACE"}
    /\ \A t \in k.close : t.type \in {"RPAR", "RBRACE"}
    /\ \A t \in k.begin : t.type = "FSTRING_START"
    /\ \A t \in k.end : t.type = "FSTRING_END"

Counted(k) == k.open \union k.close \union k.begin \union k.end

FrameTypes == {"NEWLINE", "INDENT", "DEDENT", "EXPLICIT_LINE_JOINING", "ENCODING", "EOF"}

(* What may come next.                                                      *)
Legal(k, r, t) ==
    /\ t.type = "INDENT" => t \in {INDENT, LEADING_INDENT}
    /\ t.type = "DEDENT" => t = DEDENT
    /\ t \in Counted(k) => t.ch = "default"
    /\ t \in k.end => r.strings > 0
    /\ t.type = "EXPLICIT_LINE_JOINING" => r.phase = "body"
    /\ t.type = "ENCODING" => r.phase = "fresh" /\ t.ch = "hidden"
    /\ t = INDENT =>
          r.phase = "body" /\ r.line = "ended" /\ r.brackets <= 0 /\ r.strings = 0
    /\ t = LEADING_INDENT => r.phase = "body" /\ r.line = "first" /\ r.strings = 0
    /\ t = DEDENT =>
          /\ r.phase \in {"body", "closing"} /\ r.line \in {"ended", "joined"} /\ r.depth > 0
          /\ r.phase = "body" => r.strings = 0
    /\ t = BAD_DEDENT => r.line = "ended" /\ r.depth > 0
    /\ t = TRAILING_NEWLINE => r.phase = "body" /\ r.line \in {"open", "indented"}
    /\ t.type = "NEWLINE" /\ t.ch = "default" /\ t # TRAILING_NEWLINE =>
          /\ r.phase = "body" /\ r.line \in {"open", "joined"}
          /\ r.brackets <= 0 /\ r.strings = 0
    /\ t.type = "EOF" =>
          /\ r.phase \in {"body", "closing"} /\ r.depth = 0
          /\ r.line \in {"first", "ended", "joined"}
    /\ t.ch = "default" /\ t.type \notin FrameTypes => r.phase = "body"

Steps(k) ==
    {x \in Reader \X Token \X Reader :
       Legal(k, x[1], x[2]) /\ x[3] = ReaderAfter(k, x[1], x[2])}

(* The tokens of the lexer's own making.                                    *)
LEMMA MadeFields ==
    /\ INDENT.type = "INDENT" /\ DEDENT.type = "DEDENT" /\ LEADING_INDENT.type = "INDENT"
    /\ TRAILING_NEWLINE.type = "NEWLINE" /\ EMPTY_MIDDLE.type = "FSTRING_MIDDLE"
    /\ BAD_DEDENT.type = "ERRORTOKEN" /\ BAD_TABS.type = "ERRORTOKEN"
    /\ \A t \in {INDENT, DEDENT, LEADING_INDENT, TRAILING_NEWLINE, EMPTY_MIDDLE, BAD_DEDENT, BAD_TABS} :
          t \in Token /\ t.ch = "default" /\ t.pos = 0
    /\ INDENT # LEADING_INDENT /\ BAD_DEDENT # BAD_TABS
<1>1. \A type, text : /\ MadeToken(type, text).type = type /\ MadeToken(type, text).ch = "default"
                      /\ MadeToken(type, text).pos = 0 /\ MadeToken(type, text).text = text
  BY DEF MadeToken
<1>2. INDENT # LEADING_INDENT
  <2>1. \A x : <<>> # <<x>>
    OBVIOUS
  <2>2. INDENT.text = <<>> /\ \E x : LEADING_INDENT.text = <<x>>
    BY <1>1, Zenon DEF INDENT, LEADING_INDENT
  <2>3. QED
    BY <2>1, <2>2, Zenon
<1>3. BAD_DEDENT # BAD_TABS
  <2>1. \A x, y : x # y => <<x>> # <<y>>
    OBVIOUS
  <2>2. "inconsistent dedent" # "inconsistent use of tabs and spaces"
    BY Zenon
  <2>3. <<"inconsistent dedent">> # <<"inconsistent use of tabs and spaces">>
    BY <2>1, <2>2, Zenon
  <2>4. /\ BAD_DEDENT.text = <<"inconsistent dedent">>
        /\ BAD_TABS.text = <<"inconsistent use of tabs and spaces">>
    BY <1>1, Zenon DEF BAD_DEDENT, BAD_TABS
  <2>5. QED
    BY <2>3, <2>4, Zenon
<1>4. /\ INDENT.type = "INDENT" /\ DEDENT.type = "DEDENT" /\ LEADING_INDENT.type = "INDENT"
      /\ TRAILING_NEWLINE.type = "NEWLINE" /\ EMPTY_MIDDLE.type = "FSTRING_MIDDLE"
      /\ BAD_DEDENT.type = "ERRORTOKEN" /\ BAD_TABS.type = "ERRORTOKEN"
  BY <1>1, Zenon DEF INDENT, DEDENT, LEADING_INDENT, TRAILING_NEWLINE, EMPTY_MIDDLE, BAD_DEDENT, BAD_TABS
<1>5. \A t \in {INDENT, DEDENT, LEADING_INDENT, TRAILING_NEWLINE, EMPTY_MIDDLE, BAD_DEDENT, BAD_TABS} :
         t.ch = "default" /\ t.pos = 0
  <2>1. /\ INDENT.ch = "default" /\ DEDENT.ch = "default" /\ LEADING_INDENT.ch = "default"
        /\ TRAILING_NEWLINE.ch = "default" /\ EMPTY_MIDDLE.ch = "default"
        /\ BAD_DEDENT.ch = "default" /\ BAD_TABS.ch = "default"
    BY <1>1, Zenon
    DEF INDENT, DEDENT, LEADING_INDENT, TRAILING_NEWLINE, EMPTY_MIDDLE, BAD_DEDENT, BAD_TABS
  <2>2. /\ INDENT.pos = 0 /\ DEDENT.pos = 0 /\ LEADING_INDENT.pos = 0
        /\ TRAILING_NEWLINE.pos = 0 /\ EMPTY_MIDDLE.pos = 0
        /\ BAD_DEDENT.pos = 0 /\ BAD_TABS.pos = 0
    BY <1>1, Zenon
    DEF INDENT, DEDENT, LEADING_INDENT, TRAILING_NEWLINE, EMPTY_MIDDLE, BAD_DEDENT, BAD_TABS
  <2>3. QED
    BY <2>1, <2>2
<1>6. QED
  BY <1>2, <1>3, <1>4, <1>5, MadeTokens

LEMMA LinePhase ==
    ASSUME NEW line, NEW phase, NEW t \in Token
    PROVE  /\ LineAfter(line, t) =
                IF t.type = "EXPLICIT_LINE_JOINING"
                THEN IF line = "ended" THEN "joined" ELSE IF line = "indented" THEN "open" ELSE line
                ELSE IF t.ch = "hidden" \/ t.type = "EOF" THEN line
                ELSE IF t.type \in {"NEWLINE", "DEDENT"} THEN "ended"
                ELSE IF t.type = "INDENT" THEN "indented" ELSE "open"
           /\ PhaseAfter(phase, t) =
                IF t.type = "EOF" THEN "ended" ELSE IF t.type = "ENCODING" THEN "body"
                ELSE IF t = TRAILING_NEWLINE THEN "closing" ELSE phase
<1>1. TRAILING_NEWLINE.type = "NEWLINE"
  BY MadeFields
<1>2. PhaseAfter(phase, t) =
                IF t.type = "EOF" THEN "ended" ELSE IF t.type = "ENCODING" THEN "body"
                ELSE IF t = TRAILING_NEWLINE THEN "closing" ELSE phase
  BY <1>1 DEF PhaseAfter
<1>3. LineAfter(line, t) =
                IF t.type = "EXPLICIT_LINE_JOINING"
                THEN IF line = "ended" THEN "joined" ELSE IF line = "indented" THEN "open" ELSE line
                ELSE IF t.ch = "hidden" \/ t.type = "EOF" THEN line
                ELSE IF t.type \in {"NEWLINE", "DEDENT"} THEN "ended"
                ELSE IF t.type = "INDENT" THEN "indented" ELSE "open"
  <2>1. CASE t.type = "EXPLICIT_LINE_JOINING" \/ t.ch = "hidden" \/ t.type = "EOF"
    BY <2>1 DEF LineAfter
  <2>2. CASE t.type # "EXPLICIT_LINE_JOINING" /\ t.ch # "hidden" /\ t.type # "EOF"
    <3>1. CASE t.type \in {"NEWLINE", "DEDENT"}
      BY <2>2, <3>1 DEF LineAfter
    <3>2. CASE t.type = "INDENT"
      BY <2>2, <3>2 DEF LineAfter
    <3>3. CASE t.type \notin {"NEWLINE", "DEDENT", "INDENT"}
      BY <2>2, <3>3 DEF LineAfter
    <3>4. QED
      BY <3>1, <3>2, <3>3
  <2>3. QED
    BY <2>1, <2>2
<1>4. QED
  BY <1>2, <1>3

(* The parts of ReaderAfter.                                                *)
Reads(k, r, t, c) ==
    /\ c \in Reader
    /\ c.depth = IF t = INDENT THEN r.depth + 1
                 ELSE IF t \in {DEDENT, BAD_DEDENT} THEN r.depth - 1 ELSE r.depth
    /\ c.brackets = IF t \in k.open THEN r.brackets + 1
                    ELSE IF t \in k.close THEN r.brackets - 1 ELSE r.brackets
    /\ c.strings = IF t \in k.begin THEN r.strings + 1
                   ELSE IF t \in k.end THEN r.strings - 1 ELSE r.strings
    /\ c.line = IF t.type = "EXPLICIT_LINE_JOINING"
                THEN IF r.line = "ended" THEN "joined"
                     ELSE IF r.line = "indented" THEN "open" ELSE r.line
                ELSE IF t.ch = "hidden" \/ t.type = "EOF" THEN r.line
                ELSE IF t.type \in {"NEWLINE", "DEDENT"} THEN "ended"
                ELSE IF t.type = "INDENT" THEN "indented" ELSE "open"
    /\ c.phase = IF t.type = "EOF" THEN "ended" ELSE IF t.type = "ENCODING" THEN "body"
                 ELSE IF t = TRAILING_NEWLINE THEN "closing" ELSE r.phase

LEMMA ReaderFields ==
    ASSUME NEW k, NEW r \in Reader, NEW t \in Token
    PROVE  Reads(k, r, t, ReaderAfter(k, r, t))
<1>c. PICK c : c = ReaderAfter(k, r, t)
  OBVIOUS
<1>1. /\ r.depth \in Int /\ r.brackets \in Int /\ r.strings \in Int
      /\ r.line \in {"first", "open", "ended", "indented", "joined"}
      /\ r.phase \in {"fresh", "body", "closing", "ended"}
  BY DEF Reader
<1>2. PICK l, p : l = LineAfter(r.line, t) /\ p = PhaseAfter(r.phase, t)
  OBVIOUS
<1>3. /\ l = IF t.type = "EXPLICIT_LINE_JOINING"
             THEN IF r.line = "ended" THEN "joined"
                  ELSE IF r.line = "indented" THEN "open" ELSE r.line
             ELSE IF t.ch = "hidden" \/ t.type = "EOF" THEN r.line
             ELSE IF t.type \in {"NEWLINE", "DEDENT"} THEN "ended"
             ELSE IF t.type = "INDENT" THEN "indented" ELSE "open"
      /\ p = IF t.type = "EOF" THEN "ended" ELSE IF t.type = "ENCODING" THEN "body"
             ELSE IF t = TRAILING_NEWLINE THEN "closing" ELSE r.phase
  BY <1>2, LinePhase
<1>4. /\ l \in {"first", "open", "ended", "indented", "joined"}
      /\ p \in {"fresh", "body", "closing", "ended"}
  BY <1>1, <1>3
<1>5. /\ c.depth = IF t = INDENT THEN r.depth + 1
                   ELSE IF t \in {DEDENT, BAD_DEDENT} THEN r.depth - 1 ELSE r.depth
      /\ c.brackets = IF t \in k.open THEN r.brackets + 1
                      ELSE IF t \in k.close THEN r.brackets - 1 ELSE r.brackets
      /\ c.strings = IF t \in k.begin THEN r.strings + 1
                     ELSE IF t \in k.end THEN r.strings - 1 ELSE r.strings
      /\ c.line = l /\ c.phase = p
      /\ c = [depth |-> c.depth, brackets |-> c.brackets, strings |-> c.strings, line |-> l, phase |-> p]
  BY <1>c, <1>2 DEF ReaderAfter
<1>6. c.depth \in Int /\ c.brackets \in Int /\ c.strings \in Int
  BY <1>1, <1>5
<1>7. c \in Reader
  BY <1>4, <1>5, <1>6 DEF Reader
<1>8. Reads(k, r, t, c)
  BY <1>3, <1>5, <1>7 DEF Reads
<1>9. QED
  BY <1>c, <1>8

(* What one token may do to the stream.                                     *)
Emits(r, c) ==
    \/ c = r
    \/ /\ r.phase = "body" /\ r.strings = 0
       /\ \/ r.line = "ended" /\ r.brackets <= 0 /\ c.depth = r.depth + 1
          \/ r.line = "first" /\ c.depth = r.depth
       /\ c.line = "indented"
       /\ c.brackets = r.brackets /\ c.strings = r.strings /\ c.phase = r.phase
    \/ /\ r.phase \in {"body", "closing"}
       /\ r.line \in {"ended", "joined"} /\ r.depth > 0
       /\ r.phase = "body" => r.strings = 0
       /\ c.depth = r.depth - 1 /\ c.line = "ended"
       /\ c.brackets = r.brackets /\ c.strings = r.strings /\ c.phase = r.phase
    \/ /\ r.phase = "body" /\ r.line \in {"open", "joined"}
       /\ r.brackets <= 0 /\ r.strings = 0
       /\ c.line = "ended" /\ c.depth = r.depth
       /\ c.brackets = r.brackets /\ c.strings = r.strings /\ c.phase = r.phase
    \/ /\ r.phase = "body" /\ r.line \in {"open", "indented"}
       /\ c.line = "ended" /\ c.phase = "closing" /\ c.depth = r.depth
       /\ c.brackets = r.brackets /\ c.strings = r.strings
    \/ /\ r.phase = "body" /\ r.line = "ended"
       /\ c.depth \in {r.depth, r.depth - 1} /\ c.depth >= 0 /\ c.line = "open"
       /\ c.brackets = r.brackets /\ c.strings = r.strings /\ c.phase = r.phase
    \/ /\ r.phase = "body" /\ c.line = "open"
       /\ \/ c.brackets = r.brackets /\ c.strings = r.strings
          \/ c.brackets \in {r.brackets + 1, r.brackets - 1} /\ c.strings = r.strings
          \/ c.strings = r.strings + 1 /\ c.brackets = r.brackets
          \/ r.strings > 0 /\ c.strings = r.strings - 1 /\ c.brackets = r.brackets
       /\ c.depth = r.depth /\ c.phase = r.phase
    \/ /\ r.phase = "body" /\ r.line \in {"ended", "indented"}
       /\ c.line = IF r.line = "ended" THEN "joined" ELSE "open"
       /\ c.depth = r.depth
       /\ c.brackets = r.brackets /\ c.strings = r.strings /\ c.phase = r.phase
    \/ /\ r.phase = "fresh" /\ c.phase = "body" /\ c.line = r.line
       /\ c.depth = r.depth /\ c.brackets = r.brackets /\ c.strings = r.strings
    \/ /\ r.phase \in {"body", "closing"}
       /\ r.line \in {"first", "ended", "joined"} /\ r.depth = 0
       /\ c.phase = "ended" /\ c.line = r.line
       /\ c.depth = r.depth /\ c.brackets = r.brackets /\ c.strings = r.strings

LEMMA ReaderEmits ==
    ASSUME NEW k, GoodKinds(k), NEW r \in Reader, NEW t \in Token, Legal(k, r, t)
    PROVE  Emits(r, ReaderAfter(k, r, t))
<1>1. PICK c : c = ReaderAfter(k, r, t)
  OBVIOUS
<1>a. Reads(k, r, t, c)
  BY <1>1, ReaderFields
<1>2. /\ c \in Reader
      /\ c.depth = IF t = INDENT THEN r.depth + 1
                   ELSE IF t \in {DEDENT, BAD_DEDENT} THEN r.depth - 1 ELSE r.depth
      /\ c.brackets = IF t \in k.open THEN r.brackets + 1
                      ELSE IF t \in k.close THEN r.brackets - 1 ELSE r.brackets
      /\ c.strings = IF t \in k.begin THEN r.strings + 1
                     ELSE IF t \in k.end THEN r.strings - 1 ELSE r.strings
      /\ c.line = IF t.type = "EXPLICIT_LINE_JOINING"
                  THEN IF r.line = "ended" THEN "joined"
                       ELSE IF r.line = "indented" THEN "open" ELSE r.line
                  ELSE IF t.ch = "hidden" \/ t.type = "EOF" THEN r.line
                  ELSE IF t.type \in {"NEWLINE", "DEDENT"} THEN "ended"
                  ELSE IF t.type = "INDENT" THEN "indented" ELSE "open"
      /\ c.phase = IF t.type = "EOF" THEN "ended" ELSE IF t.type = "ENCODING" THEN "body"
                   ELSE IF t = TRAILING_NEWLINE THEN "closing" ELSE r.phase
  BY <1>a DEF Reads
<1>3. /\ r.depth \in Int /\ r.brackets \in Int /\ r.strings \in Int
      /\ r = [depth |-> r.depth, brackets |-> r.brackets, strings |-> r.strings,
              line |-> r.line, phase |-> r.phase]
      /\ c = [depth |-> c.depth, brackets |-> c.brackets, strings |-> c.strings,
              line |-> c.line, phase |-> c.phase]
  <2>1. \A x \in Reader :
           /\ x.depth \in Int /\ x.brackets \in Int /\ x.strings \in Int
           /\ x = [depth |-> x.depth, brackets |-> x.brackets, strings |-> x.strings,
                   line |-> x.line, phase |-> x.phase]
    BY DEF Reader
  <2>2. c \in Reader
    BY <1>2
  <2>3. QED
    BY <2>1, <2>2, Zenon
<1>4. /\ INDENT.type = "INDENT" /\ DEDENT.type = "DEDENT" /\ LEADING_INDENT.type = "INDENT"
      /\ TRAILING_NEWLINE.type = "NEWLINE" /\ BAD_DEDENT.type = "ERRORTOKEN"
      /\ INDENT.ch = "default" /\ DEDENT.ch = "default" /\ LEADING_INDENT.ch = "default"
      /\ TRAILING_NEWLINE.ch = "default" /\ BAD_DEDENT.ch = "default"
      /\ INDENT # LEADING_INDENT
  BY MadeFields
<1>5. /\ t \in k.open => t.type \in {"LPAR", "LBRACE"} /\ t.ch = "default"
      /\ t \in k.close => t.type \in {"RPAR", "RBRACE"} /\ t.ch = "default"
      /\ t \in k.begin => t.type = "FSTRING_START" /\ t.ch = "default"
      /\ t \in k.end => t.type = "FSTRING_END" /\ t.ch = "default" /\ r.strings > 0
  BY DEF GoodKinds, Legal, Counted
<1>6. t.ch \in {"default", "hidden"}
  BY DEF Token, Channels
<1>7. CASE t.type \in FrameTypes
  <2>1. /\ t.type \notin {"LPAR", "LBRACE", "RPAR", "RBRACE", "FSTRING_START", "FSTRING_END", "ERRORTOKEN"}
    BY <1>7 DEF FrameTypes
  <2>2. c.brackets = r.brackets /\ c.strings = r.strings /\ t # BAD_DEDENT
    BY <1>2, <1>4, <1>5, <2>1
  <2>3. CASE t = INDENT
    <3>1. r.phase = "body" /\ r.line = "ended" /\ r.brackets <= 0 /\ r.strings = 0
      BY <2>3 DEF Legal
    <3>2. c.depth = r.depth + 1 /\ c.line = "indented" /\ c.phase = r.phase
      BY <1>2, <1>4, <2>3
    <3>3. QED
      BY <1>1, <2>2, <3>1, <3>2 DEF Emits
  <2>4. CASE t = LEADING_INDENT
    <3>1. r.phase = "body" /\ r.line = "first" /\ r.strings = 0
      BY <2>4 DEF Legal
    <3>2. c.depth = r.depth /\ c.line = "indented" /\ c.phase = r.phase
      BY <1>2, <1>4, <2>2, <2>4
    <3>3. QED
      BY <1>1, <2>2, <3>1, <3>2 DEF Emits
  <2>5. CASE t = DEDENT
    <3>1. /\ r.phase \in {"body", "closing"} /\ r.line \in {"ended", "joined"} /\ r.depth > 0
          /\ r.phase = "body" => r.strings = 0
      BY <2>5 DEF Legal
    <3>2. c.depth = r.depth - 1 /\ c.line = "ended" /\ c.phase = r.phase
      BY <1>2, <1>4, <2>2, <2>5
    <3>3. QED
      BY <1>1, <2>2, <3>1, <3>2 DEF Emits
  <2>6. t.type = "INDENT" => t = INDENT \/ t = LEADING_INDENT
    BY DEF Legal
  <2>7. t.type = "DEDENT" => t = DEDENT
    BY DEF Legal
  <2>8. CASE t.type = "NEWLINE"
    <3>1. c.depth = r.depth
      BY <1>2, <1>4, <2>2, <2>8
    <3>2. CASE t = TRAILING_NEWLINE
      <4>1. r.phase = "body" /\ r.line \in {"open", "indented"}
        BY <3>2 DEF Legal
      <4>2. c.line = "ended" /\ c.phase = "closing"
        BY <1>2, <1>4, <2>8, <3>2
      <4>3. QED
        BY <1>1, <2>2, <3>1, <4>1, <4>2 DEF Emits
    <3>3. CASE t # TRAILING_NEWLINE /\ t.ch = "default"
      <4>1. /\ r.phase = "body" /\ r.line \in {"open", "joined"}
            /\ r.brackets <= 0 /\ r.strings = 0
        BY <2>8, <3>3 DEF Legal
      <4>2. c.line = "ended" /\ c.phase = r.phase
        BY <1>2, <2>8, <3>3
      <4>3. QED
        BY <1>1, <2>2, <3>1, <4>1, <4>2 DEF Emits
    <3>4. CASE t.ch = "hidden"
      <4>1. c.line = r.line /\ c.phase = r.phase
        BY <1>2, <1>4, <2>8, <3>4
      <4>2. QED
        BY <1>1, <1>3, <2>2, <3>1, <4>1 DEF Emits
    <3>5. QED
      BY <1>6, <3>2, <3>3, <3>4
  <2>9. CASE t.type \in {"EXPLICIT_LINE_JOINING", "ENCODING", "EOF"}
    <3>1. c.depth = r.depth /\ t # TRAILING_NEWLINE
      BY <1>2, <1>4, <2>2, <2>9
    <3>2. CASE t.type = "EXPLICIT_LINE_JOINING"
      <4>1. r.phase = "body" /\ c.phase = r.phase
        BY <1>2, <3>1, <3>2 DEF Legal
      <4>2. c.line = IF r.line = "ended" THEN "joined"
                     ELSE IF r.line = "indented" THEN "open" ELSE r.line
        BY <1>2, <3>2
      <4>3. CASE r.line \in {"ended", "indented"}
        <5>1. c.line = IF r.line = "ended" THEN "joined" ELSE "open"
          BY <4>2, <4>3
        <5>2. QED
          BY <1>1, <2>2, <3>1, <4>1, <4>3, <5>1 DEF Emits
      <4>4. CASE r.line \notin {"ended", "indented"}
        BY <1>1, <1>3, <2>2, <3>1, <4>1, <4>2, <4>4 DEF Emits
      <4>5. QED
        BY <4>3, <4>4
    <3>3. CASE t.type = "ENCODING"
      <4>1. r.phase = "fresh" /\ c.phase = "body" /\ c.line = r.line
        BY <1>2, <3>3 DEF Legal
      <4>2. QED
        BY <1>1, <2>2, <3>1, <4>1 DEF Emits
    <3>4. CASE t.type = "EOF"
      <4>1. /\ r.phase \in {"body", "closing"} /\ r.depth = 0
            /\ r.line \in {"first", "ended", "joined"}
        BY <3>4 DEF Legal
      <4>2. c.phase = "ended" /\ c.line = r.line
        BY <1>2, <3>4
      <4>3. QED
        BY <1>1, <2>2, <3>1, <4>1, <4>2 DEF Emits
    <3>5. QED
      BY <2>9, <3>2, <3>3, <3>4
  <2>10. QED
    BY <1>7, <2>3, <2>4, <2>5, <2>6, <2>7, <2>8, <2>9 DEF FrameTypes
<1>8. CASE t.type \notin FrameTypes
  <2>1. /\ t \notin {INDENT, DEDENT, TRAILING_NEWLINE}
        /\ t.type \notin {"EXPLICIT_LINE_JOINING", "EOF", "ENCODING", "NEWLINE", "INDENT", "DEDENT"}
    BY <1>4, <1>8 DEF FrameTypes
  <2>2. c.phase = r.phase /\ c.line = IF t.ch = "hidden" THEN r.line ELSE "open"
    BY <1>2, <2>1
  <2>3. CASE t.ch = "hidden"
    <3>1. /\ c.depth = r.depth /\ c.brackets = r.brackets /\ c.strings = r.strings
          /\ c.line = r.line
      BY <1>2, <1>4, <1>5, <2>1, <2>2, <2>3
    <3>2. QED
      BY <1>1, <1>3, <2>2, <3>1 DEF Emits
  <2>4. CASE t.ch = "default" /\ t = BAD_DEDENT
    <3>1. r.phase = "body" /\ r.line = "ended" /\ r.depth > 0
      BY <1>8, <2>4 DEF Legal
    <3>2. c.depth = r.depth - 1 /\ c.brackets = r.brackets /\ c.strings = r.strings /\ c.line = "open"
      BY <1>2, <1>4, <1>5, <2>1, <2>2, <2>4
    <3>3. c.depth \in {r.depth, r.depth - 1} /\ c.depth >= 0
      BY <1>3, <3>1, <3>2
    <3>4. QED
      BY <1>1, <2>2, <3>1, <3>2, <3>3 DEF Emits
  <2>5. CASE t.ch = "default" /\ t # BAD_DEDENT
    <3>1. r.phase = "body" /\ c.depth = r.depth /\ c.line = "open"
      BY <1>2, <1>8, <2>1, <2>2, <2>5 DEF Legal
    <3>2. \/ c.brackets = r.brackets /\ c.strings = r.strings
          \/ c.brackets \in {r.brackets + 1, r.brackets - 1} /\ c.strings = r.strings
          \/ c.strings = r.strings + 1 /\ c.brackets = r.brackets
          \/ r.strings > 0 /\ c.strings = r.strings - 1 /\ c.brackets = r.brackets
      BY <1>2, <1>5
    <3>3. QED
      BY <1>1, <2>2, <3>1, <3>2 DEF Emits
  <2>6. QED
    BY <1>6, <2>3, <2>4, <2>5
<1>9. QED
  BY <1>7, <1>8

(* Where the reader stands in front of the tokens s, if e is where they     *)
(* lead, and h what the caller has heard.                                   *)
Before(k, e, s, h) ==
    [depth    |-> e.depth - Number(s, {INDENT}) + Number(s, {DEDENT, BAD_DEDENT}),
     brackets |-> e.brackets - Number(s, k.open) + Number(s, k.close),
     strings  |-> e.strings - Number(s, k.begin) + Number(s, k.end),
     line     |-> h.line,
     phase    |-> h.phase]

(* The tokens s will bring the caller to e.                                 *)
Told(k, h, s, e) == e \in Reader /\ Leads(Steps(k), Before(k, e, s, h), s, e)

LEMMA BeforeType ==
    ASSUME NEW k, NEW e \in Reader, NEW s \in Seq(Token), NEW h \in Heard
    PROVE  Before(k, e, s, h) \in Reader
<1>1. \A S : Number(s, S) \in Nat
  BY NumberType
<1>2. /\ e.depth \in Int /\ e.brackets \in Int /\ e.strings \in Int
      /\ h.line \in {"first", "open", "ended", "indented", "joined"}
      /\ h.phase \in {"fresh", "body", "closing", "ended"}
  BY DEF Reader, Heard
<1>3. QED
  BY <1>1, <1>2 DEF Before, Reader

LEMMA Stepping ==
    ASSUME NEW k, NEW a, NEW t, NEW c
    PROVE  <<a, t, c>> \in Steps(k)
             <=> /\ a \in Reader /\ t \in Token /\ Legal(k, a, t) /\ c = ReaderAfter(k, a, t)
<1>1. a \in Reader /\ t \in Token => ReaderAfter(k, a, t) \in Reader
  BY ReaderFields DEF Reads
<1>2. QED
  BY <1>1 DEF Steps

(* No token is counted twice.                                               *)
LEMMA KindsApart ==
    ASSUME NEW k, GoodKinds(k), NEW t \in Token
    PROVE  /\ ~(t \in k.open /\ t \in k.close) /\ ~(t \in k.begin /\ t \in k.end)
           /\ ~(t = INDENT /\ t \in {DEDENT, BAD_DEDENT})
           /\ t \in {INDENT, DEDENT, BAD_DEDENT, LEADING_INDENT, TRAILING_NEWLINE, BAD_TABS} =>
                 t \notin k.open /\ t \notin k.close /\ t \notin k.begin /\ t \notin k.end
BY MadeFields DEF GoodKinds

(* What is taken off for the tokens on their way: one more of them, or one  *)
(* less, changes nothing.                                                   *)
LEMMA Balance ==
    ASSUME NEW O, NEW C, NEW t, ~(t \in O /\ t \in C), NEW a \in Int, NEW b,
           NEW m \in Nat, NEW n \in Nat, NEW x, NEW y,
           x = m + (IF t \in O THEN 1 ELSE 0), y = n + (IF t \in C THEN 1 ELSE 0)
    PROVE  /\ b = (IF t \in O THEN a + 1 ELSE IF t \in C THEN a - 1 ELSE a)
                 => b - x + y = a - m + n
           /\ b = (IF t \in O THEN (a - x + y) + 1
                   ELSE IF t \in C THEN (a - x + y) - 1 ELSE a - x + y) => b = a - m + n
<1>1. CASE t \in O /\ t \notin C
  BY <1>1
<1>2. CASE t \notin O /\ t \in C
  BY <1>2
<1>3. CASE t \notin O /\ t \notin C
  BY <1>3
<1>4. QED
  BY <1>1, <1>2, <1>3

(* One token more.                                                          *)
LEMMA ToldMore ==
    ASSUME NEW k, GoodKinds(k), NEW h \in Heard, NEW s \in Seq(Token), NEW e,
           Told(k, h, s, e), NEW t \in Token, Legal(k, e, t)
    PROVE  /\ Told(k, h, Append(s, t), ReaderAfter(k, e, t))
           /\ Before(k, ReaderAfter(k, e, t), Append(s, t), h) = Before(k, e, s, h)
<1>1. e \in Reader /\ Leads(Steps(k), Before(k, e, s, h), s, e)
  BY DEF Told
<1>2. PICK c : c = ReaderAfter(k, e, t)
  OBVIOUS
<1>a. Reads(k, e, t, c)
  BY <1>1, <1>2, ReaderFields
<1>3. /\ c \in Reader
      /\ c.depth = IF t = INDENT THEN e.depth + 1
                   ELSE IF t \in {DEDENT, BAD_DEDENT} THEN e.depth - 1 ELSE e.depth
      /\ c.brackets = IF t \in k.open THEN e.brackets + 1
                      ELSE IF t \in k.close THEN e.brackets - 1 ELSE e.brackets
      /\ c.strings = IF t \in k.begin THEN e.strings + 1
                     ELSE IF t \in k.end THEN e.strings - 1 ELSE e.strings
  BY <1>a DEF Reads
<1>4. PICK u : u = Append(s, t)
  OBVIOUS
<1>b. \A S : /\ Number(s, S) \in Nat
             /\ Number(u, S) = Number(s, S) + IF t \in S THEN 1 ELSE 0
  BY <1>4, NumberType, NumberAppend
<1>5. /\ Number(s, {INDENT}) \in Nat /\ Number(s, {DEDENT, BAD_DEDENT}) \in Nat
      /\ Number(s, k.open) \in Nat /\ Number(s, k.close) \in Nat
      /\ Number(s, k.begin) \in Nat /\ Number(s, k.end) \in Nat
      /\ Number(u, {INDENT}) = Number(s, {INDENT}) + IF t \in {INDENT} THEN 1 ELSE 0
      /\ Number(u, {DEDENT, BAD_DEDENT})
           = Number(s, {DEDENT, BAD_DEDENT}) + IF t \in {DEDENT, BAD_DEDENT} THEN 1 ELSE 0
      /\ Number(u, k.open) = Number(s, k.open) + IF t \in k.open THEN 1 ELSE 0
      /\ Number(u, k.close) = Number(s, k.close) + IF t \in k.close THEN 1 ELSE 0
      /\ Number(u, k.begin) = Number(s, k.begin) + IF t \in k.begin THEN 1 ELSE 0
      /\ Number(u, k.end) = Number(s, k.end) + IF t \in k.end THEN 1 ELSE 0
  BY <1>b, Zenon
<1>6. e.depth \in Int /\ e.brackets \in Int /\ e.strings \in Int
  BY <1>1 DEF Reader
<1>7. /\ c.depth - Number(u, {INDENT}) + Number(u, {DEDENT, BAD_DEDENT})
            = e.depth - Number(s, {INDENT}) + Number(s, {DEDENT, BAD_DEDENT})
      /\ c.brackets - Number(u, k.open) + Number(u, k.close)
            = e.brackets - Number(s, k.open) + Number(s, k.close)
      /\ c.strings - Number(u, k.begin) + Number(u, k.end)
            = e.strings - Number(s, k.begin) + Number(s, k.end)
  <2>1. /\ ~(t \in k.open /\ t \in k.close) /\ ~(t \in k.begin /\ t \in k.end)
        /\ ~(t = INDENT /\ t \in {DEDENT, BAD_DEDENT})
    BY KindsApart
  <2>2. c.depth - Number(u, {INDENT}) + Number(u, {DEDENT, BAD_DEDENT})
            = e.depth - Number(s, {INDENT}) + Number(s, {DEDENT, BAD_DEDENT})
    <3>1. PICK O, C, ax, cx, m, n, i, j :
             /\ O = {INDENT} /\ C = {DEDENT, BAD_DEDENT} /\ ax = e.depth /\ cx = c.depth
             /\ m = Number(s, {INDENT}) /\ n = Number(s, {DEDENT, BAD_DEDENT})
             /\ i = Number(u, {INDENT}) /\ j = Number(u, {DEDENT, BAD_DEDENT})
      OBVIOUS
    <3>2. /\ ~(t \in O /\ t \in C) /\ ax \in Int /\ m \in Nat /\ n \in Nat
          /\ i = m + (IF t \in O THEN 1 ELSE 0) /\ j = n + (IF t \in C THEN 1 ELSE 0)
          /\ cx = IF t \in O THEN ax + 1 ELSE IF t \in C THEN ax - 1 ELSE ax
      BY <1>3, <1>5, <1>6, <2>1, <3>1
    <3>3. cx - i + j = ax - m + n
      BY <3>2, Balance
    <3>4. QED
      BY <3>1, <3>3, Zenon
  <2>3. c.brackets - Number(u, k.open) + Number(u, k.close)
            = e.brackets - Number(s, k.open) + Number(s, k.close)
    <3>1. PICK O, C, ax, cx, m, n, i, j :
             /\ O = k.open /\ C = k.close /\ ax = e.brackets /\ cx = c.brackets
             /\ m = Number(s, k.open) /\ n = Number(s, k.close)
             /\ i = Number(u, k.open) /\ j = Number(u, k.close)
      OBVIOUS
    <3>2. /\ ~(t \in O /\ t \in C) /\ ax \in Int /\ m \in Nat /\ n \in Nat
          /\ i = m + (IF t \in O THEN 1 ELSE 0) /\ j = n + (IF t \in C THEN 1 ELSE 0)
          /\ cx = IF t \in O THEN ax + 1 ELSE IF t \in C THEN ax - 1 ELSE ax
      BY <1>3, <1>5, <1>6, <2>1, <3>1, Zenon
    <3>3. cx - i + j = ax - m + n
      BY <3>2, Balance
    <3>4. QED
      BY <3>1, <3>3, Zenon
  <2>4. c.strings - Number(u, k.begin) + Number(u, k.end)
            = e.strings - Number(s, k.begin) + Number(s, k.end)
    <3>1. PICK O, C, ax, cx, m, n, i, j :
             /\ O = k.begin /\ C = k.end /\ ax = e.strings /\ cx = c.strings
             /\ m = Number(s, k.begin) /\ n = Number(s, k.end)
             /\ i = Number(u, k.begin) /\ j = Number(u, k.end)
      OBVIOUS
    <3>2. /\ ~(t \in O /\ t \in C) /\ ax \in Int /\ m \in Nat /\ n \in Nat
          /\ i = m + (IF t \in O THEN 1 ELSE 0) /\ j = n + (IF t \in C THEN 1 ELSE 0)
          /\ cx = IF t \in O THEN ax + 1 ELSE IF t \in C THEN ax - 1 ELSE ax
      BY <1>3, <1>5, <1>6, <2>1, <3>1, Zenon
    <3>3. cx - i + j = ax - m + n
      BY <3>2, Balance
    <3>4. QED
      BY <3>1, <3>3, Zenon
  <2>5. QED
    BY <2>2, <2>3, <2>4
<1>8. Before(k, c, u, h) = Before(k, e, s, h)
  BY <1>7 DEF Before
<1>9. <<e, t, c>> \in Steps(k)
  BY <1>1, <1>2, Stepping
<1>10. Leads(Steps(k), Before(k, e, s, h), u, c)
  BY <1>1, <1>4, <1>9, LeadsAppend
<1>11. QED
  BY <1>2, <1>3, <1>4, <1>8, <1>10 DEF Told

(* The caller hears the first of the tokens.                                *)
LEMMA ToldHead ==
    ASSUME NEW k, GoodKinds(k), NEW h \in Heard, NEW s \in Seq(Token), s # <<>>, NEW e,
           Told(k, h, s, e)
    PROVE  /\ Told(k, HeardAfter(h, Head(s)), Tail(s), e)
           /\ Emits(Before(k, e, s, h), Before(k, e, Tail(s), HeardAfter(h, Head(s))))
<1>1. e \in Reader /\ Leads(Steps(k), Before(k, e, s, h), s, e)
  BY DEF Told
<1>2. PICK b, x, t, g : /\ b = Before(k, e, s, h) /\ x = Head(s) /\ t = Tail(s)
                        /\ g = HeardAfter(h, x)
  OBVIOUS
<1>3. x \in Token /\ t \in Seq(Token) /\ b \in Reader
  BY <1>1, <1>2, HeadTail, BeforeType
<1>4. PICK c : <<b, x, c>> \in Steps(k) /\ Leads(Steps(k), c, t, e)
  BY <1>1, <1>2, LeadsTail
<1>5. Legal(k, b, x) /\ c = ReaderAfter(k, b, x)
  BY <1>4, Stepping
<1>a. Reads(k, b, x, c)
  BY <1>3, <1>5, ReaderFields
<1>6. /\ c \in Reader
      /\ c.depth = IF x = INDENT THEN b.depth + 1
                   ELSE IF x \in {DEDENT, BAD_DEDENT} THEN b.depth - 1 ELSE b.depth
      /\ c.brackets = IF x \in k.open THEN b.brackets + 1
                      ELSE IF x \in k.close THEN b.brackets - 1 ELSE b.brackets
      /\ c.strings = IF x \in k.begin THEN b.strings + 1
                     ELSE IF x \in k.end THEN b.strings - 1 ELSE b.strings
  BY <1>a DEF Reads
<1>7. c.line = g.line /\ c.phase = g.phase
  BY <1>2, <1>5 DEF ReaderAfter, HeardAfter, Before
<1>8. /\ b.depth = e.depth - Number(s, {INDENT}) + Number(s, {DEDENT, BAD_DEDENT})
      /\ b.brackets = e.brackets - Number(s, k.open) + Number(s, k.close)
      /\ b.strings = e.strings - Number(s, k.begin) + Number(s, k.end)
  BY <1>2 DEF Before
<1>d. \A S : /\ Number(t, S) \in Nat
             /\ Number(s, S) = Number(t, S) + IF x \in S THEN 1 ELSE 0
  BY <1>2, <1>3, NumberType, NumberTail
<1>9. /\ Number(t, {INDENT}) \in Nat /\ Number(t, {DEDENT, BAD_DEDENT}) \in Nat
      /\ Number(t, k.open) \in Nat /\ Number(t, k.close) \in Nat
      /\ Number(t, k.begin) \in Nat /\ Number(t, k.end) \in Nat
      /\ Number(s, {INDENT}) = Number(t, {INDENT}) + IF x \in {INDENT} THEN 1 ELSE 0
      /\ Number(s, {DEDENT, BAD_DEDENT})
           = Number(t, {DEDENT, BAD_DEDENT}) + IF x \in {DEDENT, BAD_DEDENT} THEN 1 ELSE 0
      /\ Number(s, k.open) = Number(t, k.open) + IF x \in k.open THEN 1 ELSE 0
      /\ Number(s, k.close) = Number(t, k.close) + IF x \in k.close THEN 1 ELSE 0
      /\ Number(s, k.begin) = Number(t, k.begin) + IF x \in k.begin THEN 1 ELSE 0
      /\ Number(s, k.end) = Number(t, k.end) + IF x \in k.end THEN 1 ELSE 0
  BY <1>d, Zenon
<1>10. e.depth \in Int /\ e.brackets \in Int /\ e.strings \in Int
  BY <1>1 DEF Reader
<1>11. /\ ~(x \in k.open /\ x \in k.close) /\ ~(x \in k.begin /\ x \in k.end)
       /\ ~(x = INDENT /\ x \in {DEDENT, BAD_DEDENT})
  BY <1>3, KindsApart
<1>12. c.depth = e.depth - Number(t, {INDENT}) + Number(t, {DEDENT, BAD_DEDENT})
  <2>1. PICK O, C, ax, bx, cx, m, n, i, j :
           /\ O = {INDENT} /\ C = {DEDENT, BAD_DEDENT} /\ ax = e.depth /\ bx = b.depth /\ cx = c.depth
           /\ m = Number(t, {INDENT}) /\ n = Number(t, {DEDENT, BAD_DEDENT})
           /\ i = Number(s, {INDENT}) /\ j = Number(s, {DEDENT, BAD_DEDENT})
    OBVIOUS
  <2>2. /\ ~(x \in O /\ x \in C) /\ ax \in Int /\ m \in Nat /\ n \in Nat
        /\ i = m + (IF x \in O THEN 1 ELSE 0) /\ j = n + (IF x \in C THEN 1 ELSE 0)
        /\ bx = ax - i + j
        /\ cx = IF x \in O THEN bx + 1 ELSE IF x \in C THEN bx - 1 ELSE bx
    BY <1>6, <1>8, <1>9, <1>10, <1>11, <2>1
  <2>3. cx = IF x \in O THEN (ax - i + j) + 1
             ELSE IF x \in C THEN (ax - i + j) - 1 ELSE ax - i + j
    BY <2>2, Zenon
  <2>4. cx = ax - m + n
    BY <2>2, <2>3, Balance
  <2>5. QED
    BY <2>1, <2>4, Zenon
<1>13. c.brackets = e.brackets - Number(t, k.open) + Number(t, k.close)
  <2>1. PICK O, C, ax, bx, cx, m, n, i, j :
           /\ O = k.open /\ C = k.close /\ ax = e.brackets /\ bx = b.brackets /\ cx = c.brackets
           /\ m = Number(t, k.open) /\ n = Number(t, k.close)
           /\ i = Number(s, k.open) /\ j = Number(s, k.close)
    OBVIOUS
  <2>2. /\ ~(x \in O /\ x \in C) /\ ax \in Int /\ m \in Nat /\ n \in Nat
        /\ i = m + (IF x \in O THEN 1 ELSE 0) /\ j = n + (IF x \in C THEN 1 ELSE 0)
        /\ bx = ax - i + j
        /\ cx = IF x \in O THEN bx + 1 ELSE IF x \in C THEN bx - 1 ELSE bx
    BY <1>6, <1>8, <1>9, <1>10, <1>11, <2>1, Zenon
  <2>3. cx = IF x \in O THEN (ax - i + j) + 1
             ELSE IF x \in C THEN (ax - i + j) - 1 ELSE ax - i + j
    BY <2>2, Zenon
  <2>4. cx = ax - m + n
    BY <2>2, <2>3, Balance
  <2>5. QED
    BY <2>1, <2>4, Zenon
<1>14. c.strings = e.strings - Number(t, k.begin) + Number(t, k.end)
  <2>1. PICK O, C, ax, bx, cx, m, n, i, j :
           /\ O = k.begin /\ C = k.end /\ ax = e.strings /\ bx = b.strings /\ cx = c.strings
           /\ m = Number(t, k.begin) /\ n = Number(t, k.end)
           /\ i = Number(s, k.begin) /\ j = Number(s, k.end)
    OBVIOUS
  <2>2. /\ ~(x \in O /\ x \in C) /\ ax \in Int /\ m \in Nat /\ n \in Nat
        /\ i = m + (IF x \in O THEN 1 ELSE 0) /\ j = n + (IF x \in C THEN 1 ELSE 0)
        /\ bx = ax - i + j
        /\ cx = IF x \in O THEN bx + 1 ELSE IF x \in C THEN bx - 1 ELSE bx
    BY <1>6, <1>8, <1>9, <1>10, <1>11, <2>1, Zenon
  <2>3. cx = IF x \in O THEN (ax - i + j) + 1
             ELSE IF x \in C THEN (ax - i + j) - 1 ELSE ax - i + j
    BY <2>2, Zenon
  <2>4. cx = ax - m + n
    BY <2>2, <2>3, Balance
  <2>5. QED
    BY <2>1, <2>4, Zenon
<1>15. c = Before(k, e, t, g)
  <2>1. c = [depth |-> c.depth, brackets |-> c.brackets, strings |-> c.strings,
             line |-> c.line, phase |-> c.phase]
    BY <1>6 DEF Reader
  <2>2. QED
    BY <1>7, <1>12, <1>13, <1>14, <2>1 DEF Before
<1>16. Emits(b, c)
  BY <1>3, <1>5, ReaderEmits
<1>17. QED
  BY <1>1, <1>2, <1>4, <1>15, <1>16 DEF Told

(* The lengths that give rise to DEDENT and error tokens: one for each      *)
(* level left, and only the last may be the error.                          *)
LEMMA LevelsLeft ==
    ASSUME NEW stack \in Seq(Nat), SoundStack(stack), NEW len \in Nat, ~(len > Last(stack))
    PROVE  \E n \in Nat :
              /\ n < Len(stack) /\ Len(StackAfter(stack, len)) = Len(stack) - n
              /\ Len(LevelTokens(stack, len)) = n
              /\ len = 0 => n = Len(stack) - 1
              /\ \A i \in 1..n : LevelTokens(stack, len)[i] = DEDENT
                                 \/ (LevelTokens(stack, len)[i] = BAD_DEDENT /\ i = n /\ len # 0)
<1>1. /\ DOMAIN stack = 1..Len(stack) /\ Len(stack) \in Nat \ {0}
      /\ \A i \in 1..Len(stack) : stack[i] \in Nat
  BY EmptySeq, LenProperties, ElementOfSeq DEF SoundStack
<1>2. PICK m, ts, u : m = Kept(stack, len) /\ ts = LevelTokens(stack, len) /\ u = StackAfter(stack, len)
  OBVIOUS
<1>3. m \in 1..Len(stack) /\ \A i \in 1..Len(stack) : i > m => stack[i] > len
  BY <1>1, <1>2, KeptStops DEF StopsAt
<1>4. PICK n : n = Len(stack) - m /\ n \in Nat /\ n < Len(stack) /\ m = Len(stack) - n
  BY <1>1, <1>3
<1>5. Len(u) = m
  <2>1. m \in Int /\ \A i \in 1..m : stack[i] \in Nat
    BY <1>1, <1>3
  <2>2. Len(SubSeq(stack, 1, m)) = IF 1 <= m THEN m - 1 + 1 ELSE 0
    BY <2>1, 1 \in Int, SubSeqProperties
  <2>3. u = SubSeq(stack, 1, m)
    BY <1>2 DEF StackAfter
  <2>4. QED
    BY <1>1, <1>3, <2>2, <2>3
<1>6. ts = [i \in 1..n |-> IF len <= stack[Len(stack) - i] THEN DEDENT ELSE BAD_DEDENT]
  BY <1>2, <1>4 DEF LevelTokens
<1>7. Len(ts) = n
  BY <1>4, <1>6
<1>8. ASSUME NEW i \in 1..n
      PROVE  ts[i] = DEDENT \/ (ts[i] = BAD_DEDENT /\ i = n /\ len # 0)
  <2>1. ts[i] = IF len <= stack[Len(stack) - i] THEN DEDENT ELSE BAD_DEDENT
    BY <1>6, Zenon
  <2>2. PICK j : j = Len(stack) - i /\ j \in 1..Len(stack) /\ (i # n => j > m)
    <3>1. PICK l \in Nat : l = Len(stack)
      BY <1>1, Zenon
    <3>2. m \in 1..l /\ n = l - m /\ i \in 1..n
      BY <1>3, <1>4, <3>1
    <3>3. l - i \in 1..l /\ (i # n => l - i > m)
      BY <3>1, <3>2
    <3>4. QED
      BY <3>1, <3>3, Zenon
  <2>3. PICK x \in Nat : x = stack[j]
    BY <1>1, <2>2, Zenon
  <2>4. (i # n => x > len) /\ (len = 0 => len <= x)
    BY <1>3, <2>2, <2>3
  <2>5. i # n \/ len = 0 => len <= x
    BY <2>3, <2>4
  <2>6. ts[i] = IF len <= x THEN DEDENT ELSE BAD_DEDENT
    BY <2>1, <2>2, <2>3, Zenon
  <2>7. CASE len <= x
    <3>1. ts[i] = DEDENT
      BY <2>6, <2>7
    <3>2. QED
      BY <3>1
  <2>8. CASE ~(len <= x)
    <3>1. i = n /\ len # 0
      BY <2>5, <2>8
    <3>2. ts[i] = BAD_DEDENT
      BY <2>6, <2>8
    <3>3. QED
      BY <3>1, <3>2
  <2>9. QED
    BY <2>7, <2>8
<1>9. len = 0 => n = Len(stack) - 1
  <2>1. CASE m = 1
    BY <1>1, <1>4, <2>1
  <2>2. CASE m # 1
    <3>1. stack[m] <= len
      BY <1>2, KeptStops DEF StopsAt
    <3>2. stack[1] = 0 /\ stack[1] < stack[m] /\ stack[m] \in Nat
      BY <1>1, <1>3, <2>2 DEF SoundStack
    <3>3. QED
      BY <3>1, <3>2
  <2>3. QED
    BY <2>1, <2>2
<1>10. QED
  BY <1>2, <1>4, <1>5, <1>7, <1>8, <1>9

(* One level left.                                                          *)
Falls(r, t, c) ==
    /\ c \in Reader /\ c.depth = r.depth - 1
    /\ c.brackets = r.brackets /\ c.strings = r.strings /\ c.phase = r.phase
    /\ c.line = IF t = BAD_DEDENT THEN "open" ELSE "ended"

LEMMA Falling ==
    ASSUME NEW k, GoodKinds(k), NEW r \in Reader, NEW t \in {DEDENT, BAD_DEDENT}, NEW c,
           Falls(r, t, c), r.strings = 0 \/ r.phase = "closing", r.depth > 0,
           r.line = "ended" \/ (r.line = "joined" /\ t = DEDENT),
           r.phase = "body" \/ (r.phase = "closing" /\ t = DEDENT)
    PROVE  <<r, t, c>> \in Steps(k)
<1>1. /\ t \in Token /\ t.ch = "default" /\ DEDENT.type = "DEDENT" /\ BAD_DEDENT.type = "ERRORTOKEN"
      /\ INDENT.type = "INDENT" /\ LEADING_INDENT.type = "INDENT" /\ TRAILING_NEWLINE.type = "NEWLINE"
  BY MadeFields
<1>2. t \notin k.open /\ t \notin k.close /\ t \notin k.begin /\ t \notin k.end
  BY <1>1, KindsApart
<1>3. Legal(k, r, t)
  <2>1. CASE t = DEDENT
    <3>1. t # INDENT /\ t # LEADING_INDENT /\ t # BAD_DEDENT /\ t # TRAILING_NEWLINE
          /\ t \notin Counted(k) /\ t \notin k.end /\ t.type = "DEDENT"
      BY <1>1, <1>2, <2>1 DEF Counted
    <3>2. QED
      BY <1>1, <2>1, <3>1 DEF Legal, FrameTypes
  <2>2. CASE t = BAD_DEDENT
    <3>1. t # INDENT /\ t # LEADING_INDENT /\ t # DEDENT /\ t # TRAILING_NEWLINE
          /\ t \notin Counted(k) /\ t \notin k.end /\ t.type = "ERRORTOKEN"
      BY <1>1, <1>2, <2>2 DEF Counted
    <3>2. QED
      BY <1>1, <2>2, <3>1 DEF Legal, FrameTypes
  <2>3. QED
    BY <2>1, <2>2
<1>4. PICK d : d = ReaderAfter(k, r, t)
  OBVIOUS
<1>5. Reads(k, r, t, d)
  BY <1>1, <1>4, ReaderFields
<1>6. d \in Reader /\ d.depth = r.depth - 1 /\ d.brackets = r.brackets /\ d.strings = r.strings
  BY <1>1, <1>2, <1>5 DEF Reads
<1>7. d.line = (IF t = BAD_DEDENT THEN "open" ELSE "ended") /\ d.phase = r.phase
  BY <1>1, <1>5 DEF Reads
<1>8. d = c
  <2>1. \A x \in Reader :
           x = [depth |-> x.depth, brackets |-> x.brackets, strings |-> x.strings,
                line |-> x.line, phase |-> x.phase]
    BY DEF Reader
  <2>2. QED
    BY <1>6, <1>7, <2>1 DEF Falls
<1>9. QED
  BY <1>1, <1>3, <1>4, <1>8, Stepping

(* The tokens of a change of level.                                         *)
Shifts(e, ts, f) ==
    /\ f \in Reader
    /\ f.brackets = e.brackets /\ f.strings = e.strings /\ f.phase = e.phase
    /\ f.line = IF ts = <<>> THEN e.line
                ELSE IF Last(ts).type = "INDENT" THEN "indented"
                ELSE IF Last(ts).type = "DEDENT" THEN "ended" ELSE "open"
    /\ ts # <<>> => Last(ts).type \in {"INDENT", "DEDENT", "ERRORTOKEN"}

LEMMA ToldLevels ==
    ASSUME NEW k, GoodKinds(k), NEW h \in Heard, NEW s \in Seq(Token), NEW e, Told(k, h, s, e),
           NEW stack \in Seq(Nat), SoundStack(stack), NEW len \in Nat,
           e.depth = Len(stack) - 1, e.strings = 0 \/ e.phase = "closing",
           e.line = "ended" \/ (e.line = "joined" /\ len = 0),
           e.phase = "body" \/ (e.phase = "closing" /\ len = 0),
           e.brackets <= 0 \/ len = 0
    PROVE  \E f : /\ Told(k, h, s \o LevelTokens(stack, len), f)
                  /\ Before(k, f, s \o LevelTokens(stack, len), h) = Before(k, e, s, h)
                  /\ f.depth = Len(StackAfter(stack, len)) - 1
                  /\ Shifts(e, LevelTokens(stack, len), f)
                  /\ len = 0 => f.depth = 0 /\ f.line \in {"ended", "joined"}
<1>1. e \in Reader /\ Leads(Steps(k), Before(k, e, s, h), s, e)
  BY DEF Told
<1>2. /\ INDENT.type = "INDENT" /\ DEDENT.type = "DEDENT" /\ LEADING_INDENT.type = "INDENT"
      /\ TRAILING_NEWLINE.type = "NEWLINE" /\ BAD_DEDENT.type = "ERRORTOKEN"
      /\ INDENT.ch = "default" /\ INDENT \in Token /\ INDENT # LEADING_INDENT
      /\ {DEDENT, BAD_DEDENT} \subseteq Token
  BY MadeFields
<1>3. /\ Len(stack) \in Nat \ {0} /\ Last(stack) \in Nat
  <2>1. DOMAIN stack = 1..Len(stack) /\ Len(stack) \in Nat \ {0}
    BY EmptySeq, LenProperties DEF SoundStack
  <2>2. QED
    BY <2>1, ElementOfSeq DEF Last
<1>4. CASE len > Last(stack)
  <2>1. LevelTokens(stack, len) = <<INDENT>> /\ StackAfter(stack, len) = Append(stack, len)
    BY <1>4 DEF LevelTokens, StackAfter
  <2>2. len # 0 /\ Len(Append(stack, len)) = Len(stack) + 1
    BY <1>3, <1>4, AppendProperties
  <2>3. s \o <<INDENT>> = Append(s, INDENT) /\ <<INDENT>> # <<>> /\ Last(<<INDENT>>) = INDENT
    BY <1>2, AppendIsConcat DEF Last
  <2>4. /\ INDENT \notin k.open /\ INDENT \notin k.close /\ INDENT \notin k.begin /\ INDENT \notin k.end
    BY <1>2, KindsApart
  <2>5. Legal(k, e, INDENT)
    <3>1. INDENT # DEDENT /\ INDENT # BAD_DEDENT /\ INDENT # TRAILING_NEWLINE /\ INDENT \notin Counted(k)
      BY <1>2, <2>4 DEF Counted
    <3>2. QED
      BY <1>2, <2>2, <2>4, <3>1 DEF Legal, FrameTypes
  <2>6. PICK f : f = ReaderAfter(k, e, INDENT)
    OBVIOUS
  <2>7. /\ Told(k, h, s \o <<INDENT>>, f)
        /\ Before(k, f, s \o <<INDENT>>, h) = Before(k, e, s, h)
    BY <1>2, <2>3, <2>5, <2>6, ToldMore
  <2>8. Reads(k, e, INDENT, f)
    BY <1>1, <1>2, <2>6, ReaderFields
  <2>9. /\ f \in Reader /\ f.depth = e.depth + 1 /\ f.brackets = e.brackets /\ f.strings = e.strings
        /\ f.line = "indented" /\ f.phase = e.phase
    <3>1. INDENT # TRAILING_NEWLINE /\ INDENT.type = "INDENT" /\ INDENT.ch = "default"
      BY <1>2
    <3>2. QED
      BY <2>4, <2>8, <3>1 DEF Reads
  <2>10. f.depth = Len(StackAfter(stack, len)) - 1
    BY <1>3, <2>1, <2>2, <2>9
  <2>11. Shifts(e, <<INDENT>>, f)
    BY <1>2, <2>3, <2>9 DEF Shifts
  <2>12. QED
    BY <2>1, <2>2, <2>7, <2>10, <2>11
<1>5. CASE ~(len > Last(stack))
  <2>1. PICK n \in Nat :
            /\ n < Len(stack) /\ Len(StackAfter(stack, len)) = Len(stack) - n
            /\ Len(LevelTokens(stack, len)) = n
            /\ len = 0 => n = Len(stack) - 1
            /\ \A i \in 1..n : LevelTokens(stack, len)[i] = DEDENT
                               \/ (LevelTokens(stack, len)[i] = BAD_DEDENT /\ i = n /\ len # 0)
    BY <1>5, LevelsLeft
  <2>2. PICK ts \in Seq(Token) : ts = LevelTokens(stack, len)
    BY LevelTokensType
  <2>3. /\ Len(ts) = n
        /\ \A i \in 1..n : ts[i] = DEDENT \/ (ts[i] = BAD_DEDENT /\ i = n /\ len # 0)
    BY <2>1, <2>2
  <2> DEFINE g == [i \in 0..n |->
                     [depth |-> e.depth - i, brackets |-> e.brackets, strings |-> e.strings,
                      line |-> IF i = 0 THEN e.line
                               ELSE IF ts[i] = BAD_DEDENT THEN "open" ELSE "ended",
                      phase |-> e.phase]]
  <2>4. /\ e.depth \in Int /\ e.brackets \in Int /\ e.strings \in Int
        /\ e.line \in {"first", "open", "ended", "indented", "joined"}
        /\ e.phase \in {"fresh", "body", "closing", "ended"}
    BY <1>1 DEF Reader
  <2>5. ASSUME NEW i \in 0..n
        PROVE  /\ g[i] \in Reader /\ g[i].depth = e.depth - i
               /\ g[i].brackets = e.brackets /\ g[i].strings = e.strings /\ g[i].phase = e.phase
               /\ g[i].line = IF i = 0 THEN e.line
                              ELSE IF ts[i] = BAD_DEDENT THEN "open" ELSE "ended"
    <3>1. PICK l : l = IF i = 0 THEN e.line ELSE IF ts[i] = BAD_DEDENT THEN "open" ELSE "ended"
      OBVIOUS
    <3>2. l \in {"first", "open", "ended", "indented", "joined"}
      BY <2>4, <3>1
    <3>3. g[i] = [depth |-> e.depth - i, brackets |-> e.brackets, strings |-> e.strings,
                  line |-> l, phase |-> e.phase]
      BY <3>1
    <3> HIDE DEF g
    <3>4. e.depth - i \in Int
      BY <2>4
    <3>5. QED
      BY <2>4, <3>1, <3>2, <3>3, <3>4 DEF Reader
  <2>6. g[0] = e
    <3>1. \A x \in Reader :
             x = [depth |-> x.depth, brackets |-> x.brackets, strings |-> x.strings,
                  line |-> x.line, phase |-> x.phase]
      BY DEF Reader
    <3>2. 0 \in 0..n /\ e.depth - 0 = e.depth
      BY <2>1, <2>4
    <3>3. g[0] \in Reader /\ g[0].depth = e.depth /\ g[0].brackets = e.brackets
          /\ g[0].strings = e.strings /\ g[0].phase = e.phase /\ g[0].line = e.line
      BY <2>5, <3>2
    <3> HIDE DEF g
    <3>4. QED
      BY <1>1, <3>1, <3>3
  <2> HIDE DEF g
  <2>7. ASSUME NEW i \in 1..n PROVE <<g[i-1], ts[i], g[i]>> \in Steps(k)
    <3>1. i \in 0..n /\ i - 1 \in 0..n /\ (i - 1 = 0 \/ i - 1 \in 1..n) /\ i - 1 # n
      BY <2>1
    <3>2. PICK j, r, t, c : j = i - 1 /\ r = g[j] /\ t = ts[i] /\ c = g[i]
      OBVIOUS
    <3>3. /\ r \in Reader /\ r.depth = e.depth - j
          /\ r.brackets = e.brackets /\ r.strings = e.strings /\ r.phase = e.phase
          /\ r.line = IF j = 0 THEN e.line ELSE IF ts[j] = BAD_DEDENT THEN "open" ELSE "ended"
      BY <2>5, <3>1, <3>2
    <3>4. /\ c \in Reader /\ c.depth = e.depth - i
          /\ c.brackets = e.brackets /\ c.strings = e.strings /\ c.phase = e.phase
          /\ c.line = IF i = 0 THEN e.line ELSE IF t = BAD_DEDENT THEN "open" ELSE "ended"
      BY <2>5, <3>1, <3>2
    <3>5. /\ t = DEDENT \/ (t = BAD_DEDENT /\ len # 0)
          /\ j # 0 => ts[j] # BAD_DEDENT
      BY <1>2, <2>3, <3>1, <3>2
    <3>6. Falls(r, t, c)
      BY <2>4, <3>1, <3>2, <3>3, <3>4 DEF Falls
    <3>7. r.depth > 0
      BY <1>3, <2>1, <2>4, <3>2, <3>3
    <3>8. /\ r.line = "ended" \/ (r.line = "joined" /\ t = DEDENT)
          /\ r.phase = "body" \/ (r.phase = "closing" /\ t = DEDENT)
          /\ r.strings = 0 \/ r.phase = "closing"
      BY <3>3, <3>5
    <3>9. <<r, t, c>> \in Steps(k)
      BY <3>3, <3>5, <3>6, <3>7, <3>8, Falling
    <3>10. QED
      BY <3>2, <3>9
  <2>8. PICK f : f = g[n]
    OBVIOUS
  <2>9. /\ f \in Reader /\ f.depth = e.depth - n
        /\ f.brackets = e.brackets /\ f.strings = e.strings /\ f.phase = e.phase
        /\ f.line = IF n = 0 THEN e.line ELSE IF ts[n] = BAD_DEDENT THEN "open" ELSE "ended"
    <3>1. n \in 0..n
      BY <2>1
    <3>2. QED
      BY <2>5, <2>8, <3>1, Zenon
  <2>10. Leads(Steps(k), e, ts, f)
    BY <2>3, <2>6, <2>7, <2>8 DEF Leads
  <2>11. Leads(Steps(k), Before(k, e, s, h), s \o ts, f)
    BY <1>1, <2>2, <2>10, LeadsConcat
  <2>12. PICK u : u = s \o ts
    OBVIOUS
  <2>13. /\ \A i \in 1..Len(ts) : ts[i] \in {DEDENT, BAD_DEDENT}
         /\ \A i \in 1..Len(ts) : /\ ts[i] \notin {INDENT} /\ ts[i] \notin k.open
                                  /\ ts[i] \notin k.close /\ ts[i] \notin k.begin /\ ts[i] \notin k.end
    <3>1. \A t \in {DEDENT, BAD_DEDENT} :
             /\ t \notin {INDENT} /\ t \notin k.open /\ t \notin k.close
             /\ t \notin k.begin /\ t \notin k.end
      BY <1>2, KindsApart
    <3>2. \A i \in 1..Len(ts) : ts[i] \in {DEDENT, BAD_DEDENT}
      BY <2>3
    <3>3. QED
      BY <3>1, <3>2
  <2>14. /\ Number(ts, {DEDENT, BAD_DEDENT}) = n
         /\ Number(ts, {INDENT}) = 0 /\ Number(ts, k.open) = 0 /\ Number(ts, k.close) = 0
         /\ Number(ts, k.begin) = 0 /\ Number(ts, k.end) = 0
    <3>1. \A S : /\ (\A i \in 1..Len(ts) : ts[i] \notin S) => Number(ts, S) = 0
                 /\ (\A i \in 1..Len(ts) : ts[i] \in S) => Number(ts, S) = Len(ts)
      BY <2>2, NumberType, Zenon
    <3>2. QED
      BY <2>3, <2>13, <3>1, Zenon
  <2>15. \A S : Number(u, S) = Number(s, S) + Number(ts, S) /\ Number(s, S) \in Nat
    <3>1. ASSUME NEW S PROVE Number(u, S) = Number(s, S) + Number(ts, S) /\ Number(s, S) \in Nat
      <4>1. \A t \in Seq(Token) : Number(s \o t, S) = Number(s, S) + Number(t, S)
        BY NumberConcat, Zenon
      <4>2. Number(s, S) \in Nat
        BY NumberType, Zenon
      <4>3. QED
        BY <2>2, <2>12, <4>1, <4>2, Zenon
    <3>2. QED
      BY <3>1
  <2>16. /\ Number(u, {DEDENT, BAD_DEDENT}) = Number(s, {DEDENT, BAD_DEDENT}) + n
         /\ Number(u, {INDENT}) = Number(s, {INDENT}) + 0
         /\ Number(u, k.open) = Number(s, k.open) + 0
         /\ Number(u, k.close) = Number(s, k.close) + 0
         /\ Number(u, k.begin) = Number(s, k.begin) + 0
         /\ Number(u, k.end) = Number(s, k.end) + 0
         /\ Number(s, {DEDENT, BAD_DEDENT}) \in Nat /\ Number(s, {INDENT}) \in Nat
         /\ Number(s, k.open) \in Nat /\ Number(s, k.close) \in Nat
         /\ Number(s, k.begin) \in Nat /\ Number(s, k.end) \in Nat
    BY <2>14, <2>15, Zenon
  <2>17. /\ f.depth - Number(u, {INDENT}) + Number(u, {DEDENT, BAD_DEDENT})
              = e.depth - Number(s, {INDENT}) + Number(s, {DEDENT, BAD_DEDENT})
         /\ Number(u, k.open) = Number(s, k.open) /\ Number(u, k.close) = Number(s, k.close)
         /\ Number(u, k.begin) = Number(s, k.begin) /\ Number(u, k.end) = Number(s, k.end)
    <3>1. PICK a, b, c, d : /\ a = Number(u, {INDENT}) /\ b = Number(s, {INDENT})
                            /\ c = Number(u, {DEDENT, BAD_DEDENT}) /\ d = Number(s, {DEDENT, BAD_DEDENT})
      OBVIOUS
    <3>2. b \in Nat /\ d \in Nat /\ a = b + 0 /\ c = d + n
      BY <2>16, <3>1, Zenon
    <3>3. f.depth - a + c = e.depth - b + d
      BY <2>4, <2>9, <3>2
    <3>4. QED
      BY <2>16, <3>1, <3>3
  <2>18. Before(k, f, u, h) = Before(k, e, s, h)
    BY <2>9, <2>17 DEF Before
  <2>19. Told(k, h, s \o ts, f)
    BY <2>9, <2>11, <2>12, <2>18 DEF Told
  <2>20. Shifts(e, ts, f)
    <3>1. CASE n = 0
      <4>1. ts = <<>>
        BY <2>2, <2>3, <3>1, EmptySeq
      <4>2. QED
        BY <2>9, <3>1, <4>1 DEF Shifts
    <3>2. CASE n # 0
      <4>1. ts # <<>> /\ Last(ts) = ts[n] /\ n \in 1..n
        BY <2>1, <2>3, <3>2 DEF Last
      <4>2. ts[n] = DEDENT \/ ts[n] = BAD_DEDENT
        BY <2>3, <4>1
      <4>3. QED
        BY <1>2, <2>9, <3>2, <4>1, <4>2 DEF Shifts
    <3>3. QED
      BY <3>1, <3>2
  <2>21. f.depth = Len(StackAfter(stack, len)) - 1
    BY <1>3, <2>1, <2>9
  <2>22. len = 0 => f.depth = 0 /\ f.line \in {"ended", "joined"}
    <3>1. len = 0 => f.depth = 0
      BY <1>3, <2>1, <2>4, <2>9
    <3>2. CASE n = 0
      <4>1. f.line = e.line
        BY <2>9, <3>2
      <4>2. QED
        BY <3>1, <4>1
    <3>3. CASE n # 0
      <4>1. n \in 1..n
        BY <2>1, <3>3
      <4>2. len = 0 => ts[n] = DEDENT
        BY <2>3, <4>1
      <4>3. QED
        BY <1>2, <2>9, <3>1, <3>3, <4>2
    <3>4. QED
      BY <3>1, <3>2, <3>3
  <2>23. QED
    BY <2>2, <2>12, <2>18, <2>19, <2>20, <2>21, <2>22
<1>6. QED
  BY <1>4, <1>5

(* The queue tells the reader what `last` says of the current line.         *)
Tells(k, h, q, e) ==
    /\ Told(k, h, q.pending, e)
    /\ e.phase \in {"fresh", "body"} =>
          /\ q.last = "none" => e.line = "first"
          /\ q.last \in {"NEWLINE", "DEDENT"} => e.line \in {"ended", "joined"}
          /\ q.last = "INDENT" => e.line \in {"indented", "open"}
          /\ q.last \notin {"none", "NEWLINE", "DEDENT", "INDENT"} => e.line = "open"

(* ... and goes on to tell it so, with more tokens, from the same start.    *)
Continues(k, h, q, e, r, f) ==
    /\ r \in Queue /\ Tells(k, h, r, f)
    /\ Before(k, f, r.pending, h) = Before(k, e, q.pending, h)

LEMMA TellMore ==
    ASSUME NEW k, GoodKinds(k), NEW h \in Heard, NEW q \in Queue, NEW e, Tells(k, h, q, e),
           NEW t \in Token, Legal(k, e, t), t.type # "none",
           t.type = "EXPLICIT_LINE_JOINING" => t.ch = "hidden"
    PROVE  \E f : Continues(k, h, q, e, AddPending(q, t), f) /\ Reads(k, e, t, f)
<1>1. PICK f : f = ReaderAfter(k, e, t)
  OBVIOUS
<1>2. PICK r \in Queue : r = AddPending(q, t)
  BY AddPendingType
<1>3. q.pending \in Seq(Token) /\ r.pending = Append(q.pending, t)
      /\ r.last = IF t.ch = "default" THEN t.type ELSE q.last
  BY <1>2 DEF Queue, AddPending
<1>4. Told(k, h, q.pending, e) /\ e \in Reader
  BY DEF Tells, Told
<1>5. /\ Told(k, h, r.pending, f) /\ Before(k, f, r.pending, h) = Before(k, e, q.pending, h)
  BY <1>1, <1>3, <1>4, ToldMore
<1>6. Reads(k, e, t, f)
  BY <1>1, <1>4, ReaderFields
<1>7. ASSUME f.phase \in {"fresh", "body"}
      PROVE  /\ r.last = "none" => f.line = "first"
             /\ r.last \in {"NEWLINE", "DEDENT"} => f.line \in {"ended", "joined"}
             /\ r.last = "INDENT" => f.line \in {"indented", "open"}
             /\ r.last \notin {"none", "NEWLINE", "DEDENT", "INDENT"} => f.line = "open"
  <2>1. /\ f.line = IF t.type = "EXPLICIT_LINE_JOINING"
                    THEN IF e.line = "ended" THEN "joined"
                         ELSE IF e.line = "indented" THEN "open" ELSE e.line
                    ELSE IF t.ch = "hidden" \/ t.type = "EOF" THEN e.line
                    ELSE IF t.type \in {"NEWLINE", "DEDENT"} THEN "ended"
                    ELSE IF t.type = "INDENT" THEN "indented" ELSE "open"
        /\ f.phase = IF t.type = "EOF" THEN "ended" ELSE IF t.type = "ENCODING" THEN "body"
                     ELSE IF t = TRAILING_NEWLINE THEN "closing" ELSE e.phase
    BY <1>6 DEF Reads
  <2>2. t.type # "EOF" /\ t # TRAILING_NEWLINE
    <3>1. TRAILING_NEWLINE.type = "NEWLINE"
      BY MadeFields
    <3>2. QED
      BY <1>7, <2>1, <3>1
  <2>3. CASE t.ch = "default"
    <3>1. t.type # "EXPLICIT_LINE_JOINING" /\ t.ch # "hidden" /\ r.last = t.type
      BY <1>3, <2>3
    <3>2. f.line = IF t.type \in {"NEWLINE", "DEDENT"} THEN "ended"
                   ELSE IF t.type = "INDENT" THEN "indented" ELSE "open"
      BY <2>1, <2>2, <3>1
    <3>3. QED
      BY <3>1, <3>2
  <2>4. CASE t.ch # "default"
    <3>1. t.ch = "hidden" /\ r.last = q.last
      BY <1>3, <2>4 DEF Token, Channels
    <3>2. e.phase \in {"fresh", "body"}
      <4>1. t.type = "ENCODING" => e.phase = "fresh"
        BY DEF Legal
      <4>2. QED
        BY <1>7, <2>1, <2>2, <4>1
    <3>3. /\ q.last = "none" => e.line = "first"
          /\ q.last \in {"NEWLINE", "DEDENT"} => e.line \in {"ended", "joined"}
          /\ q.last = "INDENT" => e.line \in {"indented", "open"}
          /\ q.last \notin {"none", "NEWLINE", "DEDENT", "INDENT"} => e.line = "open"
      BY <3>2 DEF Tells
    <3>4. f.line = IF t.type = "EXPLICIT_LINE_JOINING"
                   THEN IF e.line = "ended" THEN "joined"
                        ELSE IF e.line = "indented" THEN "open" ELSE e.line
                   ELSE e.line
      BY <2>1, <3>1
    <3>5. QED
      BY <3>1, <3>3, <3>4
  <2>5. QED
    BY <2>3, <2>4
<1>8. QED
  BY <1>2, <1>5, <1>6, <1>7 DEF Continues, Tells

(* What may be said of a raw token that comes next.                         *)
Readable(k, e, t) ==
    /\ t \in Token /\ t.pos # 0 /\ t.type \notin {"none", "INDENT", "DEDENT", "ENCODING"}
    /\ t.type = "EXPLICIT_LINE_JOINING" => t.ch = "hidden"
    /\ t \in Counted(k) => t.ch = "default"
    /\ t \in k.end => e.strings > 0
    /\ e.phase = "body" \/ (e.phase = "closing" /\ t.type = "EOF")
    /\ t.type = "NEWLINE" /\ t.ch = "default" =>
          e.line \in {"open", "joined"} /\ e.brackets <= 0 /\ e.strings = 0
    /\ t.type = "EOF" => e.depth = 0 /\ e.line \in {"first", "ended", "joined"}

(* ... and of where it leads.                                               *)
ReadsOn(k, e, t, f) ==
    /\ f \in Reader /\ f.depth = e.depth
    /\ f.brackets = IF t \in k.open THEN e.brackets + 1
                    ELSE IF t \in k.close THEN e.brackets - 1 ELSE e.brackets
    /\ f.strings = IF t \in k.begin THEN e.strings + 1
                   ELSE IF t \in k.end THEN e.strings - 1 ELSE e.strings
    /\ f.line = IF t.type = "EXPLICIT_LINE_JOINING"
                THEN IF e.line = "ended" THEN "joined"
                     ELSE IF e.line = "indented" THEN "open" ELSE e.line
                ELSE IF t.ch = "hidden" \/ t.type = "EOF" THEN e.line
                ELSE IF t.type = "NEWLINE" THEN "ended" ELSE "open"
    /\ f.phase = IF t.type = "EOF" THEN "ended" ELSE e.phase

LEMMA TellRead ==
    ASSUME NEW k, GoodKinds(k), NEW h \in Heard, NEW q \in Queue, NEW e, Tells(k, h, q, e),
           NEW t, Readable(k, e, t)
    PROVE  \E f : Continues(k, h, q, e, AddPending(q, t), f) /\ ReadsOn(k, e, t, f)
<1>1. /\ INDENT.pos = 0 /\ DEDENT.pos = 0 /\ LEADING_INDENT.pos = 0
      /\ TRAILING_NEWLINE.pos = 0 /\ BAD_DEDENT.pos = 0
  BY MadeFields
<1>2. /\ t \in Token /\ t.pos # 0 /\ t.type \notin {"none", "INDENT", "DEDENT", "ENCODING"}
      /\ t.type = "EXPLICIT_LINE_JOINING" => t.ch = "hidden"
  BY DEF Readable
<1>3. t \notin {INDENT, DEDENT, LEADING_INDENT, TRAILING_NEWLINE, BAD_DEDENT}
  BY <1>1, <1>2
<1>4. Legal(k, e, t)
  <2>1. /\ t.type = "INDENT" => t \in {INDENT, LEADING_INDENT}
        /\ t.type = "DEDENT" => t = DEDENT
        /\ t.type = "ENCODING" => e.phase = "fresh" /\ t.ch = "hidden"
        /\ t # INDENT /\ t # LEADING_INDENT /\ t # DEDENT /\ t # BAD_DEDENT /\ t # TRAILING_NEWLINE
    BY <1>2, <1>3
  <2>2. /\ t \in Counted(k) => t.ch = "default"
        /\ t \in k.end => e.strings > 0
        /\ t.type = "EXPLICIT_LINE_JOINING" => e.phase = "body"
        /\ t.type = "NEWLINE" /\ t.ch = "default" =>
              /\ e.phase = "body" /\ e.line \in {"open", "joined"}
              /\ e.brackets <= 0 /\ e.strings = 0
        /\ t.type = "EOF" => /\ e.phase \in {"body", "closing"} /\ e.depth = 0
                             /\ e.line \in {"first", "ended", "joined"}
        /\ t.type # "EOF" => e.phase = "body"
    BY DEF Readable
  <2>3. QED
    BY <2>1, <2>2 DEF Legal, FrameTypes
<1>5. PICK f : Continues(k, h, q, e, AddPending(q, t), f) /\ Reads(k, e, t, f)
  BY <1>2, <1>4, TellMore
<1>6. ReadsOn(k, e, t, f)
  BY <1>2, <1>3, <1>5 DEF Reads, ReadsOn
<1>7. QED
  BY <1>5, <1>6

(* Indentation tokens that the reader can take after e ...                  *)
RoomForLevels(k, e, stack, len) ==
    /\ GoodKinds(k) /\ stack \in Seq(Nat) /\ SoundStack(stack) /\ len \in Nat
    /\ e.depth = Len(stack) - 1
    /\ e.strings = 0 \/ e.phase = "closing"
    /\ e.line = "ended" \/ (e.line = "joined" /\ len = 0)
    /\ e.phase = "body" \/ (e.phase = "closing" /\ len = 0)
    /\ e.brackets <= 0 \/ len = 0

(* ... and where they lead.                                                 *)
LevelsOn(e, stack, len, f) ==
    /\ f \in Reader /\ f.depth = Len(StackAfter(stack, len)) - 1
    /\ f.brackets = e.brackets /\ f.strings = e.strings /\ f.phase = e.phase
    /\ f.line \in {"ended", "joined", "indented", "open"}
    /\ len = 0 => f.depth = 0 /\ f.line \in {"ended", "joined"}

LEMMA TellLevels ==
    ASSUME NEW k, NEW h \in Heard, NEW q \in Queue, NEW e, Tells(k, h, q, e),
           NEW stack, NEW len, RoomForLevels(k, e, stack, len)
    PROVE  \E f : /\ Continues(k, h, q, e, AddAll(q, LevelTokens(stack, len)), f)
                  /\ LevelsOn(e, stack, len, f)
<1>0. /\ GoodKinds(k) /\ stack \in Seq(Nat) /\ SoundStack(stack) /\ len \in Nat
      /\ e.depth = Len(stack) - 1
      /\ e.strings = 0 \/ e.phase = "closing"
      /\ e.line = "ended" \/ (e.line = "joined" /\ len = 0)
      /\ e.phase = "body" \/ (e.phase = "closing" /\ len = 0)
      /\ e.brackets <= 0 \/ len = 0
  BY DEF RoomForLevels
<1>1. PICK ts \in Seq(Token) : ts = LevelTokens(stack, len)
  BY <1>0, LevelTokensType
<1>2. PICK r \in Queue : r = AddAll(q, ts)
  BY AddAllType
<1>3. Told(k, h, q.pending, e) /\ q.pending \in Seq(Token)
  BY DEF Tells, Queue
<1>4. PICK f : /\ Told(k, h, q.pending \o ts, f)
               /\ Before(k, f, q.pending \o ts, h) = Before(k, e, q.pending, h)
               /\ f.depth = Len(StackAfter(stack, len)) - 1
               /\ Shifts(e, ts, f)
               /\ len = 0 => f.depth = 0 /\ f.line \in {"ended", "joined"}
  BY <1>0, <1>1, <1>3, ToldLevels
<1>5. r.pending = q.pending \o ts /\ (ts = <<>> => r = q)
      /\ (ts # <<>> => r.last = Last(ts).type)
  <2>1. q.pending \o <<>> = q.pending
    BY <1>3, ConcatEmptySeq
  <2>2. QED
    BY <1>2, <2>1 DEF AddAll
<1>6. /\ f \in Reader /\ f.brackets = e.brackets /\ f.strings = e.strings /\ f.phase = e.phase
      /\ f.line = IF ts = <<>> THEN e.line
                  ELSE IF Last(ts).type = "INDENT" THEN "indented"
                  ELSE IF Last(ts).type = "DEDENT" THEN "ended" ELSE "open"
      /\ ts # <<>> => Last(ts).type \in {"INDENT", "DEDENT", "ERRORTOKEN"}
  BY <1>4 DEF Shifts
<1>7. f.phase \in {"fresh", "body"} =>
             /\ r.last = "none" => f.line = "first"
             /\ r.last \in {"NEWLINE", "DEDENT"} => f.line \in {"ended", "joined"}
             /\ r.last = "INDENT" => f.line \in {"indented", "open"}
             /\ r.last \notin {"none", "NEWLINE", "DEDENT", "INDENT"} => f.line = "open"
  <2>1. CASE ts = <<>>
    BY <1>5, <1>6, <2>1 DEF Tells
  <2>2. CASE ts # <<>>
    BY <1>5, <1>6, <2>2
  <2>3. QED
    BY <2>1, <2>2
<1>8. Continues(k, h, q, e, r, f)
  BY <1>2, <1>4, <1>5, <1>7 DEF Continues, Tells
<1>9. f.line \in {"ended", "joined", "indented", "open"}
  BY <1>0, <1>6
<1>10. QED
  BY <1>1, <1>2, <1>4, <1>6, <1>8, <1>9 DEF LevelsOn

LEMMA ContinuesOn ==
    ASSUME NEW k, NEW h, NEW q, NEW e, NEW r, NEW f, NEW s, NEW g,
           Continues(k, h, q, e, r, f), Continues(k, h, r, f, s, g)
    PROVE  Continues(k, h, q, e, s, g)
BY DEF Continues

(* pending_tokens.pop(0).                                                   *)
LEMMA TellHead ==
    ASSUME NEW k, GoodKinds(k), NEW h \in Heard, NEW q \in Queue, q.pending # <<>>,
           NEW e, Tells(k, h, q, e)
    PROVE  LET r == [q EXCEPT !.pending = Tail(@)]
               g == HeardAfter(h, Head(q.pending))
           IN  /\ Tells(k, g, r, e)
               /\ Emits(Before(k, e, q.pending, h), Before(k, e, r.pending, g))
<1>1. PICK r, g : r = [q EXCEPT !.pending = Tail(@)] /\ g = HeardAfter(h, Head(q.pending))
  OBVIOUS
<1>2. q.pending \in Seq(Token) /\ r.pending = Tail(q.pending) /\ r.last = q.last
  BY <1>1 DEF Queue
<1>3. /\ Told(k, g, r.pending, e)
      /\ Emits(Before(k, e, q.pending, h), Before(k, e, r.pending, g))
  BY <1>1, <1>2, ToldHead DEF Tells
<1>4. Tells(k, g, r, e)
  BY <1>2, <1>3 DEF Tells
<1>5. QED
  BY <1>1, <1>3, <1>4

(* The queue of HideAndAdd.                                                 *)
LEMMA TellHidden ==
    ASSUME NEW k, GoodKinds(k), NEW h \in Heard, NEW q \in Queue, NEW e, Tells(k, h, q, e),
           NEW t \in Token, t.pos # 0, t.type \in HiddenTypes \union {"NEWLINE"}, e.phase = "body"
    PROVE  \E f : /\ Continues(k, h, q, e, HideAndAdd(q, t), f)
                  /\ HideAndAdd(q, t).prev = t.type
                  /\ f.depth = e.depth /\ f.brackets = e.brackets /\ f.strings = e.strings
                  /\ f.phase = "body"
                  /\ f.line = IF t.type = "EXPLICIT_LINE_JOINING"
                              THEN IF e.line = "ended" THEN "joined"
                                   ELSE IF e.line = "indented" THEN "open" ELSE e.line
                              ELSE e.line
<1>1. PICK u : u = [t EXCEPT !.ch = "hidden"]
  OBVIOUS
<1>2. u \in Token /\ u.type = t.type /\ u.pos = t.pos /\ u.ch = "hidden"
  BY <1>1 DEF Token, Channels
<1>3. t.type \in {"WS", "COMMENT", "EXPLICIT_LINE_JOINING", "NEWLINE"}
  BY DEF HiddenTypes
<1>4. u \notin Counted(k) /\ u \notin k.open /\ u \notin k.close
      /\ u \notin k.begin /\ u \notin k.end /\ t.type # "EOF"
  BY <1>2, <1>3 DEF GoodKinds, Counted
<1>5. Readable(k, e, u)
  BY <1>2, <1>3, <1>4 DEF Readable
<1>6. PICK f : Continues(k, h, q, e, AddPending(q, u), f) /\ ReadsOn(k, e, u, f)
  BY <1>5, TellRead
<1>7. /\ f.depth = e.depth /\ f.brackets = e.brackets /\ f.strings = e.strings
      /\ f.phase = "body"
      /\ f.line = IF t.type = "EXPLICIT_LINE_JOINING"
                  THEN IF e.line = "ended" THEN "joined"
                       ELSE IF e.line = "indented" THEN "open" ELSE e.line
                  ELSE e.line
  BY <1>2, <1>4, <1>6 DEF ReadsOn
<1>8. HideAndAdd(q, t) = AddPending(q, u) /\ AddPending(q, u).prev = t.type
  BY <1>1, <1>2 DEF HideAndAdd, AddPending
<1>9. QED
  BY <1>6, <1>7, <1>8

(* A NEWLINE that ends a line.                                              *)
LEMMA TellNewline ==
    ASSUME NEW k, GoodKinds(k), NEW h \in Heard, NEW q \in Queue, NEW e, Tells(k, h, q, e),
           NEW t \in Token, t.pos # 0, t.type = "NEWLINE", t.ch = "default", e.phase = "body",
           e.line \in {"open", "joined"}, e.brackets <= 0, e.strings = 0
    PROVE  \E f : /\ Continues(k, h, q, e, AddPending(q, t), f)
                  /\ f.depth = e.depth /\ f.brackets = e.brackets /\ f.strings = e.strings
                  /\ f.phase = "body" /\ f.line = "ended"
<1>1. t \notin Counted(k) /\ t \notin k.open /\ t \notin k.close
      /\ t \notin k.begin /\ t \notin k.end
  BY DEF GoodKinds, Counted
<1>2. Readable(k, e, t)
  BY <1>1 DEF Readable
<1>3. PICK f : Continues(k, h, q, e, AddPending(q, t), f) /\ ReadsOn(k, e, t, f)
  BY <1>2, TellRead
<1>4. /\ f.depth = e.depth /\ f.brackets = e.brackets /\ f.strings = e.strings
      /\ f.phase = "body" /\ f.line = "ended"
  BY <1>1, <1>3 DEF ReadsOn
<1>5. QED
  BY <1>3, <1>4

(* The NEWLINE that ends the last line, if it had none.                     *)
LEMMA TellTrailing ==
    ASSUME NEW k, GoodKinds(k), NEW h \in Heard, NEW q \in Queue, NEW e, Tells(k, h, q, e),
           e.phase = "body", e.line # "open" => e.strings = 0, q.last # "none", e.line # "indented",
           NEW r, r = IF q.last \in {"NEWLINE", "DEDENT"} THEN q ELSE AddPending(q, TRAILING_NEWLINE)
    PROVE  \E f : /\ Continues(k, h, q, e, r, f)
                  /\ f.depth = e.depth /\ f.brackets = e.brackets /\ f.strings = e.strings
                  /\ f.phase \in {"body", "closing"} /\ f.line \in {"ended", "joined"}
                  /\ f.strings = 0 \/ f.phase = "closing"
<1>1. CASE q.last \in {"NEWLINE", "DEDENT"}
  <2>1. e.line \in {"ended", "joined"}
    BY <1>1 DEF Tells
  <2>2. Continues(k, h, q, e, r, e)
    BY <1>1 DEF Continues
  <2>3. QED
    BY <2>1, <2>2
<1>2. CASE q.last \notin {"NEWLINE", "DEDENT"}
  <2>1. r = AddPending(q, TRAILING_NEWLINE)
    BY <1>2
  <2>2. e.line = "open"
    BY <1>2 DEF Tells
  <2>3. /\ TRAILING_NEWLINE \in Token /\ TRAILING_NEWLINE.type = "NEWLINE"
        /\ TRAILING_NEWLINE.ch = "default"
        /\ TRAILING_NEWLINE \notin {INDENT, DEDENT, LEADING_INDENT, BAD_DEDENT}
    BY MadeFields
  <2>4. /\ TRAILING_NEWLINE \notin Counted(k) /\ TRAILING_NEWLINE \notin k.end
        /\ TRAILING_NEWLINE \notin k.open /\ TRAILING_NEWLINE \notin k.close
        /\ TRAILING_NEWLINE \notin k.begin
    BY <2>3 DEF GoodKinds, Counted
  <2>5. Legal(k, e, TRAILING_NEWLINE)
    BY <2>2, <2>3, <2>4 DEF Legal, FrameTypes
  <2>6. PICK f : /\ Continues(k, h, q, e, AddPending(q, TRAILING_NEWLINE), f)
                 /\ Reads(k, e, TRAILING_NEWLINE, f)
    <3>1. TRAILING_NEWLINE.type # "none" /\ TRAILING_NEWLINE.type # "EXPLICIT_LINE_JOINING"
      BY <2>3
    <3>2. QED
      BY <2>3, <2>5, <3>1, TellMore
  <2>7. /\ f.depth = e.depth /\ f.brackets = e.brackets /\ f.strings = e.strings
        /\ f.phase = "closing" /\ f.line = "ended"
    BY <2>2, <2>3, <2>4, <2>6 DEF Reads
  <2>8. QED
    BY <2>1, <2>6, <2>7
<1>3. QED
  BY <1>1, <1>2

(* EOF, once every level is closed.                                         *)
LEMMA TellEof ==
    ASSUME NEW k, GoodKinds(k), NEW h \in Heard, NEW q \in Queue, NEW e, Tells(k, h, q, e),
           e.depth = 0, e.phase \in {"body", "closing"}, e.line \in {"first", "ended", "joined"},
           NEW t \in Token, t.pos # 0, t.type = "EOF"
    PROVE  \E f : /\ Continues(k, h, q, e, AddPending(q, t), f)
                  /\ AddPending(q, t).prev = "EOF"
                  /\ f.depth = 0 /\ f.brackets = e.brackets /\ f.strings = e.strings
                  /\ f.phase = "ended" /\ f.line = e.line
<1>1. t \notin Counted(k) /\ t \notin k.open /\ t \notin k.close
      /\ t \notin k.begin /\ t \notin k.end
  BY DEF GoodKinds, Counted
<1>2. Readable(k, e, t)
  BY <1>1 DEF Readable
<1>3. PICK f : Continues(k, h, q, e, AddPending(q, t), f) /\ ReadsOn(k, e, t, f)
  BY <1>2, TellRead
<1>4. /\ f.depth = 0 /\ f.brackets = e.brackets /\ f.strings = e.strings
      /\ f.phase = "ended" /\ f.line = e.line
  BY <1>1, <1>3 DEF ReadsOn
<1>5. AddPending(q, t).prev = "EOF"
  BY DEF AddPending
<1>6. QED
  BY <1>3, <1>4, <1>5

(* An ERRORTOKEN of the lexer's own, for a mix of tabs and spaces.          *)
LEMMA TellBadTabs ==
    ASSUME NEW k, GoodKinds(k), NEW h \in Heard, NEW q \in Queue, NEW e, Tells(k, h, q, e),
           e.phase = "body"
    PROVE  \E f : /\ Continues(k, h, q, e, AddPending(q, BAD_TABS), f)
                  /\ AddPending(q, BAD_TABS).prev = "ERRORTOKEN"
                  /\ f.depth = e.depth /\ f.brackets = e.brackets /\ f.strings = e.strings
                  /\ f.phase = "body" /\ f.line = "open"
<1>1. /\ BAD_TABS \in Token /\ BAD_TABS.type = "ERRORTOKEN" /\ BAD_TABS.ch = "default"
      /\ BAD_TABS \notin {INDENT, DEDENT, LEADING_INDENT, TRAILING_NEWLINE, BAD_DEDENT}
  BY MadeFields
<1>2. /\ BAD_TABS \notin Counted(k) /\ BAD_TABS \notin k.end /\ BAD_TABS \notin k.open
      /\ BAD_TABS \notin k.close /\ BAD_TABS \notin k.begin
  BY <1>1 DEF GoodKinds, Counted
<1>3. Legal(k, e, BAD_TABS)
  BY <1>1, <1>2 DEF Legal, FrameTypes
<1>4. PICK f : Continues(k, h, q, e, AddPending(q, BAD_TABS), f) /\ Reads(k, e, BAD_TABS, f)
  <2>1. BAD_TABS.type # "none" /\ BAD_TABS.type # "EXPLICIT_LINE_JOINING"
    BY <1>1
  <2>2. QED
    BY <1>1, <1>3, <2>1, TellMore
<1>5. /\ f.depth = e.depth /\ f.brackets = e.brackets /\ f.strings = e.strings
      /\ f.phase = "body" /\ f.line = "open"
  BY <1>1, <1>2, <1>4 DEF Reads
<1>6. AddPending(q, BAD_TABS).prev = "ERRORTOKEN"
  BY <1>1 DEF AddPending
<1>7. QED
  BY <1>4, <1>5, <1>6

(* The INDENT before the first statement.                                   *)
LEMMA TellLeadingIndent ==
    ASSUME NEW k, GoodKinds(k), NEW h \in Heard, NEW q \in Queue, NEW e, Tells(k, h, q, e),
           e.phase = "body", e.line = "first", e.strings = 0
    PROVE  \E f : /\ Continues(k, h, q, e, AddPending(q, LEADING_INDENT), f)
                  /\ AddPending(q, LEADING_INDENT).prev = "INDENT"
                  /\ f.depth = e.depth /\ f.brackets = e.brackets /\ f.strings = 0
                  /\ f.phase = "body" /\ f.line = "indented"
<1>1. /\ LEADING_INDENT \in Token /\ LEADING_INDENT.type = "INDENT" /\ LEADING_INDENT.ch = "default"
      /\ LEADING_INDENT \notin {INDENT, DEDENT, TRAILING_NEWLINE, BAD_DEDENT}
  BY MadeFields
<1>2. /\ LEADING_INDENT \notin Counted(k) /\ LEADING_INDENT \notin k.end /\ LEADING_INDENT \notin k.open
      /\ LEADING_INDENT \notin k.close /\ LEADING_INDENT \notin k.begin
  BY <1>1 DEF GoodKinds, Counted
<1>3. Legal(k, e, LEADING_INDENT)
  BY <1>1, <1>2 DEF Legal, FrameTypes
<1>4. PICK f : Continues(k, h, q, e, AddPending(q, LEADING_INDENT), f) /\ Reads(k, e, LEADING_INDENT, f)
  <2>1. LEADING_INDENT.type # "none" /\ LEADING_INDENT.type # "EXPLICIT_LINE_JOINING"
    BY <1>1
  <2>2. QED
    BY <1>1, <1>3, <2>1, TellMore
<1>5. /\ f.depth = e.depth /\ f.brackets = e.brackets /\ f.strings = 0
      /\ f.phase = "body" /\ f.line = "indented"
  BY <1>1, <1>2, <1>4 DEF Reads
<1>6. AddPending(q, LEADING_INDENT).prev = "INDENT"
  BY <1>1 DEF AddPending
<1>7. QED
  BY <1>4, <1>5, <1>6
=============================================================================
