------------------------------ MODULE TokenRing ------------------------------
(***************************************************************************)
(* The circular buffer in which PythonLexerBase of the python/python        *)
(* grammar keeps the tokens it owes the parser.  first_tokens_ind and       *)
(* last_tokens_ind are the first and the last occupied slot, and the same   *)
(* slot when the buffer is empty: only the None in it tells.  A full buffer *)
(* doubles, and the tokens from the first one on move to the new end.       *)
(***************************************************************************)
EXTENDS Integers, Sequences

CONSTANT None   \* what an empty slot holds

NewRing(n) == [size |-> n, slots |-> [i \in 0..(n - 1) |-> None], first |-> 0, last |-> 0]

(* inc_token_ind                                                            *)
Inc(r, i) == (i + 1) % r.size

IsEmpty(r) == r.slots[r.first] = None

(* The buffer of twice the size: the slots before the first token stay      *)
(* where they are, the others move up by the old size.                      *)
Enlarged_InPlace(r) ==
    [r EXCEPT !.size = 2 * @,
              !.slots = [i \in 0..(2 * r.size - 1) |-> IF i < r.size THEN r.slots[i] ELSE None]]

Enlarged(r) ==
    [size  |-> 2 * r.size,
     slots |-> [i \in 0..(2 * r.size - 1) |->
                  IF i < r.first THEN r.slots[i]
                  ELSE IF i >= r.size + r.first THEN r.slots[i - r.size]
                  ELSE None],
     first |-> r.size + r.first,
     last  |-> r.last]

(* Where emitToken puts the next token: the free slot of an empty buffer,   *)
(* or the slot after the last one, once there is room.                      *)
MadeRoom(r) ==
    LET moved == [r EXCEPT !.last = Inc(r, r.last)]
    IN  IF IsEmpty(r) THEN r
        ELSE IF moved.last = r.first THEN Enlarged(moved) ELSE moved

Emit(r, t) == LET room == MadeRoom(r) IN [room EXCEPT !.slots[room.last] = t]

(* The end of nextToken: the first slot is freed, and the one after it is   *)
(* the first if it holds a token.                                           *)
Take(r) ==
    [r EXCEPT !.slots[r.first] = None,
              !.first = IF @ # r.last THEN Inc(r, @) ELSE @]

First(r) == r.slots[r.first]

---------------------------------------------------------------------------
(* What the buffer stands for.                                              *)

(* The slot k places after slot i.                                          *)
SlotAt(r, i, k) == IF i + k < r.size THEN i + k ELSE i + k - r.size

Distance(r) == IF r.first <= r.last THEN r.last - r.first ELSE r.size - r.first + r.last

Count(r) == IF IsEmpty(r) THEN 0 ELSE Distance(r) + 1

Contents(r) == [k \in 1..Count(r) |-> r.slots[SlotAt(r, r.first, k - 1)]]

(* Occupied slots are those of the contents and no other; an empty buffer   *)
(* has its two indices on the same slot.                                    *)
SoundRing(r, Token) ==
    /\ r.size \in Nat \ {0}
    /\ r.first \in 0..(r.size - 1) /\ r.last \in 0..(r.size - 1)
    /\ r = [size |-> r.size, slots |-> r.slots, first |-> r.first, last |-> r.last]
    /\ r.slots \in [0..(r.size - 1) -> Token \union {None}]
    /\ IsEmpty(r) => r.first = r.last /\ \A i \in 0..(r.size - 1) : r.slots[i] = None
    /\ \A k \in 0..(r.size - 1) :
          (r.slots[SlotAt(r, r.first, k)] # None) <=> (k < Count(r))
=============================================================================
