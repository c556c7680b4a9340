-------------------------------- MODULE Spsc --------------------------------
(***************************************************************************)
(* examples/c/uart-hsm/spsc_queue.h: a ring of bytes between one producer  *)
(* and one consumer that share nothing but head, tail and the buffer.      *)
(* spsc_queue_push and spsc_queue_pop take a step for every access to what *)
(* is shared: the indices are loaded, the bytes copied one by one, the own *)
(* index stored.  head and tail run through all of uint32_t, here 0 ..     *)
(* Mod - 1, and are masked only to find a place in the buffer.             *)
(*                                                                         *)
(* BARRIER says that a build keeps the copy and the store of the index in  *)
(* order, as SPSC_QUEUE_DMB () between them is to do.  As the header       *)
(* defines that macro it is empty, and the plain bytes may be copied after *)
(* the volatile index is stored.                                           *)
(***************************************************************************)
EXTENDS Naturals, Sequences

CONSTANTS
  Size,       \* q->size, a power of two
  Mod,        \* 2^32, a multiple of Size
  BARRIER     \* whether the build orders the copy and the index: a boolean

VARIABLES
  head,       \* q->head, stored by the consumer
  tail,       \* q->tail, stored by the producer
  buffer,     \* q->buffer
  push,       \* the producer's call: what it copies, its own tail, how far it is
  pop,        \* the consumer's call: what it has copied, its own head, how many
  pushed,     \* ghost: the bytes that were accepted, in order
  popped      \* ghost: how many of them the consumer has released

spsc_vars == <<head, tail, buffer, push, pop, pushed, popped>>

Places == 0 .. Size - 1

\* spsc_queue_data_len: unsigned subtraction wraps around
Used(t, h) == (t + Mod - h) % Mod
Place(i) == i % Size

spsc_queue_min(a, b) == IF b < a THEN b ELSE a

NotPushing == [on |-> FALSE, data |-> <<>>, at |-> 0, n |-> 0, stored |-> FALSE]
NotPopping == [on |-> FALSE, data |-> <<>>, at |-> 0, len |-> 0, stored |-> FALSE]

\* spsc_queue_create
SpscCreate ==
  /\ head = 0
  /\ tail = 0
  /\ buffer = [i \in Places |-> 0]
  /\ push = NotPushing
  /\ pop = NotPopping
  /\ pushed = <<>>
  /\ popped = 0

-----------------------------------------------------------------------------

RoomFor(len) == Size - Used(tail, head) >= len

\* The call finds room, or returns SPSC_QUEUE_FAIL.
PushStarts(data) ==
  /\ ~push.on
  /\ RoomFor(Len(data))
  /\ push' = [on |-> TRUE, data |-> data, at |-> tail, n |-> 0, stored |-> FALSE]
  /\ pushed' = pushed \o data
  /\ UNCHANGED <<head, tail, buffer, pop, popped>>

PushFails(data) ==
  /\ ~push.on
  /\ ~RoomFor(Len(data))
  /\ UNCHANGED spsc_vars

\* The two memcpy calls, one before and one after the end of the buffer.
PushCopies ==
  /\ push.on /\ push.n < Len(push.data)
  /\ buffer' = [buffer EXCEPT ![Place(push.at + push.n)] = push.data[push.n + 1]]
  /\ push' = [push EXCEPT !.n = @ + 1]
  /\ UNCHANGED <<head, tail, pop, pushed, popped>>

\* Bug: the index is stored before the last byte is copied.
StoreTooEarly(done, all) == done + 1 >= all

\* When the barrier lets the index be stored
MayStore(done, all) == BARRIER => done = all

PushStores ==
  /\ push.on /\ ~push.stored
  /\ MayStore(push.n, Len(push.data))
  /\ tail' = (push.at + Len(push.data)) % Mod
  /\ push' = [push EXCEPT !.stored = TRUE]
  /\ UNCHANGED <<head, buffer, pop, pushed, popped>>

PushReturns ==
  /\ push.stored /\ push.n = Len(push.data)
  /\ push' = NotPushing
  /\ UNCHANGED <<head, tail, buffer, pop, pushed, popped>>

\* The call loads tail and takes what there is, at most len bytes.
PopStarts(len) ==
  /\ ~pop.on
  /\ Used(tail, head) > 0
  /\ pop' = [on |-> TRUE, data |-> <<>>, at |-> head,
             len |-> spsc_queue_min(len, Used(tail, head)), stored |-> FALSE]
  /\ UNCHANGED <<head, tail, buffer, push, pushed, popped>>

PopCopies ==
  /\ pop.on /\ Len(pop.data) < pop.len
  /\ pop' = [pop EXCEPT !.data = Append(@, buffer[Place(pop.at + Len(@))])]
  /\ UNCHANGED <<head, tail, buffer, push, pushed, popped>>

PopStores ==
  /\ pop.on /\ ~pop.stored
  /\ MayStore(Len(pop.data), pop.len)
  /\ head' = (pop.at + pop.len) % Mod
  /\ pop' = [pop EXCEPT !.stored = TRUE]
  /\ popped' = popped + pop.len
  /\ UNCHANGED <<tail, buffer, push, pushed>>

\* What the call returns to its caller is pop.data.
PopReturns ==
  /\ pop.stored /\ Len(pop.data) = pop.len
  /\ pop' = NotPopping
  /\ UNCHANGED <<head, tail, buffer, push, pushed, popped>>

\* One producer and one consumer, in any order
Bytes == 0 .. 255
SpscNext ==
  \/ \E data \in Seq(Bytes) \ {<<>>} : PushStarts(data) \/ PushFails(data)
  \/ PushCopies \/ PushStores \/ PushReturns
  \/ \E len \in Nat \ {0} : PopStarts(len)
  \/ PopCopies \/ PopStores \/ PopReturns

SpscSpec == SpscCreate /\ [][SpscNext]_spsc_vars

-----------------------------------------------------------------------------
\* The places a call has yet to write or to read
ToWrite == {Place(push.at + i) : i \in push.n .. Len(push.data) - 1}
ToRead == {Place(pop.at + i) : i \in Len(pop.data) .. pop.len - 1}

(***************************************************************************)
(* If BARRIER: the producer never writes a byte the consumer has still to  *)
(* read, and the consumer reads none that is not written, though each      *)
(* works with an index of the other that may be out of date.               *)
(***************************************************************************)
NoRace == ToWrite \cap ToRead = {}

(***************************************************************************)
(* If BARRIER: the consumer gets the bytes that were accepted, in order,   *)
(* each once, across the end of the buffer and the wrap-around of the      *)
(* indices.                                                                *)
(***************************************************************************)
InOrder ==
  pop.data = SubSeq(pushed, popped + 1 - (IF pop.stored THEN pop.len ELSE 0),
                    popped + Len(pop.data) - (IF pop.stored THEN pop.len ELSE 0))

Unstored == IF push.on /\ ~push.stored THEN Len(push.data) ELSE 0

(***************************************************************************)
(* In every build: what data_len counts is exactly what was accepted and   *)
(* stored, and not yet released.                                           *)
(***************************************************************************)
CountedRight == Used(tail, head) = Len(pushed) - Unstored - popped

=============================================================================
