---------------------------- MODULE StringBuffer ----------------------------
(***************************************************************************)
(* The string buffer (src/utils/string-buffer.c), in which the plugin      *)
(* thread builds the WebSocket messages it sends and cuts the fields of    *)
(* those it receives.                                                      *)
(*                                                                         *)
(* A text is a sequence of tokens and Size gives its number of characters. *)
(* A buffer goes back to a pool between two uses and keeps its memory; the *)
(* allocator may refuse to grow it.  What lies behind the end of a memory  *)
(* block is not known: a buffer that was written past its capacity is      *)
(* marked, and no more is said of it.                                      *)
(***************************************************************************)
EXTENDS Naturals, Sequences

CONSTANTS
  Texts,            \* the texts of the messages
  Size,             \* how many characters each has
  InitialCapacity, MaxCapacity

Tokens == UNION {{text[k] : k \in DOMAIN text} : text \in Texts}

ASSUME StringBufferAssumption ==
  /\ Texts \subseteq Seq(Tokens)
  /\ Size \in [Texts -> Nat]
  /\ \A text \in Texts : Size[text] = 0 => text = <<>>
  /\ InitialCapacity \in Nat \ {0}
  /\ MaxCapacity \in Nat
  /\ InitialCapacity <= MaxCapacity

Buffers ==
  [ position : Nat,
    capacity : InitialCapacity .. MaxCapacity,
    data : Seq(Tokens),     \* data[0 .. position - 1]
    overrun : BOOLEAN ]     \* it was written past its capacity

\* pomelo_string_buffer_on_alloc
OnAlloc == [position |-> 0, capacity |-> InitialCapacity, data |-> <<>>,
            overrun |-> FALSE]

\* Mutant: what the last use wrote stays in front.
OnInitKeepsPosition(b) == b

\* pomelo_string_buffer_init, when a buffer is taken from the pool.
OnInit(b) == [b EXCEPT !.position = 0, !.data = <<>>]

\* The capacity is doubled once, whatever is asked for.
Grown(b) == IF 2 * b.capacity > MaxCapacity THEN MaxCapacity ELSE 2 * b.capacity

\* The result of pomelo_string_buffer_ensure_capacity, when the allocator grants
\* memory or not.
Ensures(b, capacity, granted) ==
  capacity < b.capacity \/ (capacity < MaxCapacity /\ granted)

\* Mutant: what the buffer already holds is not counted.
AppendBinSizeOnly(b, text, size, granted) ==
  LET capacity == IF size < b.capacity THEN b.capacity ELSE Grown(b)
  IN IF size = 0 \/ ~Ensures(b, size, granted) THEN b
     ELSE [position |-> b.position + size, capacity |-> capacity,
           data |-> b.data \o text,
           overrun |-> b.overrun \/ b.position + size > capacity]

\* pomelo_string_buffer_append_bin of size characters.  What cannot be appended
\* is left out.
AppendBin(b, text, size, granted) ==
  LET need     == b.position + size
      capacity == IF need < b.capacity THEN b.capacity ELSE Grown(b)
  IN IF size = 0 \/ ~Ensures(b, need, granted) THEN b
     ELSE [position |-> need, capacity |-> capacity, data |-> b.data \o text,
           overrun |-> b.overrun \/ need > capacity]

\* pomelo_string_buffer_append_str and, of the printed number, append_u64 and
\* append_i64.
AppendStr(b, text, granted) == AppendBin(b, text, Size[text], granted)

\* pomelo_string_buffer_append_chr
AppendChr(b, chr, granted) == AppendBin(b, chr, 1, granted)

\* What pomelo_string_buffer_to_string leaves: it appends a NUL, which is no
\* token.
Terminated(b, granted) == AppendChr(b, <<>>, granted)

\* Whether to_string gives a string.  A caller that does not look has NULL when
\* it does not.
ToStringGives(b, granted) == Ensures(b, b.position + 1, granted)

\* pomelo_string_buffer_to_binary
ToBinary(b) == b.data
=============================================================================
