----------------------------- MODULE StringBuf -----------------------------
(***************************************************************************)
(* The string buffers of daemon/misc.c: how much is allocated and how much *)
(* of it is free.  The text itself is of no account; what it takes is      *)
(* allocated - free, and the terminating NUL takes one of the free places. *)
(***************************************************************************)
EXTENDS Integers

CONSTANT BUF_CHUNK

ASSUME StringBufAssumption == BUF_CHUNK \in Nat \ {0}

StringBuf == [allocated : Nat, free : Int]

newStringBuf == [allocated |-> BUF_CHUNK, free |-> BUF_CHUNK]

\* strlen of what getStringBuf returns; also where the tail points.
strlen(sb) == sb.allocated - sb.free

\* The turns the while loop takes before text of length l, a newline if nl is
\* 1, and the NUL fit.
MutantChunks(sb, l, nl) ==   \* the NUL is forgotten
  IF l + nl > sb.free THEN (l + nl - sb.free + BUF_CHUNK - 1) \div BUF_CHUNK ELSE 0

Chunks(sb, l, nl) ==
  IF l + nl + 1 > sb.free THEN (l + nl + 1 - sb.free + BUF_CHUNK - 1) \div BUF_CHUNK ELSE 0

appendStringBufAux(sb, l, nl) ==
  [allocated |-> sb.allocated + BUF_CHUNK * Chunks(sb, l, nl),
   free      |-> sb.free + BUF_CHUNK * Chunks(sb, l, nl) - l - nl]

appendStringBuf(sb, l) == appendStringBufAux(sb, l, 0)
appendLineStringBuf(sb, l) == appendStringBufAux(sb, l, 1)

\* Nothing was written beyond the end, and the NUL is there.
Sound(sb) == sb.free >= 1 /\ sb.free <= sb.allocated
=============================================================================
