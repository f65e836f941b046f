----------------------------- MODULE BoundedFifo -----------------------------
(***************************************************************************)
(* What Buffer (src/include/shakyline/Buffer.hpp) promises its callers: a *)
(* FIFO of at most Cap bytes.  Append accepts as much of a chunk as fits  *)
(* and reports how much; consume removes bytes from the front.  Bytes are *)
(* named by their position in the stream of accepted bytes (1, 2, ...).   *)
(***************************************************************************)
EXTENDS Naturals, Sequences, FiniteSetsExt

CONSTANTS Cap, Chunks   \* capacity; the chunk lengths callers append

VARIABLES q,        \* the readable bytes, front first
          accepted  \* how many bytes were ever accepted

Init == q = <<>> /\ accepted = 0

\* A chunk of k bytes: the first min(k, free space) are accepted.
Put(k) ==
  LET n == Min({k, Cap - Len(q)})
  IN  /\ q' = q \o [i \in 1..n |-> accepted + i]
      /\ accepted' = accepted + n

\* Consume n bytes from the front (no more than are readable).
Take(n) ==
  /\ q' = SubSeq(q, Min({n, Len(q)}) + 1, Len(q))
  /\ UNCHANGED accepted

Next == \E k \in Chunks : Put(k) \/ \E n \in 1..Cap : Take(n)

Spec == Init /\ [][Next]_<<q, accepted>>
==============================================================================
