------------------------------ MODULE DelayQueue ------------------------------
(***************************************************************************)
(* DelayQueue (src/src/DelayQueue.cpp): a std::priority_queue of delayed  *)
(* packets ordered by releaseTime (std::greater, so the top is the        *)
(* soonest release), and totalBytes_, the byte count it keeps beside it.  *)
(*                                                                         *)
(* A queue is a value [pkts, total]; the Session (Session.tla) owns one   *)
(* per direction and applies these operators inside its handlers.  A      *)
(* packet is a record with at least len (payload.size()) and rel (its     *)
(* releaseTime, relative to now).  The heap's order among packets whose   *)
(* release times the model does not tell apart is left open: an operation *)
(* that pops is given one order o of the packets by release time, and     *)
(* pops from its front.                                                   *)
(***************************************************************************)
EXTENDS Integers, Sequences, SequencesExt, FiniteSetsExt

CONSTANT MaxBytes   \* DelayQueue::MAX_BYTES (2 MiB), in the Session's units

\* The members' initial values: an empty heap and totalBytes_ = 0.
NewQueue == [pkts |-> {}, total |-> 0]

\* The orders in which successive pops of the heap can return a set of
\* packets: by release time, ties in any order.
HeapOrders(S) ==
  {o \in SetToSeqs(S) : \A i, j \in DOMAIN o : i < j => o[i].rel <= o[j].rel}

\* Mutant: dropOldest pops the top but leaves totalBytes_ as it was.
DropOldestKeepBytes(q, p) ==
  [pkts |-> q.pkts \ {p}, total |-> q.total]

\* dropOldest: pop the top (the soonest release) and subtract its bytes.
DropOldest(q, p) ==
  [pkts |-> q.pkts \ {p}, total |-> q.total - p.len]

\* push's loop: while totalBytes_ + size > MAX_BYTES and the heap is not
\* empty, dropOldest; o is the heap's pop order.
RECURSIVE MakeRoom(_, _, _)
MakeRoom(q, n, o) ==
  IF q.total + n <= MaxBytes \/ q.pkts = {} THEN q
  ELSE MakeRoom(DropOldest(q, Head(o)), n, Tail(o))

\* push(p): make room, then refuse a payload larger than MAX_BYTES (the
\* drops already done stay done), else add its bytes and push it.
Push(q, p, o) ==
  LET r == MakeRoom(q, p.len, o)
  IN  IF p.len > MaxBytes THEN r
      ELSE [pkts |-> r.pkts \cup {p}, total |-> r.total + p.len]

\* nextReleaseTime: the top's release time (the queue is not empty).
NextReleaseTime(q) == Min({p.rel : p \in q.pkts})

\* The orders in which a loop of popReady(now) returns the packets due.
ReadyOrders(q) == HeapOrders({p \in q.pkts : p.rel <= 0})

\* popReady(now), once for each packet of o: pop it, subtract its bytes.
PopReady(q, o) ==
  [pkts |-> q.pkts \ ToSet(o),
   total |-> q.total - FoldSeq(LAMBDA p, acc : p.len + acc, 0, o)]

\* Time passes: every release time comes one unit closer.
Aged(q) == [q EXCEPT !.pkts = {[p EXCEPT !.rel = @ - 1] : p \in @}]

\* The bytes of the payloads the heap holds.
HeldBytes(q) == MapThenSumSet(LAMBDA p : p.len, q.pkts)
==============================================================================
