------------------------------- MODULE Histogram -------------------------------
(***************************************************************************)
(* Histogram (src/src/MetricsRegistry.cpp): observe on the io thread and  *)
(* renderPrometheus on the control server's thread, sharing only atomics. *)
(* Each fetch_add and each load is one step, so the two interleave at     *)
(* every access.  The io thread observes one value at a time; the control *)
(* thread renders one GET /metrics at a time.                              *)
(*                                                                         *)
(* A render is the numbers it prints, in print order: the cumulative      *)
(* buckets b, +Inf inf (count_), _sum psum and _count pcount; the text    *)
(* around them is left out.                                                *)
(***************************************************************************)
EXTENDS Naturals, Sequences

CONSTANTS
  Bounds,     \* the bucket bounds, ascending (latencyHist_ has 7)
  Values,     \* values an observe may be called with
  MaxObs      \* bound on observe calls

ASSUME Bounds \in Seq(Nat) /\ Values \subseteq Nat /\ MaxObs \in Nat

Idx == 1..Len(Bounds)

VARIABLES
  sum, count, bucket,   \* sum_, count_, the buckets' counters
  opc, oval, oidx,      \* io thread: where observe is, its value, the next bucket
  nobs,                 \* observe calls so far
  rpc, ridx, out,       \* control thread: where the render is, the next bucket, what it printed
  shown                 \* the last completed render

hvars == <<sum, count, bucket, opc, oval, oidx, nobs, rpc, ridx, out, shown>>

Render == [b : [Idx -> Nat], inf : Nat, psum : Nat, pcount : Nat]

NoRender == [b |-> [i \in Idx |-> 0], inf |-> 0, psum |-> 0, pcount |-> 0]

TypeOK ==
  /\ sum \in Nat /\ count \in Nat /\ bucket \in [Idx -> Nat]
  /\ opc \in {"idle", "count", "bucket"} /\ oval \in Values \cup {0}
  /\ oidx \in 1..(Len(Bounds) + 1) /\ nobs \in 0..MaxObs
  /\ rpc \in {"idle", "bucket", "inf", "sum", "count"} /\ ridx \in 1..(Len(Bounds) + 1)
  /\ out \in Render /\ shown \in Render

\* The constructor's zeroed atomics; both threads idle.
Init ==
  /\ sum = 0 /\ count = 0 /\ bucket = [i \in Idx |-> 0]
  /\ opc = "idle" /\ oval = 0 /\ oidx = 1 /\ nobs = 0
  /\ rpc = "idle" /\ ridx = 1 /\ out = NoRender /\ shown = NoRender

-----------------------------------------------------------------------------
(* observe(value): sum_ += value; count_ += 1; then each bucket whose     *)
(* bound is at least value, in ascending order.                           *)

ObserveSum(v) ==
  /\ opc = "idle" /\ nobs < MaxObs
  /\ sum' = sum + v
  /\ opc' = "count" /\ oval' = v /\ oidx' = 1 /\ nobs' = nobs + 1
  /\ UNCHANGED <<count, bucket, rpc, ridx, out, shown>>

ObserveCount ==
  /\ opc = "count"
  /\ count' = count + 1
  /\ opc' = IF Len(Bounds) = 0 THEN "idle" ELSE "bucket"
  /\ UNCHANGED <<sum, bucket, oval, oidx, nobs, rpc, ridx, out, shown>>

\* One iteration of the bucket loop.
ObserveBucket ==
  /\ opc = "bucket"
  /\ bucket' = IF oval <= Bounds[oidx] THEN [bucket EXCEPT ![oidx] = @ + 1] ELSE bucket
  /\ oidx' = oidx + 1
  /\ opc' = IF oidx = Len(Bounds) THEN "idle" ELSE "bucket"
  /\ UNCHANGED <<sum, count, oval, nobs, rpc, ridx, out, shown>>

-----------------------------------------------------------------------------
(* renderPrometheus: each bucket's count.load(), then count_ for +Inf,    *)
(* sum_, and count_ again for _count.                                      *)

RenderBegin ==
  /\ rpc = "idle"
  /\ rpc' = IF Len(Bounds) = 0 THEN "inf" ELSE "bucket"
  /\ ridx' = 1 /\ out' = NoRender
  /\ UNCHANGED <<sum, count, bucket, opc, oval, oidx, nobs, shown>>

RenderBucket ==
  /\ rpc = "bucket"
  /\ out' = [out EXCEPT !.b[ridx] = bucket[ridx]]
  /\ ridx' = ridx + 1
  /\ rpc' = IF ridx = Len(Bounds) THEN "inf" ELSE "bucket"
  /\ UNCHANGED <<sum, count, bucket, opc, oval, oidx, nobs, shown>>

\* Mutant: +Inf is printed from the last bucket's counter.
RenderInfFromBucket ==
  /\ rpc = "inf"
  /\ out' = [out EXCEPT !.inf = IF Len(Bounds) = 0 THEN count ELSE bucket[Len(Bounds)]]
  /\ rpc' = "sum"
  /\ UNCHANGED <<sum, count, bucket, opc, oval, oidx, nobs, ridx, shown>>

RenderInf ==
  /\ rpc = "inf"
  /\ out' = [out EXCEPT !.inf = count]
  /\ rpc' = "sum"
  /\ UNCHANGED <<sum, count, bucket, opc, oval, oidx, nobs, ridx, shown>>

RenderSum ==
  /\ rpc = "sum"
  /\ out' = [out EXCEPT !.psum = sum]
  /\ rpc' = "count"
  /\ UNCHANGED <<sum, count, bucket, opc, oval, oidx, nobs, ridx, shown>>

RenderCount ==
  /\ rpc = "count"
  /\ shown' = [out EXCEPT !.pcount = count]
  /\ out' = shown'
  /\ rpc' = "idle"
  /\ UNCHANGED <<sum, count, bucket, opc, oval, oidx, nobs, ridx>>

ObserveStep ==
  \/ \E v \in Values : ObserveSum(v)
  \/ ObserveCount
  \/ ObserveBucket

RenderStep ==
  RenderBegin \/ RenderBucket \/ RenderInf \/ RenderSum \/ RenderCount

Next == ObserveStep \/ RenderStep

Spec == Init /\ [][Next]_hvars

-----------------------------------------------------------------------------
(* Properties.                                                             *)

\* Renders are best-effort snapshots, but every bucket a scrape prints is
\* at most the +Inf it prints after it, and +Inf at most the _count: the
\* order of observe's fetch_adds (count_ before any bucket) and of the
\* render's loads (buckets before count_) keep the cumulative top.
RenderedWithinCount ==
  /\ \A i \in Idx : shown.b[i] <= shown.inf
  /\ shown.inf <= shown.pcount
==============================================================================
