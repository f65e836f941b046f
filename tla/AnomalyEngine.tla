----------------------------- MODULE AnomalyEngine -----------------------------
(***************************************************************************)
(* AnomalyEngine::decide (src/src/AnomalyEngine.cpp), a pure function of  *)
(* the packet's size, the direction's profile and seven hash values, one  *)
(* per decision class k (DeterministicRng::hash of packetSeq*7 + k).      *)
(*                                                                         *)
(* The splitmix64 hash itself is not modelled: a hash is any value of     *)
(* 0..HashRange-1 (2^64 in the code), and the seven of a packet are       *)
(* independent.  What the code derives from a hash is modelled as it is:  *)
(* uniform() keeps the top bits (h >> 40, divided by 2^24: Res = 2^24    *)
(* outcomes), uniformInt(max) is h % max.  A rate r of the profile is     *)
(* kept as the numerator r * Res; since a roll is a multiple of 1/Res,    *)
(* the float comparison roll < rate is the comparison of numerators.     *)
(***************************************************************************)
EXTENDS Integers, Sequences, Bitwise

CONSTANTS
  Res,        \* outcomes of uniform(): roll = top / Res
  HashRange,  \* values a hash can take
  KnobMax     \* latency, jitter and throttle values checked: 0..KnobMax

ASSUME Res \in Nat \ {0} /\ HashRange \in Nat /\ Res <= HashRange /\ KnobMax \in Nat

Hashes == 0..(HashRange - 1)

\* The seven hash values of a packet, by decision class k.
Rolls == [1..7 -> Hashes]

\* DirectionalProfile, rates as numerators over Res; reorderRate is never read.
Profile == [latency : Nat, jitter : Nat, throttle : Nat,
            drop : 0..Res, halfClose : 0..Res, stall : 0..Res, corrupt : 0..Res]

\* AnomalyDecision, default-constructed.
Forward == [action |-> "Forward", delayMs |-> 0, throttle |-> 0, offset |-> 0, mask |-> 0]

\* DeterministicRng::uniform: the top bits of the hash, as a numerator over Res.
Uniform(h) == (h * Res) \div HashRange

\* DeterministicRng::uniformInt(max).
UniformInt(h, max) == IF max = 0 THEN 0 ELSE h % max

\* std::max(0, x).
NonNeg(v) == IF v > 0 THEN v ELSE 0

\* A fault check: a rate of 0 is not rolled; else the roll of class k hits
\* below the rate.
Hit(h, k, rate) == rate > 0 /\ Uniform(h[k]) < rate

\* Step 4: a corrupt roll hit on non-empty data sets Corrupt, an offset
\* below the size and a mask below 256.
CorruptStep(p, size, h) ==
  IF p.corrupt > 0 /\ size > 0 /\ Uniform(h[4]) < p.corrupt
  THEN [Forward EXCEPT !.action = "Corrupt", !.offset = UniformInt(h[5], size),
                       !.mask = UniformInt(h[6], 256)]
  ELSE Forward

\* Mutant: the jitter roll is taken modulo 2 * jitterMs, one offset short.
BaseLatencyShort(p, h) ==
  IF p.jitter > 0 THEN NonNeg(p.latency + UniformInt(h[7], p.jitter * 2) - p.jitter)
  ELSE p.latency

\* Step 5's baseLatency: latency plus a jitter in -jitterMs..jitterMs,
\* never below 0.
BaseLatency(p, h) ==
  IF p.jitter > 0 THEN NonNeg(p.latency + UniformInt(h[7], p.jitter * 2 + 1) - p.jitter)
  ELSE p.latency

\* An action that is still Forward is promoted to a.
Promote(dec, a) == IF dec.action = "Forward" THEN a ELSE dec.action

\* decide: drop, half-close and stall return at the first hit; corrupt,
\* delay and throttle compose, each promoting only a Forward.
Decide(p, size, h) ==
  LET c == CorruptStep(p, size, h)
      b == BaseLatency(p, h)
      dl == IF (p.latency > 0 \/ p.jitter > 0) /\ b > 0
            THEN [c EXCEPT !.action = Promote(c, "Delay"), !.delayMs = b]
            ELSE c
  IN  IF Hit(h, 1, p.drop) THEN [Forward EXCEPT !.action = "Drop"]
      ELSE IF Hit(h, 2, p.halfClose) THEN [Forward EXCEPT !.action = "HalfClose"]
      ELSE IF Hit(h, 3, p.stall) THEN [Forward EXCEPT !.action = "Stall"]
      ELSE IF p.throttle > 0
           THEN [dl EXCEPT !.action = Promote(dl, "Throttle"),
                           !.throttle = (p.throttle * 1024) \div 8]
           ELSE dl

\* applyCorruption(data, offset, mask): XOR the byte at offset with mask,
\* if offset is inside the data.
ApplyCorruption(data, offset, mask) ==
  IF offset < Len(data) THEN [data EXCEPT ![offset + 1] = @ ^^ mask] ELSE data

\* processClientData / processServerData: the payload handed on after the
\* decision's switch; only Corrupt changes it, in place.
Corrupted(data, dec) ==
  IF dec.action = "Corrupt" THEN ApplyCorruption(data, dec.offset, dec.mask) ELSE data

-----------------------------------------------------------------------------
(* The reference: spec section 4.2's evaluation order, read as a table.   *)
(* Every fault is rolled as "uniform(k) < rate", with no shortcut for a  *)
(* rate of 0, and the decision's fields are given one by one.            *)

SpecDecide(p, size, h) ==
  LET roll(k) == Uniform(h[k])
      terminal == <<roll(1) < p.drop, roll(2) < p.halfClose, roll(3) < p.stall>>
      names == <<"Drop", "HalfClose", "Stall">>
      first == {i \in 1..3 : terminal[i] /\ \A j \in 1..(i - 1) : ~terminal[j]}
      corrupt == roll(4) < p.corrupt /\ size > 0
      effective == NonNeg(p.latency + (UniformInt(h[7], 2 * p.jitter + 1) - p.jitter))
      delay == IF (p.latency > 0 \/ p.jitter > 0) /\ effective > 0 THEN effective ELSE 0
  IN  IF first # {} THEN [Forward EXCEPT !.action = names[CHOOSE i \in first : TRUE]]
      ELSE [action |-> CASE corrupt -> "Corrupt"
                         [] ~corrupt /\ delay > 0 -> "Delay"
                         [] ~corrupt /\ delay = 0 /\ p.throttle > 0 -> "Throttle"
                         [] OTHER -> "Forward",
            delayMs |-> delay,
            throttle |-> IF p.throttle > 0 THEN (p.throttle * 1024) \div 8 ELSE 0,
            offset |-> IF corrupt THEN UniformInt(h[5], size) ELSE 0,
            mask |-> IF corrupt THEN UniformInt(h[6], 256) ELSE 0]

\* The payload the spec's pipeline hands on: "corrupt-then-continue" XORs
\* the byte at uniformInt(k=5, |data|) with uniformInt(k=6, 256) when no
\* fault returned first and the corrupt roll hit on non-empty data.
SpecPayload(data, p, h) ==
  LET terminal == \E k \in 1..3 : Uniform(h[k]) < <<p.drop, p.halfClose, p.stall>>[k]
      hit == ~terminal /\ Uniform(h[4]) < p.corrupt /\ Len(data) > 0
  IN  [i \in 1..Len(data) |->
         IF hit /\ i = UniformInt(h[5], Len(data)) + 1
         THEN data[i] ^^ UniformInt(h[6], 256) ELSE data[i]]

\* Payloads of up to two bytes, each 0 or 1.
Payloads == UNION {[1..n -> {0, 1}] : n \in 0..2}

\* The profiles the reference is checked on: every knob 0..KnobMax, every
\* rate 0, strictly between 0 and 1, or 1.
CheckedProfiles ==
  [latency : 0..KnobMax, jitter : 0..KnobMax, throttle : 0..KnobMax,
   drop : {0, 1, Res}, halfClose : {0, 1, Res}, stall : {0, 1, Res}, corrupt : {0, 1, Res}]

\* The profiles the payload is checked on: a drop rate and a corrupt rate
\* that miss or hit, with and without a throttle.
CorruptProfiles ==
  [latency : {0}, jitter : {0}, throttle : {0, 1},
   drop : {0, 1}, halfClose : {0}, stall : {0}, corrupt : {0, 1, Res}]

-----------------------------------------------------------------------------
(* Properties.                                                             *)

\* decide agrees with the spec's evaluation order on every checked
\* profile, empty or non-empty data, and every combination of the seven
\* rolls: first-match among drop / half-close / stall, corrupt composing
\* with delay and throttle, the jitter range -jitterMs..jitterMs clamped
\* at 0, and the rate-0 shortcuts changing nothing.  And the payload
\* processData hands on after applyCorruption is the spec's: one byte,
\* inside the data, XORed with the mask, only on a Corrupt decision.
DecideMatchesSpec ==
  /\ \A p \in CheckedProfiles, size \in {0, 2}, h \in Rolls :
       Decide(p, size, h) = SpecDecide(p, size, h)
  /\ \A p \in CorruptProfiles, data \in Payloads, h \in Rolls :
       Corrupted(data, Decide(p, Len(data), h)) = SpecPayload(data, p, h)
==============================================================================
