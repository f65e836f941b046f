---------------------------- MODULE TimerService ----------------------------
(***************************************************************************)
(* The keyed one-shot timers the spec describes for Scheduler (spec 4,    *)
(* "Scheduler"): schedule returns a fresh id; cancel(id) returns true     *)
(* exactly when the timer had neither fired nor been cancelled, and then  *)
(* the timer never fires; a timer that is neither cancelled nor fired may *)
(* fire once.                                                              *)
(***************************************************************************)
EXTENDS Naturals, Sequences

CONSTANT Ids   \* the timer ids a run uses

VARIABLES st,    \* [Ids -> {"idle", "pending", "cancelled", "fired"}]
          cres   \* [Ids -> Seq(BOOLEAN)]: what each cancel(id) returned

Init == st = [i \in Ids |-> "idle"] /\ cres = [i \in Ids |-> <<>>]

Schedule(i) ==
  /\ st[i] = "idle"
  /\ st' = [st EXCEPT ![i] = "pending"]
  /\ UNCHANGED cres

Cancel(i) ==
  /\ st[i] # "idle"
  /\ st' = [st EXCEPT ![i] = IF @ = "pending" THEN "cancelled" ELSE @]
  /\ cres' = [cres EXCEPT ![i] = Append(@, st[i] = "pending")]

Fire(i) ==
  /\ st[i] = "pending"
  /\ st' = [st EXCEPT ![i] = "fired"]
  /\ UNCHANGED cres

Next == \E i \in Ids : Schedule(i) \/ Cancel(i) \/ Fire(i)

Spec == Init /\ [][Next]_<<st, cres>>
==============================================================================
