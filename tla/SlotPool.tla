------------------------------ MODULE SlotPool ------------------------------
(***************************************************************************)
(* What the capacity manager promises one organization: a pool of          *)
(* RunningCapacity slots.  A run asks once.  It is turned away, takes a    *)
(* free slot, or waits; a waiting run takes a slot when one is free or is  *)
(* withdrawn; a slot that was given back is never held by that run again.  *)
(***************************************************************************)
EXTENDS Integers, FiniteSets

CONSTANTS Run, RunningCapacity

VARIABLES
  fresh,      \* runs that have not entered the pool
  waiting,    \* runs waiting for a slot
  holding     \* runs that hold a slot

vars == <<fresh, waiting, holding>>

Init ==
  /\ fresh = Run
  /\ waiting = {}
  /\ holding = {}

SlotFree == Cardinality(holding) < RunningCapacity

TurnAway(r) ==
  /\ r \in fresh
  /\ fresh' = fresh \ {r}
  /\ UNCHANGED <<waiting, holding>>

Admit(r) ==
  /\ r \in fresh
  /\ SlotFree
  /\ fresh' = fresh \ {r}
  /\ holding' = holding \cup {r}
  /\ UNCHANGED waiting

Wait(r) ==
  /\ r \in fresh
  /\ fresh' = fresh \ {r}
  /\ waiting' = waiting \cup {r}
  /\ UNCHANGED holding

Promote(r) ==
  /\ r \in waiting
  /\ SlotFree
  /\ waiting' = waiting \ {r}
  /\ holding' = holding \cup {r}
  /\ UNCHANGED fresh

Withdraw(r) ==
  /\ r \in waiting
  /\ waiting' = waiting \ {r}
  /\ UNCHANGED <<fresh, holding>>

GiveBack(r) ==
  /\ r \in holding
  /\ holding' = holding \ {r}
  /\ UNCHANGED <<fresh, waiting>>

Next ==
  \E r \in Run :
    \/ TurnAway(r)
    \/ Admit(r)
    \/ Wait(r)
    \/ Promote(r)
    \/ Withdraw(r)
    \/ GiveBack(r)

Spec == Init /\ [][Next]_vars
=============================================================================
