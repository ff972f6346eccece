------------------------------ MODULE SlotPool ------------------------------
(* What the global runner semaphore promises its users (the orchestrator and  *)
(* its per-repository scalers): a pool of `size' slots held by clients.  A    *)
(* slot is granted only when one is free, is given back at most once per      *)
(* grant, and the size may change at any time; a smaller size never revokes a *)
(* slot, it only stops new grants.  The semaphore itself (module Semaphore)   *)
(* and the scalers' use of it (module Scaler) are checked to implement this.  *)
EXTENDS Integers, FiniteSets

CONSTANTS Client, \* whoever may hold a slot
          Size    \* the sizes the pool may be given

VARIABLES size, holders

poolVars == <<size, holders>>

PoolInit ==
    /\ size \in Size
    /\ holders = {}

Grant(c) ==
    /\ c \notin holders
    /\ Cardinality(holders) < size
    /\ holders' = holders \union {c}
    /\ UNCHANGED size

GiveBack(c) ==
    /\ c \in holders
    /\ holders' = holders \ {c}
    /\ UNCHANGED size

SetSize(n) ==
    /\ size' = n
    /\ UNCHANGED holders

PoolNext ==
    \/ \E c \in Client : Grant(c) \/ GiveBack(c)
    \/ \E n \in Size : SetSize(n)

PoolSpec == PoolInit /\ [][PoolNext]_poolVars
=============================================================================
