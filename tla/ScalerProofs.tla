---------------------------- MODULE ScalerProofs ----------------------------
(* Proofs about module Scaler, for every set of repositories and of names.    *)
EXTENDS Scaler, FiniteSetTheorems, TLAPS

USE DEF semVars, mapVars, runnerVars, callVars, listenerVars, vars

(* The inductive invariant.  Slot accounting needs to know that a slot is     *)
(* granted only to a runner that has none, which is ListenerOwnsTarget (it is *)
(* "issued") with NoLeakedSlot; those need MapsAgree, since what is in the    *)
(* maps is what the next callback will act upon.                              *)
Inv ==
    /\ TypeOK
    /\ SlotAccounting
    /\ NoLeakedSlot
    /\ MapsAgree
    /\ ListenerOwnsTarget
    /\ NoUnstoppableProcess

(* Any set of names is finite, with a natural number of members: the length   *)
(* of a runner map, and the count of the semaphore.                           *)
LEMMA FiniteNames ==
    ASSUME NEW S, S \subseteq Name
    PROVE  IsFiniteSet(S) /\ Cardinality(S) \in Nat
BY ScalerAssumption, FS_Subset, FS_CardinalityType

(* releaseOnce: giving a slot back keeps the count equal to the slots out.    *)
LEMMA ReleaseCounts ==
    ASSUME TypeOK, SlotAccounting, NEW n \in Name, ReleaseOnce(n)
    PROVE  /\ max' \in Size
           /\ current' \in Nat
           /\ holds' \subseteq Name
           /\ SlotAccounting'
<1>1. IsFiniteSet(holds) /\ Cardinality(holds) \in Nat
  BY FiniteNames DEF TypeOK
<1>2. CASE n \in holds
  <2>1. Cardinality(holds \ {n}) = Cardinality(holds) - 1
    BY <1>1, <1>2, FS_RemoveElement
  <2>2. Cardinality(holds \ {n}) \in Nat
    BY FiniteNames DEF TypeOK
  <2> QED
    BY <1>2, <2>1, <2>2 DEF ReleaseOnce, TypeOK, SlotAccounting
<1>3. CASE n \notin holds
  <2>1. holds \ {n} = holds
    BY <1>3
  <2> QED
    BY <1>3, <2>1 DEF ReleaseOnce, TypeOK, SlotAccounting
<1> QED
  BY <1>2, <1>3

(* A grant to a runner without a slot counts one more.                        *)
LEMMA AcquireCounts ==
    ASSUME TypeOK, SlotAccounting, NEW n \in Name, n \notin holds,
           current' = current + 1, holds' = holds \union {n}
    PROVE  current' \in Nat /\ SlotAccounting'
<1>1. IsFiniteSet(holds)
  BY FiniteNames DEF TypeOK
<1>2. Cardinality(holds \union {n}) = Cardinality(holds) + 1
  BY <1>1, FS_AddElement
<1> QED
  BY <1>2 DEF TypeOK, SlotAccounting

THEOREM InvInit == Init => Inv
<1> SUFFICES ASSUME Init PROVE Inv
  OBVIOUS
<1>1. Cardinality({}) = 0
  BY FS_EmptySet
<1>2. TypeOK
  <2>1. "unused" \in Phases /\ "idle" \in Places
    BY DEF Phases, Places
  <2>2. /\ phase \in [Name -> Phases] /\ pc \in [Repo -> Places]
        /\ target \in [Repo -> Name \union {NoName}]
        /\ grabbed \in [Repo -> SUBSET {"cancel", "release"}]
    BY <2>1 DEF Init
  <2>3. /\ desired \in [Repo -> Nat] /\ existing \in [Repo -> Nat]
        /\ available \in [Repo -> Int] /\ created \in [Repo -> Nat]
    BY DEF Init
  <2> QED
    BY <2>2, <2>3 DEF Init, TypeOK
<1> QED
  BY <1>1, <1>2 DEF Init, Inv, SlotAccounting, NoLeakedSlot, MapsAgree,
     ListenerOwnsTarget, NoUnstoppableProcess, Processes, InCompleted
-----------------------------------------------------------------------------
(* Type correctness and slot accounting are preserved by every action.        *)
LEMMA StepTypeAndCount ==
    Inv /\ [Next]_vars => TypeOK' /\ SlotAccounting'
<1> SUFFICES ASSUME Inv, [Next]_vars PROVE TypeOK' /\ SlotAccounting'
  OBVIOUS
<1> USE ScalerAssumption
<1> USE DEF Inv, Goto, EndCall
<1>0. SUFFICES ASSUME Next PROVE TypeOK' /\ SlotAccounting'
  BY DEF TypeOK, SlotAccounting
<1>1. ASSUME NEW r \in Repo, NEW count \in Count, DesiredBegin(r, count)
      PROVE  TypeOK' /\ SlotAccounting'
  <2>1. Cardinality(Tracked(r)) \in Nat
    BY FiniteNames DEF Tracked, TypeOK
  <2> QED
    BY <1>1, <2>1 DEF DesiredBegin, TypeOK, SlotAccounting, Places, InDesired
<1>2. ASSUME NEW r \in Repo, DesiredSample(r)
      PROVE  TypeOK' /\ SlotAccounting'
  BY <1>2 DEF DesiredSample, TypeOK, SlotAccounting, Places, InDesired
<1>3. ASSUME NEW r \in Repo, DesiredReturn(r)
      PROVE  TypeOK' /\ SlotAccounting'
  BY <1>3 DEF DesiredReturn, TypeOK, SlotAccounting, Places
<1>4. ASSUME NEW r \in Repo, NEW n \in Name, GenerateJit(r, n)
      PROVE  TypeOK' /\ SlotAccounting'
  BY <1>4 DEF GenerateJit, TypeOK, SlotAccounting, Phases, Places, InDesired
<1>5. ASSUME NEW r \in Repo, GenerateJitFails(r)
      PROVE  TypeOK' /\ SlotAccounting'
  BY <1>5 DEF GenerateJitFails, TypeOK, SlotAccounting, Places
<1>6. ASSUME NEW r \in Repo, AcquireSlot(r)
      PROVE  TypeOK' /\ SlotAccounting'
  <2>1. target[r] \in Name /\ target[r] \notin holds
    BY <1>6 DEF AcquireSlot, ListenerOwnsTarget, NoLeakedSlot, NamesOf
  <2>2. current' \in Nat /\ SlotAccounting'
    BY <1>6, <2>1, AcquireCounts DEF AcquireSlot
  <2> QED
    BY <1>6, <2>1, <2>2 DEF AcquireSlot, TypeOK, Phases, Places, InDesired
<1>7. ASSUME NEW r \in Repo, AcquireFails(r)
      PROVE  TypeOK' /\ SlotAccounting'
  <2>1. target[r] \in Name
    BY <1>7 DEF AcquireFails, ListenerOwnsTarget, NamesOf
  <2> QED
    BY <1>7, <2>1 DEF AcquireFails, TypeOK, SlotAccounting, Phases, Places
<1>8. ASSUME NEW r \in Repo, Register(r)
      PROVE  TypeOK' /\ SlotAccounting'
  BY <1>8 DEF Register, TypeOK, SlotAccounting, ListenerOwnsTarget, NamesOf, Places, InDesired
<1>9. ASSUME NEW r \in Repo, Launch(r)
      PROVE  TypeOK' /\ SlotAccounting'
  <2>1. target[r] \in Name
    BY <1>9 DEF Launch, ListenerOwnsTarget, NamesOf
  <2> QED
    BY <1>9, <2>1 DEF Launch, TypeOK, SlotAccounting, Phases, Places, InDesired
<1>10. ASSUME NEW r \in Repo, NEW n \in Name, JobStarted(r, n)
       PROVE  TypeOK' /\ SlotAccounting'
  BY <1>10 DEF JobStarted, TypeOK, SlotAccounting
<1>11. ASSUME NEW r \in Repo, NEW n \in Name, JobCompletedUntrack(r, n)
       PROVE  TypeOK' /\ SlotAccounting'
  BY <1>11 DEF JobCompletedUntrack, TypeOK, SlotAccounting, Places, InCompleted
<1>12. ASSUME NEW r \in Repo, JobCompletedCancel(r)
       PROVE  TypeOK' /\ SlotAccounting'
  BY <1>12 DEF JobCompletedCancel, TypeOK, SlotAccounting, ListenerOwnsTarget, NamesOf,
     Places, InCompleted
<1>13. ASSUME NEW r \in Repo, JobCompletedRelease(r)
       PROVE  TypeOK' /\ SlotAccounting'
  <2>1. target[r] \in Name
    BY <1>13 DEF JobCompletedRelease, ListenerOwnsTarget, NamesOf, InCompleted
  <2>2. max' \in Size /\ current' \in Nat /\ holds' \subseteq Name /\ SlotAccounting'
    BY <1>13, <2>1, ReleaseCounts DEF JobCompletedRelease, TypeOK, SlotAccounting
  <2> QED
    BY <1>13, <2>1, <2>2 DEF JobCompletedRelease, TypeOK, Places
<1>14. ASSUME NEW n \in Name, WorkerReturns(n)
       PROVE  TypeOK' /\ SlotAccounting'
  BY <1>14 DEF WorkerReturns, TypeOK, SlotAccounting, Phases
<1>15. ASSUME NEW n \in Name, CleanUp(n)
       PROVE  TypeOK' /\ SlotAccounting'
  BY <1>15 DEF CleanUp, TypeOK, SlotAccounting, Phases
<1>16. ASSUME NEW n \in Name, RunnerEnds(n)
       PROVE  TypeOK' /\ SlotAccounting'
  <2>1. max' \in Size /\ current' \in Nat /\ holds' \subseteq Name /\ SlotAccounting'
    BY <1>16, ReleaseCounts DEF RunnerEnds
  <2> QED
    BY <1>16, <2>1 DEF RunnerEnds, TypeOK, Phases
<1>17. ASSUME NEW n \in Name, CancelRunner(n)
       PROVE  TypeOK' /\ SlotAccounting'
  BY <1>17 DEF CancelRunner, TypeOK, SlotAccounting
<1>18. ASSUME NEW newMax \in Size, Resize(newMax)
       PROVE  TypeOK' /\ SlotAccounting'
  BY <1>18 DEF Resize, TypeOK, SlotAccounting
<1>19. ASSUME Shutdown
       PROVE  TypeOK' /\ SlotAccounting'
  BY <1>19 DEF Shutdown, TypeOK, SlotAccounting
<1> QED
  BY <1>0, <1>1, <1>2, <1>3, <1>4, <1>5, <1>6, <1>7, <1>8, <1>9, <1>10, <1>11,
     <1>12, <1>13, <1>14, <1>15, <1>16, <1>17, <1>18, <1>19
     DEF Next, Callback, DesiredStep, CompletedStep, RunnerStep
-----------------------------------------------------------------------------
(* The maps agree after every step.                                           *)
LEMMA StepMaps ==
    Inv /\ [Next]_vars => MapsAgree'
<1> SUFFICES ASSUME Inv, Next PROVE MapsAgree'
  BY DEF Inv, TypeOK, MapsAgree
<1> USE DEF Inv, Goto, EndCall
<1>1. ASSUME NEW r \in Repo, NEW count \in Count, DesiredBegin(r, count)
      PROVE  MapsAgree'
  BY <1>1 DEF DesiredBegin, TypeOK, MapsAgree
<1>2. ASSUME NEW r \in Repo, DesiredSample(r)
      PROVE  MapsAgree'
  BY <1>2 DEF DesiredSample, TypeOK, MapsAgree
<1>3. ASSUME NEW r \in Repo, DesiredReturn(r)
      PROVE  MapsAgree'
  BY <1>3 DEF DesiredReturn, TypeOK, MapsAgree
<1>4. ASSUME NEW r \in Repo, NEW n \in Name, GenerateJit(r, n)
      PROVE  MapsAgree'
  BY <1>4 DEF GenerateJit, TypeOK, MapsAgree
<1>5. ASSUME NEW r \in Repo, GenerateJitFails(r)
      PROVE  MapsAgree'
  BY <1>5 DEF GenerateJitFails, TypeOK, MapsAgree
<1>6. ASSUME NEW r \in Repo, AcquireSlot(r)
      PROVE  MapsAgree'
  BY <1>6 DEF AcquireSlot, TypeOK, MapsAgree
<1>7. ASSUME NEW r \in Repo, AcquireFails(r)
      PROVE  MapsAgree'
  BY <1>7 DEF AcquireFails, TypeOK, MapsAgree, ListenerOwnsTarget, NamesOf
<1>8. ASSUME NEW r \in Repo, Register(r)
      PROVE  MapsAgree'
  BY <1>8 DEF Register, TypeOK, MapsAgree, ListenerOwnsTarget, NamesOf
<1>9. ASSUME NEW r \in Repo, Launch(r)
      PROVE  MapsAgree'
  BY <1>9 DEF Launch, TypeOK, MapsAgree
<1>10. ASSUME NEW r \in Repo, NEW n \in Name, JobStarted(r, n)
       PROVE  MapsAgree'
  BY <1>10 DEF JobStarted, TypeOK, MapsAgree
<1>11. ASSUME NEW r \in Repo, NEW n \in Name, JobCompletedUntrack(r, n)
       PROVE  MapsAgree'
  BY <1>11 DEF JobCompletedUntrack, TypeOK, MapsAgree
<1>12. ASSUME NEW r \in Repo, JobCompletedCancel(r)
       PROVE  MapsAgree'
  BY <1>12 DEF JobCompletedCancel, TypeOK, MapsAgree
<1>13. ASSUME NEW r \in Repo, JobCompletedRelease(r)
       PROVE  MapsAgree'
  BY <1>13 DEF JobCompletedRelease, TypeOK, MapsAgree, ListenerOwnsTarget,
     NamesOf, InCompleted, ReleaseOnce
<1>14. ASSUME NEW n \in Name, WorkerReturns(n)
       PROVE  MapsAgree'
  BY <1>14 DEF WorkerReturns, TypeOK, MapsAgree
<1>15. ASSUME NEW n \in Name, CleanUp(n)
       PROVE  MapsAgree'
  BY <1>15 DEF CleanUp, TypeOK, MapsAgree
<1>16. ASSUME NEW n \in Name, RunnerEnds(n)
       PROVE  MapsAgree'
  BY <1>16 DEF RunnerEnds, TypeOK, MapsAgree, ReleaseOnce
<1>17. ASSUME NEW n \in Name, CancelRunner(n)
       PROVE  MapsAgree'
  BY <1>17 DEF CancelRunner, TypeOK, MapsAgree
<1>18. ASSUME NEW newMax \in Size, Resize(newMax)
       PROVE  MapsAgree'
  BY <1>18 DEF Resize, TypeOK, MapsAgree
<1>19. ASSUME Shutdown
       PROVE  MapsAgree'
  BY <1>19 DEF Shutdown, TypeOK, MapsAgree
<1> QED
  BY <1>1, <1>2, <1>3, <1>4, <1>5, <1>6, <1>7, <1>8, <1>9, <1>10, <1>11,
     <1>12, <1>13, <1>14, <1>15, <1>16, <1>17, <1>18, <1>19
     DEF Next, Callback, DesiredStep, CompletedStep, RunnerStep

(* A listener still owns the runner it works on after every step.             *)
LEMMA StepOwns ==
    Inv /\ [Next]_vars => ListenerOwnsTarget'
<1> SUFFICES ASSUME Inv, Next PROVE ListenerOwnsTarget'
  BY DEF Inv, TypeOK, ListenerOwnsTarget, NamesOf, InCompleted
<1> USE DEF Inv, Goto, EndCall
<1>1. ASSUME NEW r \in Repo, NEW count \in Count, DesiredBegin(r, count)
      PROVE  ListenerOwnsTarget'
  BY <1>1 DEF DesiredBegin, TypeOK, ListenerOwnsTarget, NamesOf, InCompleted
<1>2. ASSUME NEW r \in Repo, DesiredSample(r)
      PROVE  ListenerOwnsTarget'
  BY <1>2 DEF DesiredSample, TypeOK, ListenerOwnsTarget, NamesOf,
     InCompleted
<1>3. ASSUME NEW r \in Repo, DesiredReturn(r)
      PROVE  ListenerOwnsTarget'
  BY <1>3 DEF DesiredReturn, TypeOK, ListenerOwnsTarget, NamesOf,
     InCompleted
<1>4. ASSUME NEW r \in Repo, NEW n \in Name, GenerateJit(r, n)
      PROVE  ListenerOwnsTarget'
  BY <1>4 DEF GenerateJit, TypeOK, ListenerOwnsTarget, NamesOf, InCompleted
<1>5. ASSUME NEW r \in Repo, GenerateJitFails(r)
      PROVE  ListenerOwnsTarget'
  BY <1>5 DEF GenerateJitFails, TypeOK, ListenerOwnsTarget, NamesOf,
     InCompleted
<1>6. ASSUME NEW r \in Repo, AcquireSlot(r)
      PROVE  ListenerOwnsTarget'
  BY <1>6 DEF AcquireSlot, TypeOK, ListenerOwnsTarget, NamesOf, InCompleted
<1>7. ASSUME NEW r \in Repo, AcquireFails(r)
      PROVE  ListenerOwnsTarget'
  BY <1>7 DEF AcquireFails, TypeOK, ListenerOwnsTarget, NamesOf, InCompleted
<1>8. ASSUME NEW r \in Repo, Register(r)
      PROVE  ListenerOwnsTarget'
  BY <1>8 DEF Register, TypeOK, ListenerOwnsTarget, NamesOf, InCompleted
<1>9. ASSUME NEW r \in Repo, Launch(r)
      PROVE  ListenerOwnsTarget'
  BY <1>9 DEF Launch, TypeOK, ListenerOwnsTarget, NamesOf, InCompleted
<1>10. ASSUME NEW r \in Repo, NEW n \in Name, JobStarted(r, n)
       PROVE  ListenerOwnsTarget'
  BY <1>10 DEF JobStarted, TypeOK, ListenerOwnsTarget, NamesOf, InCompleted
<1>11. ASSUME NEW r \in Repo, NEW n \in Name, JobCompletedUntrack(r, n)
       PROVE  ListenerOwnsTarget'
  BY <1>11 DEF JobCompletedUntrack, TypeOK, ListenerOwnsTarget, NamesOf,
     InCompleted
<1>12. ASSUME NEW r \in Repo, JobCompletedCancel(r)
       PROVE  ListenerOwnsTarget'
  BY <1>12 DEF JobCompletedCancel, TypeOK, ListenerOwnsTarget, NamesOf,
     InCompleted
<1>13. ASSUME NEW r \in Repo, JobCompletedRelease(r)
       PROVE  ListenerOwnsTarget'
  BY <1>13 DEF JobCompletedRelease, TypeOK, ListenerOwnsTarget, NamesOf,
     InCompleted, ReleaseOnce
<1>14. ASSUME NEW n \in Name, WorkerReturns(n)
       PROVE  ListenerOwnsTarget'
  BY <1>14 DEF WorkerReturns, TypeOK, ListenerOwnsTarget, NamesOf,
     InCompleted
<1>15. ASSUME NEW n \in Name, CleanUp(n)
       PROVE  ListenerOwnsTarget'
  BY <1>15 DEF CleanUp, TypeOK, ListenerOwnsTarget, NamesOf, InCompleted
<1>16. ASSUME NEW n \in Name, RunnerEnds(n)
       PROVE  ListenerOwnsTarget'
  BY <1>16 DEF RunnerEnds, TypeOK, ListenerOwnsTarget, NamesOf, InCompleted,
     ReleaseOnce
<1>17. ASSUME NEW n \in Name, CancelRunner(n)
       PROVE  ListenerOwnsTarget'
  BY <1>17 DEF CancelRunner, TypeOK, ListenerOwnsTarget, NamesOf,
     InCompleted
<1>18. ASSUME NEW newMax \in Size, Resize(newMax)
       PROVE  ListenerOwnsTarget'
  BY <1>18 DEF Resize, TypeOK, ListenerOwnsTarget, NamesOf, InCompleted
<1>19. ASSUME Shutdown
       PROVE  ListenerOwnsTarget'
  BY <1>19 DEF Shutdown, TypeOK, ListenerOwnsTarget, NamesOf, InCompleted
<1> QED
  BY <1>1, <1>2, <1>3, <1>4, <1>5, <1>6, <1>7, <1>8, <1>9, <1>10, <1>11,
     <1>12, <1>13, <1>14, <1>15, <1>16, <1>17, <1>18, <1>19
     DEF Next, Callback, DesiredStep, CompletedStep, RunnerStep

(* A slot still has its goroutine after every step.                           *)
LEMMA StepLeak ==
    Inv /\ [Next]_vars => NoLeakedSlot'
<1> SUFFICES ASSUME Inv, Next PROVE NoLeakedSlot'
  BY DEF Inv, TypeOK, NoLeakedSlot
<1> USE DEF Inv, Goto, EndCall
<1>1. ASSUME NEW r \in Repo, NEW count \in Count, DesiredBegin(r, count)
      PROVE  NoLeakedSlot'
  BY <1>1 DEF DesiredBegin, TypeOK, NoLeakedSlot
<1>2. ASSUME NEW r \in Repo, DesiredSample(r)
      PROVE  NoLeakedSlot'
  BY <1>2 DEF DesiredSample, TypeOK, NoLeakedSlot
<1>3. ASSUME NEW r \in Repo, DesiredReturn(r)
      PROVE  NoLeakedSlot'
  BY <1>3 DEF DesiredReturn, TypeOK, NoLeakedSlot
<1>4. ASSUME NEW r \in Repo, NEW n \in Name, GenerateJit(r, n)
      PROVE  NoLeakedSlot'
  BY <1>4 DEF GenerateJit, TypeOK, NoLeakedSlot
<1>5. ASSUME NEW r \in Repo, GenerateJitFails(r)
      PROVE  NoLeakedSlot'
  BY <1>5 DEF GenerateJitFails, TypeOK, NoLeakedSlot
<1>6. ASSUME NEW r \in Repo, AcquireSlot(r)
      PROVE  NoLeakedSlot'
  BY <1>6 DEF AcquireSlot, TypeOK, NoLeakedSlot, ListenerOwnsTarget, NamesOf
<1>7. ASSUME NEW r \in Repo, AcquireFails(r)
      PROVE  NoLeakedSlot'
  BY <1>7 DEF AcquireFails, TypeOK, NoLeakedSlot, ListenerOwnsTarget,
     NamesOf
<1>8. ASSUME NEW r \in Repo, Register(r)
      PROVE  NoLeakedSlot'
  BY <1>8 DEF Register, TypeOK, NoLeakedSlot
<1>9. ASSUME NEW r \in Repo, Launch(r)
      PROVE  NoLeakedSlot'
  BY <1>9 DEF Launch, TypeOK, NoLeakedSlot
<1>10. ASSUME NEW r \in Repo, NEW n \in Name, JobStarted(r, n)
       PROVE  NoLeakedSlot'
  BY <1>10 DEF JobStarted, TypeOK, NoLeakedSlot
<1>11. ASSUME NEW r \in Repo, NEW n \in Name, JobCompletedUntrack(r, n)
       PROVE  NoLeakedSlot'
  BY <1>11 DEF JobCompletedUntrack, TypeOK, NoLeakedSlot
<1>12. ASSUME NEW r \in Repo, JobCompletedCancel(r)
       PROVE  NoLeakedSlot'
  BY <1>12 DEF JobCompletedCancel, TypeOK, NoLeakedSlot
<1>13. ASSUME NEW r \in Repo, JobCompletedRelease(r)
       PROVE  NoLeakedSlot'
  BY <1>13 DEF JobCompletedRelease, TypeOK, NoLeakedSlot,
     ListenerOwnsTarget, NamesOf, InCompleted, ReleaseOnce
<1>14. ASSUME NEW n \in Name, WorkerReturns(n)
       PROVE  NoLeakedSlot'
  BY <1>14 DEF WorkerReturns, TypeOK, NoLeakedSlot
<1>15. ASSUME NEW n \in Name, CleanUp(n)
       PROVE  NoLeakedSlot'
  BY <1>15 DEF CleanUp, TypeOK, NoLeakedSlot
<1>16. ASSUME NEW n \in Name, RunnerEnds(n)
       PROVE  NoLeakedSlot'
  BY <1>16 DEF RunnerEnds, TypeOK, NoLeakedSlot, ReleaseOnce
<1>17. ASSUME NEW n \in Name, CancelRunner(n)
       PROVE  NoLeakedSlot'
  BY <1>17 DEF CancelRunner, TypeOK, NoLeakedSlot
<1>18. ASSUME NEW newMax \in Size, Resize(newMax)
       PROVE  NoLeakedSlot'
  BY <1>18 DEF Resize, TypeOK, NoLeakedSlot
<1>19. ASSUME Shutdown
       PROVE  NoLeakedSlot'
  BY <1>19 DEF Shutdown, TypeOK, NoLeakedSlot
<1> QED
  BY <1>1, <1>2, <1>3, <1>4, <1>5, <1>6, <1>7, <1>8, <1>9, <1>10, <1>11,
     <1>12, <1>13, <1>14, <1>15, <1>16, <1>17, <1>18, <1>19
     DEF Next, Callback, DesiredStep, CompletedStep, RunnerStep

(* Every worker process can still be stopped, or has been, after every step.  *)
LEMMA StepStoppable ==
    Inv /\ [Next]_vars => NoUnstoppableProcess'
<1> SUFFICES ASSUME Inv, Next PROVE NoUnstoppableProcess'
  BY DEF Inv, TypeOK, NoUnstoppableProcess, Processes, Stopped
<1> USE DEF Inv, Goto, EndCall
<1>1. ASSUME NEW r \in Repo, NEW count \in Count, DesiredBegin(r, count)
      PROVE  NoUnstoppableProcess'
  BY <1>1 DEF DesiredBegin, TypeOK, NoUnstoppableProcess, Processes, Stopped
<1>2. ASSUME NEW r \in Repo, DesiredSample(r)
      PROVE  NoUnstoppableProcess'
  BY <1>2 DEF DesiredSample, TypeOK, NoUnstoppableProcess, Processes,
     Stopped
<1>3. ASSUME NEW r \in Repo, DesiredReturn(r)
      PROVE  NoUnstoppableProcess'
  BY <1>3 DEF DesiredReturn, TypeOK, NoUnstoppableProcess, Processes,
     Stopped
<1>4. ASSUME NEW r \in Repo, NEW n \in Name, GenerateJit(r, n)
      PROVE  NoUnstoppableProcess'
  BY <1>4 DEF GenerateJit, TypeOK, NoUnstoppableProcess, Processes, Stopped
<1>5. ASSUME NEW r \in Repo, GenerateJitFails(r)
      PROVE  NoUnstoppableProcess'
  BY <1>5 DEF GenerateJitFails, TypeOK, NoUnstoppableProcess, Processes,
     Stopped
<1>6. ASSUME NEW r \in Repo, AcquireSlot(r)
      PROVE  NoUnstoppableProcess'
  BY <1>6 DEF AcquireSlot, TypeOK, NoUnstoppableProcess, Processes, Stopped
<1>7. ASSUME NEW r \in Repo, AcquireFails(r)
      PROVE  NoUnstoppableProcess'
  BY <1>7 DEF AcquireFails, TypeOK, NoUnstoppableProcess, Processes, Stopped
<1>8. ASSUME NEW r \in Repo, Register(r)
      PROVE  NoUnstoppableProcess'
  BY <1>8 DEF Register, TypeOK, NoUnstoppableProcess, Processes, Stopped
<1>9. ASSUME NEW r \in Repo, Launch(r)
      PROVE  NoUnstoppableProcess'
  BY <1>9 DEF Launch, TypeOK, NoUnstoppableProcess, ListenerOwnsTarget,
     NamesOf, Processes, Stopped
<1>10. ASSUME NEW r \in Repo, NEW n \in Name, JobStarted(r, n)
       PROVE  NoUnstoppableProcess'
  BY <1>10 DEF JobStarted, TypeOK, NoUnstoppableProcess, Processes, Stopped
<1>11. ASSUME NEW r \in Repo, NEW n \in Name, JobCompletedUntrack(r, n)
       PROVE  NoUnstoppableProcess'
  BY <1>11 DEF JobCompletedUntrack, TypeOK, NoUnstoppableProcess, Processes,
     Stopped
<1>12. ASSUME NEW r \in Repo, JobCompletedCancel(r)
       PROVE  NoUnstoppableProcess'
  BY <1>12 DEF JobCompletedCancel, TypeOK, NoUnstoppableProcess, Processes,
     Stopped
<1>13. ASSUME NEW r \in Repo, JobCompletedRelease(r)
       PROVE  NoUnstoppableProcess'
  BY <1>13 DEF JobCompletedRelease, TypeOK, NoUnstoppableProcess, Processes,
     Stopped
<1>14. ASSUME NEW n \in Name, WorkerReturns(n)
       PROVE  NoUnstoppableProcess'
  BY <1>14 DEF WorkerReturns, TypeOK, NoUnstoppableProcess, Processes,
     Stopped
<1>15. ASSUME NEW n \in Name, CleanUp(n)
       PROVE  NoUnstoppableProcess'
  BY <1>15 DEF CleanUp, TypeOK, NoUnstoppableProcess, Processes, Stopped
<1>16. ASSUME NEW n \in Name, RunnerEnds(n)
       PROVE  NoUnstoppableProcess'
  BY <1>16 DEF RunnerEnds, TypeOK, NoUnstoppableProcess, Processes, Stopped
<1>17. ASSUME NEW n \in Name, CancelRunner(n)
       PROVE  NoUnstoppableProcess'
  BY <1>17 DEF CancelRunner, TypeOK, NoUnstoppableProcess, Processes,
     Stopped
<1>18. ASSUME NEW newMax \in Size, Resize(newMax)
       PROVE  NoUnstoppableProcess'
  BY <1>18 DEF Resize, TypeOK, NoUnstoppableProcess, Processes, Stopped
<1>19. ASSUME Shutdown
       PROVE  NoUnstoppableProcess'
  BY <1>19 DEF Shutdown, TypeOK, NoUnstoppableProcess, Processes, Stopped
<1> QED
  BY <1>1, <1>2, <1>3, <1>4, <1>5, <1>6, <1>7, <1>8, <1>9, <1>10, <1>11,
     <1>12, <1>13, <1>14, <1>15, <1>16, <1>17, <1>18, <1>19
     DEF Next, Callback, DesiredStep, CompletedStep, RunnerStep

LEMMA InvStep == Inv /\ [Next]_vars => Inv'
BY StepTypeAndCount, StepMaps, StepOwns, StepLeak, StepStoppable DEF Inv

LEMMA InvHolds == Spec => []Inv
<1> QED
  BY InvInit, InvStep, PTL DEF Spec

-----------------------------------------------------------------------------
(* Every variable keeps its type: scalers, semaphore and runner goroutines    *)
(* never leave the states the code is written for, for any number of them.    *)
THEOREM TypeCorrect == Spec => []TypeOK
<1>1. Inv => TypeOK
  BY DEF Inv
<1> QED
  BY <1>1, InvHolds, PTL

(* Semaphore.current counts exactly the runners whose release has not fired,  *)
(* however job completions, worker exits, recycling and resizing interleave.  *)
THEOREM SlotsCounted == Spec => []SlotAccounting
<1>1. Inv => SlotAccounting
  BY DEF Inv
<1> QED
  BY <1>1, InvHolds, PTL

(* No slot outlives the runner goroutine that gives it back.                  *)
THEOREM SlotsNotLeaked == Spec => []NoLeakedSlot
<1>1. Inv => NoLeakedSlot
  BY DEF Inv
<1> QED
  BY <1>1, InvHolds, PTL

(* The four per-runner maps agree, and keep nothing of a runner that ended.   *)
THEOREM MapsAlwaysAgree == Spec => []MapsAgree
<1>1. Inv => MapsAgree
  BY DEF Inv
<1> QED
  BY <1>1, InvHolds, PTL

(* Every worker process is tracked, or was told to stop, or is about to be.   *)
THEOREM ProcessesStoppable == Spec => []NoUnstoppableProcess
<1>1. Inv => NoUnstoppableProcess
  BY DEF Inv
<1> QED
  BY <1>1, InvHolds, PTL

-----------------------------------------------------------------------------
(* Refinement: with the names that hold a slot as holders, each step of the   *)
(* scalers is a step of the abstract pool or leaves the pool alone.           *)
LEMMA GrantIsPoolStep ==
    ASSUME Inv, NEW r \in Repo, AcquireSlot(r)
    PROVE  Pool!Grant(target[r]) /\ target[r] \in Name
<1>1. target[r] \in Name /\ target[r] \notin holds
  BY DEF Inv, AcquireSlot, ListenerOwnsTarget, NoLeakedSlot, NamesOf
<1>2. Cardinality(holds) < max
  BY DEF Inv, AcquireSlot, SlotAccounting
<1>3. Pool!Cardinality(holds) = Cardinality(holds)
  BY Zenon DEF Pool!Cardinality, Cardinality
<1> QED
  BY <1>1, <1>2, <1>3 DEF AcquireSlot, Pool!Grant

LEMMA ReleaseIsPoolStep ==
    ASSUME NEW n, ReleaseOnce(n)
    PROVE  Pool!GiveBack(n) \/ UNCHANGED <<max, holds>>
BY DEF ReleaseOnce, Pool!GiveBack

LEMMA PoolStep == Inv /\ [Next]_vars => [Pool!PoolNext]_(Pool!poolVars)
<1> SUFFICES ASSUME Inv, Next
             PROVE  Pool!PoolNext \/ UNCHANGED <<max, holds>>
  BY DEF Pool!poolVars
<1>1. ASSUME NEW r \in Repo, AcquireSlot(r) PROVE Pool!PoolNext
  BY <1>1, GrantIsPoolStep DEF Pool!PoolNext
<1>2. ASSUME NEW r \in Repo, JobCompletedRelease(r)
      PROVE  Pool!PoolNext \/ UNCHANGED <<max, holds>>
  <2>1. target[r] \in Name
    BY <1>2 DEF Inv, JobCompletedRelease, ListenerOwnsTarget, NamesOf, InCompleted
  <2> QED
    BY <1>2, <2>1, ReleaseIsPoolStep DEF JobCompletedRelease, Pool!PoolNext
<1>3. ASSUME NEW n \in Name, RunnerEnds(n)
      PROVE  Pool!PoolNext \/ UNCHANGED <<max, holds>>
  BY <1>3, ReleaseIsPoolStep DEF RunnerEnds, Pool!PoolNext
<1>4. ASSUME NEW newMax \in Size, Resize(newMax) PROVE Pool!PoolNext
  BY <1>4 DEF Resize, Pool!PoolNext, Pool!SetSize
<1>5. ASSUME NEW r \in Repo,
             \/ Callback(r)
             \/ DesiredSample(r) \/ DesiredReturn(r)
             \/ \E n \in Name : GenerateJit(r, n)
             \/ GenerateJitFails(r) \/ AcquireFails(r) \/ Register(r) \/ Launch(r)
             \/ JobCompletedCancel(r)
      PROVE  UNCHANGED <<max, holds>>
  BY <1>5 DEF Callback, DesiredBegin, JobStarted, JobCompletedUntrack, DesiredSample,
     DesiredReturn, GenerateJit, GenerateJitFails, AcquireFails, Register, Launch,
     JobCompletedCancel
<1>6. ASSUME NEW n \in Name, WorkerReturns(n) \/ CleanUp(n) \/ CancelRunner(n)
      PROVE  UNCHANGED <<max, holds>>
  BY <1>6 DEF WorkerReturns, CleanUp, CancelRunner
<1>7. ASSUME Shutdown PROVE UNCHANGED <<max, holds>>
  BY <1>7 DEF Shutdown
<1> QED
  BY <1>1, <1>2, <1>3, <1>4, <1>5, <1>6, <1>7
     DEF Next, DesiredStep, CompletedStep, RunnerStep

(* The scalers use the semaphore as the abstract slot pool allows: a slot is  *)
(* granted below the capacity in force, to a runner without one, and given    *)
(* back once.                                                                 *)
THEOREM RefinesPool == Spec => ImplementsPool
<1>1. Init => Pool!PoolInit
  BY DEF Init, Pool!PoolInit
<1> QED
  BY <1>1, PoolStep, InvHolds, PTL DEF Spec, ImplementsPool, Pool!PoolSpec

-----------------------------------------------------------------------------
(* What one callback guarantees while everybody else runs: how many runners   *)
(* HandleDesiredRunnerCount leaves, and that HandleJobCompleted frees the     *)
(* slot of the job that ended.                                                *)

(* The loop of HandleDesiredRunnerCount has started fewer runners than it set *)
(* out to whenever it starts one more.                                        *)
CreatedWithinBudget ==
    \A r \in Repo :
        /\ pc[r] \in {"idle", "sample"} \union InCompleted => created[r] = 0
        /\ pc[r] \in {"acquire", "register", "launch"} => MoreToCreate(r)
        /\ pc[r] = "loop" => created[r] <= RunnersToCreate(desired[r], existing[r],
                                                          available[r])

(* Runners found at the start, plus those started, plus one between its       *)
(* registration and its go statement: others only take runners away.          *)
BeingStarted(r) == IF pc[r] = "launch" THEN 1 ELSE 0

TrackedWithinBudget ==
    \A r \in Repo : pc[r] \in InDesired =>
        Cardinality(Tracked(r)) <= existing[r] + created[r] + BeingStarted(r)

(* Whoever holds a slot has its release function where the next completion    *)
(* callback finds it, or a callback has already taken it out to call it.      *)
SlotsHaveRelease ==
    \A n \in holds :
        /\ phase[n] = "starting" => /\ pc[RepoOf[n]] \in {"register", "launch"}
                                    /\ target[RepoOf[n]] = n
                                    /\ pc[RepoOf[n]] = "launch" => n \in releases
        /\ phase[n] \in {"running", "exited"} =>
              \/ n \in releases
              \/ /\ pc[RepoOf[n]] \in InCompleted
                 /\ target[RepoOf[n]] = n
                 /\ "release" \in grabbed[RepoOf[n]]

-----------------------------------------------------------------------------
LEMMA FewerNames ==
    ASSUME NEW T, T \subseteq Name, NEW S, S \subseteq T
    PROVE  /\ Cardinality(S) \in Nat /\ Cardinality(T) \in Nat
           /\ Cardinality(S) <= Cardinality(T)
<1>1. IsFiniteSet(T) /\ Cardinality(T) \in Nat /\ Cardinality(S) \in Nat
  BY FiniteNames
<1> QED
  BY <1>1, FS_Subset

LEMMA OneMoreName ==
    ASSUME NEW S, S \subseteq Name, NEW n \in Name
    PROVE  Cardinality(S \union {n}) <= Cardinality(S) + 1
<1>1. IsFiniteSet(S) /\ Cardinality(S) \in Nat
  BY FiniteNames
<1>2. CASE n \in S
  <2>1. Cardinality(S \union {n}) = Cardinality(S)
    BY <1>1, <1>2, FS_AddElement
  <2> QED
    BY <1>1, <2>1
<1>3. CASE n \notin S
  <2>1. Cardinality(S \union {n}) = Cardinality(S) + 1
    BY <1>1, <1>3, FS_AddElement
  <2> QED
    BY <1>1, <2>1
<1> QED
  BY <1>2, <1>3

(* runnersToCreate never asks for more than is missing.                       *)
LEMMA CreateOnlyMissing ==
    ASSUME NEW want \in Nat, NEW have \in Nat, NEW free \in Int
    PROVE  /\ RunnersToCreate(want, have, free) \in Nat
           /\ have + RunnersToCreate(want, have, free) <= Upper(want, have)
BY DEF RunnersToCreate, Lower, Upper

(* The loop stays within its budget.                                          *)
LEMMA StepCreated ==
    Inv /\ CreatedWithinBudget /\ [Next]_vars => CreatedWithinBudget'
<1> SUFFICES ASSUME Inv, CreatedWithinBudget, Next PROVE CreatedWithinBudget'
  BY DEF Inv, TypeOK, CreatedWithinBudget, MoreToCreate, InCompleted
<1> USE DEF Inv, Goto, EndCall
<1>1. ASSUME NEW r \in Repo, NEW count \in Count, DesiredBegin(r, count)
      PROVE  CreatedWithinBudget'
  BY <1>1 DEF DesiredBegin, TypeOK, CreatedWithinBudget, MoreToCreate,
     InCompleted
<1>2. ASSUME NEW r \in Repo, DesiredSample(r)
      PROVE  CreatedWithinBudget'
  BY <1>2, ScalerAssumption DEF DesiredSample, TypeOK, CreatedWithinBudget, MoreToCreate,
     InCompleted, RunnersToCreate, Lower, Upper
<1>3. ASSUME NEW r \in Repo, DesiredReturn(r)
      PROVE  CreatedWithinBudget'
  BY <1>3 DEF DesiredReturn, TypeOK, CreatedWithinBudget, MoreToCreate,
     InCompleted
<1>4. ASSUME NEW r \in Repo, NEW n \in Name, GenerateJit(r, n)
      PROVE  CreatedWithinBudget'
  BY <1>4 DEF GenerateJit, TypeOK, CreatedWithinBudget, MoreToCreate,
     InCompleted
<1>5. ASSUME NEW r \in Repo, GenerateJitFails(r)
      PROVE  CreatedWithinBudget'
  BY <1>5 DEF GenerateJitFails, TypeOK, CreatedWithinBudget, MoreToCreate,
     InCompleted
<1>6. ASSUME NEW r \in Repo, AcquireSlot(r)
      PROVE  CreatedWithinBudget'
  BY <1>6 DEF AcquireSlot, TypeOK, CreatedWithinBudget, MoreToCreate,
     InCompleted
<1>7. ASSUME NEW r \in Repo, AcquireFails(r)
      PROVE  CreatedWithinBudget'
  BY <1>7 DEF AcquireFails, TypeOK, CreatedWithinBudget, MoreToCreate,
     InCompleted
<1>8. ASSUME NEW r \in Repo, Register(r)
      PROVE  CreatedWithinBudget'
  BY <1>8 DEF Register, TypeOK, CreatedWithinBudget, MoreToCreate,
     InCompleted
<1>9. ASSUME NEW r \in Repo, Launch(r)
      PROVE  CreatedWithinBudget'
  BY <1>9 DEF Launch, TypeOK, CreatedWithinBudget, MoreToCreate,
     InCompleted, RunnersToCreate, Lower, Upper
<1>10. ASSUME NEW r \in Repo, NEW n \in Name, JobStarted(r, n)
       PROVE  CreatedWithinBudget'
  BY <1>10 DEF JobStarted, TypeOK, CreatedWithinBudget, MoreToCreate,
     InCompleted
<1>11. ASSUME NEW r \in Repo, NEW n \in Name, JobCompletedUntrack(r, n)
       PROVE  CreatedWithinBudget'
  BY <1>11 DEF JobCompletedUntrack, TypeOK, CreatedWithinBudget,
     MoreToCreate, InCompleted
<1>12. ASSUME NEW r \in Repo, JobCompletedCancel(r)
       PROVE  CreatedWithinBudget'
  BY <1>12 DEF JobCompletedCancel, TypeOK, CreatedWithinBudget,
     MoreToCreate, InCompleted
<1>13. ASSUME NEW r \in Repo, JobCompletedRelease(r)
       PROVE  CreatedWithinBudget'
  BY <1>13 DEF JobCompletedRelease, TypeOK, CreatedWithinBudget,
     MoreToCreate, InCompleted
<1>14. ASSUME NEW n \in Name, WorkerReturns(n)
       PROVE  CreatedWithinBudget'
  BY <1>14 DEF WorkerReturns, TypeOK, CreatedWithinBudget, MoreToCreate,
     InCompleted
<1>15. ASSUME NEW n \in Name, CleanUp(n)
       PROVE  CreatedWithinBudget'
  BY <1>15 DEF CleanUp, TypeOK, CreatedWithinBudget, MoreToCreate,
     InCompleted
<1>16. ASSUME NEW n \in Name, RunnerEnds(n)
       PROVE  CreatedWithinBudget'
  BY <1>16 DEF RunnerEnds, TypeOK, CreatedWithinBudget, MoreToCreate,
     InCompleted
<1>17. ASSUME NEW n \in Name, CancelRunner(n)
       PROVE  CreatedWithinBudget'
  BY <1>17 DEF CancelRunner, TypeOK, CreatedWithinBudget, MoreToCreate,
     InCompleted
<1>18. ASSUME NEW newMax \in Size, Resize(newMax)
       PROVE  CreatedWithinBudget'
  BY <1>18 DEF Resize, TypeOK, CreatedWithinBudget, MoreToCreate,
     InCompleted
<1>19. ASSUME Shutdown
       PROVE  CreatedWithinBudget'
  BY <1>19 DEF Shutdown, TypeOK, CreatedWithinBudget, MoreToCreate,
     InCompleted
<1> QED
  BY <1>1, <1>2, <1>3, <1>4, <1>5, <1>6, <1>7, <1>8, <1>9, <1>10, <1>11,
     <1>12, <1>13, <1>14, <1>15, <1>16, <1>17, <1>18, <1>19
     DEF Next, Callback, DesiredStep, CompletedStep, RunnerStep

(* Slots keep their release function.                                         *)
LEMMA StepRelease ==
    Inv /\ SlotsHaveRelease /\ [Next]_vars => SlotsHaveRelease'
<1> SUFFICES ASSUME Inv, SlotsHaveRelease, Next PROVE SlotsHaveRelease'
  BY DEF Inv, TypeOK, SlotsHaveRelease, InCompleted
<1> USE DEF Inv, Goto, EndCall
<1>1. ASSUME NEW r \in Repo, NEW count \in Count, DesiredBegin(r, count)
      PROVE  SlotsHaveRelease'
  BY <1>1 DEF DesiredBegin, TypeOK, SlotsHaveRelease, InCompleted
<1>2. ASSUME NEW r \in Repo, DesiredSample(r)
      PROVE  SlotsHaveRelease'
  BY <1>2 DEF DesiredSample, TypeOK, SlotsHaveRelease, InCompleted
<1>3. ASSUME NEW r \in Repo, DesiredReturn(r)
      PROVE  SlotsHaveRelease'
  BY <1>3 DEF DesiredReturn, TypeOK, SlotsHaveRelease, InCompleted
<1>4. ASSUME NEW r \in Repo, NEW n \in Name, GenerateJit(r, n)
      PROVE  SlotsHaveRelease'
  BY <1>4 DEF GenerateJit, TypeOK, SlotsHaveRelease, InCompleted
<1>5. ASSUME NEW r \in Repo, GenerateJitFails(r)
      PROVE  SlotsHaveRelease'
  BY <1>5 DEF GenerateJitFails, TypeOK, SlotsHaveRelease, InCompleted
<1>6. ASSUME NEW r \in Repo, AcquireSlot(r)
      PROVE  SlotsHaveRelease'
  BY <1>6 DEF AcquireSlot, TypeOK, SlotsHaveRelease, ListenerOwnsTarget,
     NamesOf, InCompleted
<1>7. ASSUME NEW r \in Repo, AcquireFails(r)
      PROVE  SlotsHaveRelease'
  BY <1>7 DEF AcquireFails, TypeOK, SlotsHaveRelease, InCompleted
<1>8. ASSUME NEW r \in Repo, Register(r)
      PROVE  SlotsHaveRelease'
  BY <1>8 DEF Register, TypeOK, SlotsHaveRelease, ListenerOwnsTarget,
     NamesOf, InCompleted
<1>9. ASSUME NEW r \in Repo, Launch(r)
      PROVE  SlotsHaveRelease'
  BY <1>9 DEF Launch, TypeOK, SlotsHaveRelease, ListenerOwnsTarget, NamesOf,
     InCompleted
<1>10. ASSUME NEW r \in Repo, NEW n \in Name, JobStarted(r, n)
       PROVE  SlotsHaveRelease'
  BY <1>10 DEF JobStarted, TypeOK, SlotsHaveRelease, InCompleted
<1>11. ASSUME NEW r \in Repo, NEW n \in Name, JobCompletedUntrack(r, n)
       PROVE  SlotsHaveRelease'
  BY <1>11 DEF JobCompletedUntrack, TypeOK, SlotsHaveRelease,
     ListenerOwnsTarget, NamesOf, InCompleted, NoLeakedSlot
<1>12. ASSUME NEW r \in Repo, JobCompletedCancel(r)
       PROVE  SlotsHaveRelease'
  BY <1>12 DEF JobCompletedCancel, TypeOK, SlotsHaveRelease, InCompleted
<1>13. ASSUME NEW r \in Repo, JobCompletedRelease(r)
       PROVE  SlotsHaveRelease'
  BY <1>13 DEF JobCompletedRelease, TypeOK, SlotsHaveRelease,
     ListenerOwnsTarget, NamesOf, InCompleted, ReleaseOnce
<1>14. ASSUME NEW n \in Name, WorkerReturns(n)
       PROVE  SlotsHaveRelease'
  BY <1>14 DEF WorkerReturns, TypeOK, SlotsHaveRelease, InCompleted
<1>15. ASSUME NEW n \in Name, CleanUp(n)
       PROVE  SlotsHaveRelease'
  BY <1>15 DEF CleanUp, TypeOK, SlotsHaveRelease, InCompleted
<1>16. ASSUME NEW n \in Name, RunnerEnds(n)
       PROVE  SlotsHaveRelease'
  BY <1>16 DEF RunnerEnds, TypeOK, SlotsHaveRelease, ReleaseOnce
<1>17. ASSUME NEW n \in Name, CancelRunner(n)
       PROVE  SlotsHaveRelease'
  BY <1>17 DEF CancelRunner, TypeOK, SlotsHaveRelease, InCompleted
<1>18. ASSUME NEW newMax \in Size, Resize(newMax)
       PROVE  SlotsHaveRelease'
  BY <1>18 DEF Resize, TypeOK, SlotsHaveRelease, InCompleted
<1>19. ASSUME Shutdown
       PROVE  SlotsHaveRelease'
  BY <1>19 DEF Shutdown, TypeOK, SlotsHaveRelease, InCompleted
<1> QED
  BY <1>1, <1>2, <1>3, <1>4, <1>5, <1>6, <1>7, <1>8, <1>9, <1>10, <1>11,
     <1>12, <1>13, <1>14, <1>15, <1>16, <1>17, <1>18, <1>19
     DEF Next, Callback, DesiredStep, CompletedStep, RunnerStep
(* Only Register adds a runner, and only to its own repository's map; every   *)
(* other step of anybody leaves each map as it is or smaller.                 *)
LEMMA StepTracked ==
    Inv /\ CreatedWithinBudget /\ TrackedWithinBudget /\ [Next]_vars =>
        TrackedWithinBudget'
<1> SUFFICES ASSUME Inv, CreatedWithinBudget, TrackedWithinBudget, Next, NEW q \in Repo,
                    pc'[q] \in InDesired
             PROVE  Cardinality(Tracked(q)') <=
                        existing'[q] + created'[q] + BeingStarted(q)'
  BY DEF TrackedWithinBudget, Tracked, NamesOf, BeingStarted
<1> USE DEF Inv, Goto, EndCall
<1> DEFINE Bound == existing[q] + created[q] + BeingStarted(q)
<1>0. /\ Tracked(q) \subseteq Name
      /\ Cardinality(Tracked(q)) \in Nat
      /\ existing[q] \in Nat /\ created[q] \in Nat
  BY FiniteNames DEF Tracked, TypeOK
<1>a. ASSUME Tracked(q)' \subseteq Tracked(q), pc[q] \in InDesired, Bound' = Bound
      PROVE  Cardinality(Tracked(q)') <= Bound'
  <2>1. Cardinality(Tracked(q)') \in Nat
        /\ Cardinality(Tracked(q)') <= Cardinality(Tracked(q))
    BY <1>0, <1>a, FewerNames
  <2>2. Cardinality(Tracked(q)) <= Bound
    BY <1>a DEF TrackedWithinBudget
  <2> HIDE DEF Bound
  <2>3. Bound \in Nat
    BY <1>0 DEF BeingStarted, Bound
  <2> QED
    BY <1>0, <1>a, <2>1, <2>2, <2>3
<1> HIDE DEF Bound
<1>1. ASSUME NEW r \in Repo, NEW count \in Count, DesiredBegin(r, count)
      PROVE  Cardinality(Tracked(q)') <= Bound'
  <2>1. CASE q = r
    <3>1. Tracked(q)' = Tracked(q)
      BY <1>1 DEF DesiredBegin, Tracked, NamesOf
    <3>2. existing'[q] = Cardinality(Tracked(q)) /\ created'[q] = 0
      BY <1>1, <2>1 DEF DesiredBegin, TypeOK, CreatedWithinBudget
    <3>3. Bound' = Cardinality(Tracked(q))
      BY <1>0, <1>1, <2>1, <3>2 DEF DesiredBegin, TypeOK, BeingStarted, Bound
    <3> QED
      BY <1>0, <3>1, <3>3
  <2>2. CASE q # r
    BY <1>a, <1>1, <2>2 DEF DesiredBegin, TypeOK, Tracked, NamesOf, BeingStarted, Bound
  <2> QED
    BY <2>1, <2>2
<1>2. ASSUME NEW r \in Repo,
             \/ DesiredSample(r) \/ DesiredReturn(r) \/ GenerateJitFails(r)
             \/ \E n \in Name : GenerateJit(r, n)
             \/ AcquireSlot(r) \/ AcquireFails(r)
      PROVE  Cardinality(Tracked(q)') <= Bound'
  BY <1>a, <1>2 DEF DesiredSample, DesiredReturn, GenerateJitFails, GenerateJit,
     AcquireSlot, AcquireFails, TypeOK, Tracked, NamesOf, InDesired, BeingStarted, Bound
<1>3. ASSUME NEW r \in Repo, Register(r)
      PROVE  Cardinality(Tracked(q)') <= Bound'
  <2>1. CASE q = r
    <3>1. target[r] \in Name
      BY <1>3 DEF Register, ListenerOwnsTarget, NamesOf
    <3>2. Tracked(q)' \subseteq Tracked(q) \union {target[r]}
      BY <1>3, <2>1 DEF Register, Tracked, NamesOf
    <3>3. Cardinality(Tracked(q) \union {target[r]}) <= Cardinality(Tracked(q)) + 1
      BY <1>0, <3>1, OneMoreName
    <3>4. /\ Cardinality(Tracked(q)') \in Nat
          /\ Cardinality(Tracked(q) \union {target[r]}) \in Nat
          /\ Cardinality(Tracked(q)') <= Cardinality(Tracked(q) \union {target[r]})
      BY <1>0, <3>1, <3>2, FewerNames
    <3>5. Cardinality(Tracked(q)) <= existing[q] + created[q]
      BY <1>0, <1>3, <2>1 DEF Register, TrackedWithinBudget, InDesired, BeingStarted
    <3>6. Bound' = existing[q] + created[q] + 1
      BY <1>0, <1>3, <2>1 DEF Register, TypeOK, BeingStarted, Bound
    <3> QED
      BY <1>0, <3>3, <3>4, <3>5, <3>6
  <2>2. CASE q # r
    <3>1. target[r] \notin NamesOf(q)
      BY <1>3, <2>2 DEF Register, ListenerOwnsTarget, NamesOf
    <3>2. Tracked(q)' = Tracked(q)
      BY <1>3, <3>1 DEF Register, Tracked, NamesOf
    <3> QED
      BY <1>a, <1>3, <2>2, <3>2 DEF Register, TypeOK, BeingStarted, Bound
  <2> QED
    BY <2>1, <2>2
<1>4. ASSUME NEW r \in Repo, Launch(r)
      PROVE  Cardinality(Tracked(q)') <= Bound'
  <2>1. pc[q] \in InDesired /\ Tracked(q)' = Tracked(q)
    BY <1>4 DEF Launch, TypeOK, InDesired, Tracked, NamesOf
  <2>2. Bound' = Bound
    BY <1>0, <1>4 DEF Launch, TypeOK, BeingStarted, Bound
  <2> QED
    BY <1>a, <2>1, <2>2
<1>5. ASSUME NEW r \in Repo,
             \/ \E n \in Name : JobStarted(r, n) \/ JobCompletedUntrack(r, n)
             \/ JobCompletedCancel(r) \/ JobCompletedRelease(r)
      PROVE  Cardinality(Tracked(q)') <= Bound'
  BY <1>a, <1>5 DEF JobStarted, JobCompletedUntrack, JobCompletedCancel,
     JobCompletedRelease, TypeOK, Tracked, NamesOf, InDesired, BeingStarted, Bound
<1>6. ASSUME NEW n \in Name,
             WorkerReturns(n) \/ CleanUp(n) \/ RunnerEnds(n) \/ CancelRunner(n)
      PROVE  Cardinality(Tracked(q)') <= Bound'
  BY <1>a, <1>6 DEF WorkerReturns, CleanUp, RunnerEnds, CancelRunner, Tracked, NamesOf,
     BeingStarted, Bound
<1>7. ASSUME Shutdown \/ \E newMax \in Size : Resize(newMax)
      PROVE  Cardinality(Tracked(q)') <= Bound'
  BY <1>a, <1>7 DEF Shutdown, Resize, Tracked, NamesOf, BeingStarted, Bound
<1>8. Cardinality(Tracked(q)') <= Bound'
  BY <1>1, <1>2, <1>3, <1>4, <1>5, <1>6, <1>7
     DEF Next, Callback, DesiredStep, CompletedStep, RunnerStep
<1> QED
  BY <1>8 DEF Bound

-----------------------------------------------------------------------------
LEMMA BudgetHolds == Spec => [](Inv /\ CreatedWithinBudget /\ TrackedWithinBudget)
<1>1. Init => CreatedWithinBudget /\ TrackedWithinBudget
  BY DEF Init, CreatedWithinBudget, TrackedWithinBudget, InDesired, InCompleted
<1> QED
  BY <1>1, InvInit, InvStep, StepCreated, StepTracked, PTL DEF Spec

(* A call of HandleDesiredRunnerCount never takes its repository above the    *)
(* number of assigned jobs, or above what it found, for any number of         *)
(* repositories, runners and slots.                                           *)
THEOREM NeverOvershoots == Spec => []NoOvershoot
<1>1. Inv /\ CreatedWithinBudget /\ TrackedWithinBudget => NoOvershoot
  <2> SUFFICES ASSUME Inv, CreatedWithinBudget, TrackedWithinBudget,
                      NEW r \in Repo, pc[r] \in InDesired
               PROVE  Cardinality(Tracked(r)) <= Upper(desired[r], existing[r])
    BY DEF NoOvershoot
  <2> DEFINE Budget == RunnersToCreate(desired[r], existing[r], available[r])
  <2>1. /\ desired[r] \in Nat /\ existing[r] \in Nat /\ available[r] \in Int
        /\ created[r] \in Nat /\ Cardinality(Tracked(r)) \in Nat
    BY FiniteNames DEF Inv, TypeOK, Tracked
  <2>2. Budget \in Nat /\ existing[r] + Budget <= Upper(desired[r], existing[r])
    BY <2>1, CreateOnlyMissing
  <2>3. Upper(desired[r], existing[r]) \in Nat
    BY <2>1 DEF Upper
  <2>4. created[r] + BeingStarted(r) <= Budget
    BY <2>1, <2>2 DEF CreatedWithinBudget, MoreToCreate, InDesired, BeingStarted
  <2>5. Cardinality(Tracked(r)) <= existing[r] + created[r] + BeingStarted(r)
    BY DEF TrackedWithinBudget
  <2>6. BeingStarted(r) \in Nat
    BY DEF BeingStarted
  <2> HIDE DEF Budget
  <2> QED
    BY <2>1, <2>2, <2>3, <2>4, <2>5, <2>6
<1> QED
  BY <1>1, BudgetHolds, PTL

LEMMA ReleaseHolds == Spec => [](Inv /\ SlotsHaveRelease)
<1>1. Init => SlotsHaveRelease
  BY DEF Init, SlotsHaveRelease
<1> QED
  BY <1>1, InvInit, InvStep, StepRelease, PTL DEF Spec

(* HandleJobCompleted has freed the job's slot when it returns, unless the    *)
(* runner's own goroutine had emptied the maps and is about to free it.       *)
THEOREM CompletionFrees == Spec => CompletionFreesSlot
<1>1. Inv /\ SlotsHaveRelease /\ [Next]_vars =>
        [\A r \in Repo : pc[r] = "release" /\ pc'[r] = "idle" =>
            target[r] \notin holds' \/ phase[target[r]] = "cleaned"]_vars
  <2> SUFFICES ASSUME Inv, SlotsHaveRelease, Next, NEW r \in Repo,
                      pc[r] = "release", pc'[r] = "idle"
               PROVE  target[r] \notin holds' \/ phase[target[r]] = "cleaned"
    OBVIOUS
  <2>1. JobCompletedRelease(r)
    <3> USE DEF Inv, TypeOK, Goto, EndCall
    <3>1. ASSUME NEW q \in Repo, Callback(q) \/ DesiredStep(q) \/ JobCompletedCancel(q)
          PROVE  FALSE
      BY <3>1 DEF Callback, DesiredBegin, JobStarted, JobCompletedUntrack, DesiredStep,
         DesiredSample, DesiredReturn, GenerateJit, GenerateJitFails, AcquireSlot,
         AcquireFails, Register, Launch, JobCompletedCancel
    <3>2. ASSUME NEW q \in Repo, JobCompletedRelease(q), q # r
          PROVE  FALSE
      BY <3>2 DEF JobCompletedRelease
    <3>3. ASSUME \/ \E n \in Name : RunnerStep(n) \/ CancelRunner(n)
                 \/ \E newMax \in Size : Resize(newMax)
                 \/ Shutdown
          PROVE  FALSE
      BY <3>3 DEF RunnerStep, WorkerReturns, CleanUp, RunnerEnds, CancelRunner, Resize,
         Shutdown
    <3> QED
      BY <3>1, <3>2, <3>3 DEF Next, CompletedStep
  <2>2. CASE "release" \in grabbed[r]
    BY <2>1, <2>2 DEF JobCompletedRelease, ReleaseOnce
  <2>3. CASE "release" \notin grabbed[r] /\ target[r] \in holds
    <3>1. RepoOf[target[r]] = r /\ target[r] \notin releases
      BY <2>1 DEF Inv, JobCompletedRelease, ListenerOwnsTarget, NamesOf, InCompleted
    <3>2. phase[target[r]] \notin {"starting", "running", "exited"}
      BY <2>1, <2>3, <3>1 DEF JobCompletedRelease, SlotsHaveRelease
    <3> QED
      BY <2>3, <3>2 DEF Inv, NoLeakedSlot
  <2>4. CASE "release" \notin grabbed[r] /\ target[r] \notin holds
    BY <2>1, <2>4 DEF JobCompletedRelease
  <2> QED
    BY <2>2, <2>3, <2>4
<1> QED
  BY <1>1, ReleaseHolds, PTL DEF Spec, CompletionFreesSlot

-----------------------------------------------------------------------------
(* What is left when everything has ended.  That it does end is a liveness    *)
(* property (ShutdownCompletes); what the end looks like, and that it is one, *)
(* follows from the invariant.                                                *)

(* Nobody works: each listener is between callbacks, each runner's goroutine  *)
(* has returned or never was.                                                 *)
Quiet ==
    /\ \A r \in Repo : pc[r] = "idle"
    /\ \A n \in Name : phase[n] \in {"unused", "wasted", "gone"}

NothingLeftBehind ==
    Quiet => /\ current = 0 /\ holds = {}
             /\ runners = {} /\ releases = {} /\ spawnedAt = {} /\ jobStartedAt = {}

(* After shutdown, with no slot held and no worker process.                   *)
Drained == ctxDone /\ holds = {} /\ Processes = {}

StaysDrained == [][Drained => Drained']_vars

(* When nobody works any more, the semaphore counts nothing and no map has an *)
(* entry: whatever callbacks, exits, recycling and failures went before, no   *)
(* slot is lost and no name is kept (scaler.go:230-267, 346-354).             *)
THEOREM NothingIsLeft == Spec => []NothingLeftBehind
<1>1. ASSUME Inv, Quiet
      PROVE  /\ current = 0 /\ holds = {}
             /\ runners = {} /\ releases = {} /\ spawnedAt = {} /\ jobStartedAt = {}
  <2>1. holds = {}
    BY <1>1 DEF Inv, TypeOK, NoLeakedSlot, Quiet
  <2>2. current = 0
    BY <1>1, <2>1, FS_EmptySet DEF Inv, SlotAccounting
  <2>3. releases = {} /\ spawnedAt = {} /\ runners = {} /\ jobStartedAt = {}
    BY <1>1, <2>1 DEF Inv, MapsAgree
  <2> QED
    BY <2>1, <2>2, <2>3
<1>2. Inv => NothingLeftBehind
  BY <1>1 DEF NothingLeftBehind
<1> QED
  BY <1>2, InvHolds, PTL

(* After shutdown nobody is granted a slot, and nobody who has none gets to   *)
(* start a process, although callbacks may still arrive.                      *)
LEMMA StepDrained ==
    ASSUME Inv, Drained, [Next]_vars
    PROVE  Drained'
<1> USE DEF Inv, TypeOK, Drained, Processes
<1>1. ASSUME NEW r \in Repo, DesiredStep(r) PROVE Drained'
  <2>1. ~ AcquireSlot(r)
    BY DEF AcquireSlot
  <2>2. ~ Launch(r)
    BY DEF Launch, ListenerOwnsTarget
  <2>3. DesiredSample(r) \/ DesiredReturn(r) \/ GenerateJitFails(r) \/ Register(r) => Drained'
    BY DEF DesiredSample, DesiredReturn, GenerateJitFails, Register
  <2>4. ~ \E n \in Name : GenerateJit(r, n)
    BY DEF GenerateJit
  <2>5. AcquireFails(r) => Drained'
    BY DEF AcquireFails
  <2> QED
    BY <1>1, <2>1, <2>2, <2>3, <2>4, <2>5 DEF DesiredStep
<1>2. ASSUME NEW r \in Repo, Callback(r) PROVE Drained'
  <2>1. UNCHANGED <<holds, phase, ctxDone>>
    BY <1>2 DEF Callback, DesiredBegin, JobStarted, JobCompletedUntrack
  <2> QED
    BY <2>1
<1>3. ASSUME NEW r \in Repo, CompletedStep(r) PROVE Drained'
  <2>1. JobCompletedCancel(r) => Drained'
    BY DEF JobCompletedCancel
  <2>2. JobCompletedRelease(r) => Drained'
    BY DEF JobCompletedRelease, ReleaseOnce
  <2> QED
    BY <1>3, <2>1, <2>2 DEF CompletedStep
<1>4. ASSUME NEW n \in Name, RunnerStep(n) PROVE Drained'
  <2>1. WorkerReturns(n) => Drained'
    BY DEF WorkerReturns
  <2>2. CleanUp(n) => Drained'
    BY DEF CleanUp
  <2>3. RunnerEnds(n) => Drained'
    BY DEF RunnerEnds, ReleaseOnce
  <2> QED
    BY <1>4, <2>1, <2>2, <2>3 DEF RunnerStep
<1>5. ASSUME \/ \E n \in Name : CancelRunner(n)
             \/ \E newMax \in Size : Resize(newMax)
             \/ Shutdown \/ UNCHANGED vars
      PROVE  Drained'
  BY <1>5 DEF CancelRunner, Resize, Shutdown
<1> QED
  BY <1>1, <1>2, <1>3, <1>4, <1>5 DEF Next

(* Once shutdown has drained the daemon it stays so, whatever callbacks still *)
(* arrive: the box in ShutdownDrains (Semaphore.Acquire and the loop of       *)
(* HandleDesiredRunnerCount, scaler.go:41-70, 147-162, 316).                  *)
THEOREM DrainedForGood == Spec => StaysDrained
<1>1. Inv /\ [Next]_vars => [Drained => Drained']_vars
  BY StepDrained
<1> QED
  BY <1>1, InvHolds, PTL DEF Spec, StaysDrained
=============================================================================
