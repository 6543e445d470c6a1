--------------------------- MODULE LazyInit_proofs --------------------------
(* Proofs about LazyInit, for any number of threads and tables, whether or *)
(* not a flag may be visible before what it guards.                        *)
EXTENDS LazyInit, TLAPS

(* Who is between lock and unlock holds the mutex.                         *)
MutexHeld == \A t \in Thread : pc[t] \in Critical => mutex[at[t]] = t

(* Who fills finds nothing there.                                          *)
FillsEmpty == \A t \in Thread : pc[t] = "fill" => contents[at[t]] = "empty"

(* What is there has its flag set, or the thread that filled it is about   *)
(* to set it.                                                              *)
ContentsFlagged ==
  \A l \in Lazy : contents[l] # "empty" =>
    initialized[l] \/ \E t \in Thread : at[t] = l /\ pc[t] = "publish"

(* A flag that is set says that it is filled, or is being filled.          *)
FlagTrue ==
  \A l \in Lazy : initialized[l] =>
    contents[l] # "empty" \/ \E t \in Thread : at[t] = l /\ pc[t] = "fill"

(* Who is past the flag saw it set or set it; with the mutex, after it was *)
(* filled.                                                                 *)
PastFlag ==
  \A t \in Thread :
    /\ pc[t] \in {"unlock", "use"} => initialized[at[t]]
    /\ pc[t] \in {"publish", "unlock"} => contents[at[t]] # "empty"

IInv == TypeOK /\ MutexHeld /\ FillsEmpty /\ ContentsFlagged /\ FlagTrue /\ PastFlag

LEMMA InitIInv == Init => IInv
BY LazyAssumption DEF Init, IInv, TypeOK, MutexHeld, FillsEmpty, ContentsFlagged, FlagTrue,
                      PastFlag, Critical, Lazy

(* Who has a mutex between lock and unlock has it alone.                   *)
LEMMA Alone ==
  ASSUME IInv, NEW t \in Thread, NEW u \in Thread, at[u] = at[t],
         pc[t] \in Critical, pc[u] \in Critical
  PROVE  u = t
BY DEF IInv, MutexHeld

(* One step per action; where a flag is set, whatever is filled has a      *)
(* thread that fills it.                                                   *)
LEMMA StepIInv ==
  ASSUME IInv, [Next]_vars
  PROVE  IInv'
<1> USE LazyAssumption
<1>1. CASE UNCHANGED vars
  BY <1>1 DEF vars, IInv, TypeOK, MutexHeld, FillsEmpty, ContentsFlagged, FlagTrue, PastFlag,
              Critical, Lazy
<1>2. ASSUME NEW t \in Thread, Load(t)
      PROVE  IInv'
  <2>1. TypeOK'
    BY <1>2 DEF IInv, TypeOK, Critical, Lazy, Go, Load
  <2>2. MutexHeld'
    BY <1>2 DEF IInv, TypeOK, Critical, Lazy, Go, Load, MutexHeld
  <2>3. FillsEmpty'
    BY <1>2 DEF IInv, TypeOK, Critical, Lazy, Go, Load, FillsEmpty
  <2>4. ContentsFlagged'
    BY <1>2 DEF IInv, TypeOK, Critical, Lazy, Go, Load, ContentsFlagged
  <2>5. FlagTrue'
    BY <1>2 DEF IInv, TypeOK, Critical, Lazy, Go, Load, FlagTrue
  <2>6. PastFlag'
    BY <1>2 DEF IInv, TypeOK, Critical, Lazy, Go, Load, PastFlag
  <2>7. QED
    BY <2>1, <2>2, <2>3, <2>4, <2>5, <2>6 DEF IInv
<1>3. ASSUME NEW t \in Thread, ReadFlag(t)
      PROVE  IInv'
  <2>1. CASE initialized[at[t]]
    <3>1. /\ pc[t] = "read" /\ pc' = [pc EXCEPT ![t] = "use"]
          /\ UNCHANGED <<at, initialized, contents, mutex, storesReordered>>
      BY <1>3, <2>1 DEF ReadFlag, Go
    <3>2. TypeOK'
      BY <2>1, <3>1 DEF IInv, TypeOK, Critical, Lazy
    <3>3. MutexHeld'
      BY <2>1, <3>1 DEF IInv, TypeOK, Critical, Lazy, MutexHeld
    <3>4. FillsEmpty'
      BY <2>1, <3>1 DEF IInv, TypeOK, Critical, Lazy, FillsEmpty
    <3>5. ContentsFlagged'
      BY <2>1, <3>1 DEF IInv, TypeOK, Critical, Lazy, ContentsFlagged
    <3>6. FlagTrue'
      BY <2>1, <3>1 DEF IInv, TypeOK, Critical, Lazy, FlagTrue
    <3>7. PastFlag'
      BY <2>1, <3>1 DEF IInv, TypeOK, Critical, Lazy, PastFlag
    <3>8. QED
      BY <3>2, <3>3, <3>4, <3>5, <3>6, <3>7 DEF IInv
  <2>2. CASE ~initialized[at[t]]
    <3>1. /\ pc[t] = "read" /\ pc' = [pc EXCEPT ![t] = "lock"]
          /\ UNCHANGED <<at, initialized, contents, mutex, storesReordered>>
      BY <1>3, <2>2 DEF ReadFlag, Go
    <3>2. TypeOK'
      BY <2>2, <3>1 DEF IInv, TypeOK, Critical, Lazy
    <3>3. MutexHeld'
      BY <2>2, <3>1 DEF IInv, TypeOK, Critical, Lazy, MutexHeld
    <3>4. FillsEmpty'
      BY <2>2, <3>1 DEF IInv, TypeOK, Critical, Lazy, FillsEmpty
    <3>5. ContentsFlagged'
      BY <2>2, <3>1 DEF IInv, TypeOK, Critical, Lazy, ContentsFlagged
    <3>6. FlagTrue'
      BY <2>2, <3>1 DEF IInv, TypeOK, Critical, Lazy, FlagTrue
    <3>7. PastFlag'
      BY <2>2, <3>1 DEF IInv, TypeOK, Critical, Lazy, PastFlag
    <3>8. QED
      BY <3>2, <3>3, <3>4, <3>5, <3>6, <3>7 DEF IInv
  <2>3. QED
    BY <2>1, <2>2
<1>4. ASSUME NEW t \in Thread, Lock(t)
      PROVE  IInv'
  <2>1. TypeOK'
    BY <1>4 DEF IInv, TypeOK, Critical, Lazy, Go, Lock
  <2>2. MutexHeld'
    BY <1>4 DEF IInv, TypeOK, Critical, Lazy, Go, Lock, MutexHeld
  <2>3. FillsEmpty'
    BY <1>4 DEF IInv, TypeOK, Critical, Lazy, Go, Lock, FillsEmpty
  <2>4. ContentsFlagged'
    BY <1>4 DEF IInv, TypeOK, Critical, Lazy, Go, Lock, ContentsFlagged
  <2>5. FlagTrue'
    BY <1>4 DEF IInv, TypeOK, Critical, Lazy, Go, Lock, FlagTrue
  <2>6. PastFlag'
    BY <1>4 DEF IInv, TypeOK, Critical, Lazy, Go, Lock, PastFlag
  <2>7. QED
    BY <2>1, <2>2, <2>3, <2>4, <2>5, <2>6 DEF IInv
<1>5. ASSUME NEW t \in Thread, LockThrows(t)
      PROVE  IInv'
  <2>1. TypeOK'
    BY <1>5 DEF IInv, TypeOK, Critical, Lazy, Go, LockThrows
  <2>2. MutexHeld'
    BY <1>5 DEF IInv, TypeOK, Critical, Lazy, Go, LockThrows, MutexHeld
  <2>3. FillsEmpty'
    BY <1>5 DEF IInv, TypeOK, Critical, Lazy, Go, LockThrows, FillsEmpty
  <2>4. ContentsFlagged'
    BY <1>5 DEF IInv, TypeOK, Critical, Lazy, Go, LockThrows, ContentsFlagged
  <2>5. FlagTrue'
    BY <1>5 DEF IInv, TypeOK, Critical, Lazy, Go, LockThrows, FlagTrue
  <2>6. PastFlag'
    BY <1>5 DEF IInv, TypeOK, Critical, Lazy, Go, LockThrows, PastFlag
  <2>7. QED
    BY <2>1, <2>2, <2>3, <2>4, <2>5, <2>6 DEF IInv
<1>6. ASSUME NEW t \in Thread, CheckAgain(t)
      PROVE  IInv'
  <2>1. CASE initialized[at[t]]
    <3>1. /\ pc[t] = "check" /\ pc' = [pc EXCEPT ![t] = "unlock"]
          /\ UNCHANGED <<at, initialized, contents, mutex, storesReordered>>
      BY <1>6, <2>1 DEF CheckAgain, Go
    <3>2. TypeOK'
      BY <2>1, <3>1 DEF IInv, TypeOK, Critical, Lazy
    <3>3. MutexHeld'
      BY <2>1, <3>1 DEF IInv, TypeOK, Critical, Lazy, MutexHeld
    <3>4. FillsEmpty'
      BY <2>1, <3>1 DEF IInv, TypeOK, Critical, Lazy, FillsEmpty
    <3>5. ContentsFlagged'
      BY <2>1, <3>1 DEF IInv, TypeOK, Critical, Lazy, ContentsFlagged
    <3>6. FlagTrue'
      BY <2>1, <3>1 DEF IInv, TypeOK, Critical, Lazy, FlagTrue
    <3>7. PastFlag'
      <4>1. ASSUME NEW u \in Thread, at[u] = at[t], pc[u] = "fill"
            PROVE  FALSE
        BY <3>1, <4>1, Alone DEF Critical
      <4>2. contents[at[t]] # "empty"
        BY <2>1, <4>1 DEF IInv, TypeOK, FlagTrue
      <4>3. QED
        BY <2>1, <3>1, <4>2 DEF IInv, TypeOK, PastFlag
    <3>8. QED
      BY <3>2, <3>3, <3>4, <3>5, <3>6, <3>7 DEF IInv
  <2>2. CASE ~initialized[at[t]]
    <3>1. /\ pc[t] = "check" /\ pc' = [pc EXCEPT ![t] = "fill"]
          /\ UNCHANGED <<at, initialized, contents, mutex, storesReordered>>
      BY <1>6, <2>2 DEF CheckAgain, Go
    <3>2. TypeOK'
      BY <2>2, <3>1 DEF IInv, TypeOK, Critical, Lazy
    <3>3. MutexHeld'
      BY <2>2, <3>1 DEF IInv, TypeOK, Critical, Lazy, MutexHeld
    <3>4. FillsEmpty'
      <4>1. ASSUME NEW u \in Thread, at[u] = at[t], pc[u] = "publish"
            PROVE  FALSE
        BY <3>1, <4>1, Alone DEF Critical
      <4>2. contents[at[t]] = "empty"
        BY <2>2, <4>1 DEF IInv, TypeOK, ContentsFlagged
      <4>3. QED
        BY <3>1, <4>2 DEF IInv, TypeOK, FillsEmpty
    <3>5. ContentsFlagged'
      BY <2>2, <3>1 DEF IInv, TypeOK, Critical, Lazy, ContentsFlagged
    <3>6. FlagTrue'
      BY <2>2, <3>1 DEF IInv, TypeOK, Critical, Lazy, FlagTrue
    <3>7. PastFlag'
      BY <2>2, <3>1 DEF IInv, TypeOK, Critical, Lazy, PastFlag
    <3>8. QED
      BY <3>2, <3>3, <3>4, <3>5, <3>6, <3>7 DEF IInv
  <2>3. QED
    BY <2>1, <2>2
<1>7. ASSUME NEW t \in Thread, Fill(t)
      PROVE  IInv'
  <2>1. TypeOK'
    BY <1>7 DEF IInv, TypeOK, Critical, Lazy, Go, Fill
  <2>2. MutexHeld'
    BY <1>7 DEF IInv, TypeOK, Critical, Lazy, Go, Fill, MutexHeld
  <2>3. FillsEmpty'
    BY <1>7, Alone DEF IInv, TypeOK, Critical, Lazy, Go, Fill, FillsEmpty, MutexHeld
  <2>4. ContentsFlagged'
    BY <1>7 DEF IInv, TypeOK, Critical, Lazy, Go, Fill, ContentsFlagged
  <2>5. FlagTrue'
    BY <1>7 DEF IInv, TypeOK, Critical, Lazy, Go, Fill, FlagTrue
  <2>6. PastFlag'
    BY <1>7 DEF IInv, TypeOK, Critical, Lazy, Go, Fill, PastFlag
  <2>7. QED
    BY <2>1, <2>2, <2>3, <2>4, <2>5, <2>6 DEF IInv
<1>8. ASSUME NEW t \in Thread, InitializeFails(t)
      PROVE  IInv'
  <2>1. TypeOK'
    BY <1>8 DEF IInv, TypeOK, Critical, Lazy, Go, InitializeFails
  <2>2. MutexHeld'
    BY <1>8 DEF IInv, TypeOK, Critical, Lazy, Go, InitializeFails, MutexHeld
  <2>3. FillsEmpty'
    BY <1>8 DEF IInv, TypeOK, Critical, Lazy, Go, InitializeFails, FillsEmpty
  <2>4. ContentsFlagged'
    BY <1>8 DEF IInv, TypeOK, Critical, Lazy, Go, InitializeFails, ContentsFlagged
  <2>5. FlagTrue'
    BY <1>8 DEF IInv, TypeOK, Critical, Lazy, Go, InitializeFails, FlagTrue
  <2>6. PastFlag'
    BY <1>8 DEF IInv, TypeOK, Critical, Lazy, Go, InitializeFails, PastFlag
  <2>7. QED
    BY <2>1, <2>2, <2>3, <2>4, <2>5, <2>6 DEF IInv
<1>9. ASSUME NEW t \in Thread, Publish(t)
      PROVE  IInv'
  <2>1. TypeOK'
    BY <1>9 DEF IInv, TypeOK, Critical, Lazy, Go, Publish
  <2>2. MutexHeld'
    BY <1>9 DEF IInv, TypeOK, Critical, Lazy, Go, Publish, MutexHeld
  <2>3. FillsEmpty'
    BY <1>9 DEF IInv, TypeOK, Critical, Lazy, Go, Publish, FillsEmpty
  <2>4. ContentsFlagged'
    BY <1>9 DEF IInv, TypeOK, Critical, Lazy, Go, Publish, ContentsFlagged
  <2>5. FlagTrue'
    BY <1>9 DEF IInv, TypeOK, Critical, Lazy, Go, Publish, FlagTrue, PastFlag
  <2>6. PastFlag'
    BY <1>9 DEF IInv, TypeOK, Critical, Lazy, Go, Publish, PastFlag
  <2>7. QED
    BY <2>1, <2>2, <2>3, <2>4, <2>5, <2>6 DEF IInv
<1>10. ASSUME NEW t \in Thread, Unlock(t)
      PROVE  IInv'
  <2>1. TypeOK'
    BY <1>10 DEF IInv, TypeOK, Critical, Lazy, Go, Unlock
  <2>2. MutexHeld'
    BY <1>10 DEF IInv, TypeOK, Critical, Lazy, Go, Unlock, MutexHeld
  <2>3. FillsEmpty'
    BY <1>10 DEF IInv, TypeOK, Critical, Lazy, Go, Unlock, FillsEmpty
  <2>4. ContentsFlagged'
    BY <1>10 DEF IInv, TypeOK, Critical, Lazy, Go, Unlock, ContentsFlagged
  <2>5. FlagTrue'
    BY <1>10 DEF IInv, TypeOK, Critical, Lazy, Go, Unlock, FlagTrue
  <2>6. PastFlag'
    BY <1>10 DEF IInv, TypeOK, Critical, Lazy, Go, Unlock, PastFlag
  <2>7. QED
    BY <2>1, <2>2, <2>3, <2>4, <2>5, <2>6 DEF IInv
<1>11. ASSUME NEW t \in Thread, Use(t)
      PROVE  IInv'
  <2>1. TypeOK'
    BY <1>11 DEF IInv, TypeOK, Critical, Lazy, Go, Use
  <2>2. MutexHeld'
    BY <1>11 DEF IInv, TypeOK, Critical, Lazy, Go, Use, MutexHeld
  <2>3. FillsEmpty'
    BY <1>11 DEF IInv, TypeOK, Critical, Lazy, Go, Use, FillsEmpty
  <2>4. ContentsFlagged'
    BY <1>11 DEF IInv, TypeOK, Critical, Lazy, Go, Use, ContentsFlagged
  <2>5. FlagTrue'
    BY <1>11 DEF IInv, TypeOK, Critical, Lazy, Go, Use, FlagTrue
  <2>6. PastFlag'
    BY <1>11 DEF IInv, TypeOK, Critical, Lazy, Go, Use, PastFlag
  <2>7. QED
    BY <2>1, <2>2, <2>3, <2>4, <2>5, <2>6 DEF IInv
<1>12. QED
  BY <1>1, <1>2, <1>3, <1>4, <1>5, <1>6, <1>7, <1>8, <1>9, <1>10, <1>11 DEF Next, Progress

(* The invariant, which the theorems follow from.                          *)
LEMMA Invariance == Spec => []IInv
<1>1. Init => IInv
  BY InitIInv
<1>2. IInv /\ [Next]_vars => IInv'
  BY StepIInv
<1>3. QED
  BY <1>1, <1>2, PTL DEF Spec

(* Whatever the build makes of the plain bools: who goes on past a flag    *)
(* and finds the library or a table not yet filled races with the one      *)
(* thread that holds the mutex and fills it; who went through the mutex    *)
(* finds it filled.                                                        *)
THEOREM IncompleteOnlyInRace == Spec => []RacesWithFiller
<1>1. IInv => RacesWithFiller
  <2> SUFFICES ASSUME IInv, NEW t \in Thread, pc[t] \in {"unlock", "use"},
                      contents[at[t]] = "empty"
               PROVE  /\ pc[t] = "use"
                      /\ \E u \in Thread :
                           at[u] = at[t] /\ pc[u] = "fill" /\ mutex[at[t]] = u
    BY DEF RacesWithFiller
  <2>1. pc[t] = "use" /\ initialized[at[t]] /\ at[t] \in Lazy
    BY DEF IInv, PastFlag, TypeOK
  <2>2. PICK u \in Thread : at[u] = at[t] /\ pc[u] = "fill"
    BY <2>1 DEF IInv, FlagTrue
  <2>3. mutex[at[t]] = u
    BY <2>2 DEF IInv, MutexHeld, Critical
  <2>4. QED
    BY <2>1, <2>2, <2>3
<1>2. QED
  BY <1>1, Invariance, PTL

(* In every build, the library is initialised and each table filled once,  *)
(* by one thread, while no other is between lock and unlock of its mutex.  *)
THEOREM FillIsExclusive == Spec => FilledOnce
<1>1. ASSUME IInv, NEW t \in Thread, Fill(t)
      PROVE  /\ contents[at[t]] = "empty"
             /\ \A u \in Thread \ {t} : at[u] = at[t] => pc[u] \notin Critical
  <2>1. pc[t] = "fill"
    BY <1>1 DEF Fill, Go
  <2>2. contents[at[t]] = "empty"
    BY <1>1, <2>1 DEF IInv, FillsEmpty
  <2>3. ASSUME NEW u \in Thread \ {t}, at[u] = at[t]
        PROVE  pc[u] \notin Critical
    BY <1>1, <2>1, <2>3, Alone DEF Critical
  <2>4. QED
    BY <2>2, <2>3
<1>2. IInv => [\A t \in Thread : Fill(t) =>
                /\ contents[at[t]] = "empty"
                /\ \A u \in Thread \ {t} : at[u] = at[t] => pc[u] \notin Critical]_vars
  BY <1>1
<1>3. QED
  BY <1>2, Invariance, PTL DEF FilledOnce
=============================================================================
