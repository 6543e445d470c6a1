------------------------------ MODULE LazyInit ------------------------------
(* Threads that call load() at the same time share what is set up on first *)
(* use: the Xerces library, the node types and the tables of the element   *)
(* parsers.  Each has a plain bool, read without a lock and again under a  *)
(* mutex of its own.  lock_guard releases the mutexes of the tables;       *)
(* initXerces locks and unlocks its mutex by hand.                         *)
EXTENDS Naturals

CONSTANTS Thread,          \* threads that call load()
          NoThread,        \* holder of a free mutex
          Table            \* tables of typeIDs the element parsers keep

Lazy == {"xerces", "nodes"} \cup Table

ASSUME LazyAssumption ==
  /\ NoThread \notin Thread
  /\ {"xerces", "nodes"} \cap Table = {}

VARIABLES pc,           \* where each thread is in load()
          at,           \* what it needs there, an element of Lazy
          initialized,  \* the flags
          contents,     \* "empty", "full", or "wrong": made of incomplete nodes
          mutex,        \* the holder of each mutex
          storesReordered  \* a flag may be visible before all of what it
                           \* guards: plain bools leave that to the build

vars == <<pc, at, initialized, contents, mutex, storesReordered>>

Init ==
  /\ pc = [t \in Thread |-> "idle"]
  /\ at = [t \in Thread |-> "xerces"]
  /\ initialized = [l \in Lazy |-> FALSE]
  /\ contents = [l \in Lazy |-> "empty"]
  /\ mutex = [l \in Lazy |-> NoThread]
  /\ storesReordered \in BOOLEAN

Go(t, from, to) ==
  /\ pc[t] = from
  /\ pc' = [pc EXCEPT ![t] = to]
  /\ UNCHANGED storesReordered

-----------------------------------------------------------------------------
(* load() first calls initXerces.                                          *)
Load(t) ==
  /\ Go(t, "idle", "read")
  /\ at' = [at EXCEPT ![t] = "xerces"]
  /\ UNCHANGED <<initialized, contents, mutex>>

(* The fast path: the flag is read without the mutex.                      *)
ReadFlag(t) ==
  /\ Go(t, "read", IF initialized[at[t]] THEN "use" ELSE "lock")
  /\ UNCHANGED <<at, initialized, contents, mutex>>

(* A thread that waits for a mutex waits until its holder unlocks it.      *)
Lock(t) ==
  /\ mutex[at[t]] = NoThread
  /\ Go(t, "lock", "check")
  /\ mutex' = [mutex EXCEPT ![at[t]] = t]
  /\ UNCHANGED <<at, initialized, contents>>

(* A thread that failed before locks a mutex it holds: undefined; a mutex  *)
(* that notices throws out of load(), others block.                        *)
LockThrows(t) ==
  /\ mutex[at[t]] = t
  /\ Go(t, "lock", "idle")
  /\ UNCHANGED <<at, initialized, contents, mutex>>

CheckOnlyOnce(t) ==  \* mutant: the flag is not read again under the mutex
  /\ Go(t, "check", "fill")
  /\ UNCHANGED <<at, initialized, contents, mutex>>

(* The flag is read again under the mutex.                                 *)
CheckAgain(t) ==
  /\ Go(t, "check", IF initialized[at[t]] THEN "unlock" ELSE "fill")
  /\ UNCHANGED <<at, initialized, contents, mutex>>

(* XMLPlatformUtils::Initialize, the INITIALIZE_NODEs, or inserting the    *)
(* typeIDs of nodes, which are what the thread finds in them.              *)
Fill(t) ==
  /\ Go(t, "fill", "publish")
  /\ contents' = [contents EXCEPT ![at[t]] =
                    IF at[t] \in Table /\ contents["nodes"] # "full" THEN "wrong" ELSE "full"]
  /\ UNCHANGED <<at, initialized, mutex>>

InitializeFailsFlagged(t) ==  \* mutant: the flag is set before Initialize is called
  /\ at[t] = "xerces"
  /\ ~initialized["xerces"]
  /\ Go(t, "fill", "idle")
  /\ initialized' = [initialized EXCEPT !["xerces"] = TRUE]
  /\ UNCHANGED <<at, contents, mutex>>

(* Initialize throws; load() returns nullptr without unlocking the mutex.  *)
(* The store to the flag is reached only when Initialize returns.          *)
InitializeFails(t) ==
  /\ at[t] = "xerces"
  /\ ~initialized["xerces"]
  /\ Go(t, "fill", "idle")
  /\ UNCHANGED <<at, initialized, contents, mutex>>

PublishEarly(t) ==  \* mutant: the flag is set before the table is filled
  /\ pc[t] \in {"fill", "publish"}
  /\ pc' = [pc EXCEPT ![t] = IF @ = "publish" THEN "unlock" ELSE @]
  /\ initialized' = [initialized EXCEPT ![at[t]] = TRUE]
  /\ UNCHANGED <<at, contents, mutex, storesReordered>>

(* The flag is set; where stores are reordered, other threads may see it   *)
(* set before they see all that Fill has written.                          *)
Publish(t) ==
  /\ pc[t] \in IF storesReordered THEN {"fill", "publish"} ELSE {"publish"}
  /\ pc' = [pc EXCEPT ![t] = IF @ = "publish" THEN "unlock" ELSE @]
  /\ initialized' = [initialized EXCEPT ![at[t]] = TRUE]
  /\ UNCHANGED <<at, contents, mutex, storesReordered>>

UnlockForgotten(t) ==  \* mutant: a return that keeps the mutex
  /\ Go(t, "unlock", "use")
  /\ UNCHANGED <<at, initialized, contents, mutex>>

Unlock(t) ==
  /\ Go(t, "unlock", "use")
  /\ mutex' = [mutex EXCEPT ![at[t]] = NoThread]
  /\ UNCHANGED <<at, initialized, contents>>

(* Use what at[t] names, and go on: a tag's node is looked up first, then  *)
(* the parsers look at their tables; the last tag ends the load.           *)
Use(t) ==
  \/ /\ Go(t, "use", "read")
     /\ \E l \in IF at[t] = "xerces" THEN {"nodes"} ELSE {"nodes"} \cup Table :
          at' = [at EXCEPT ![t] = l]
     /\ UNCHANGED <<initialized, contents, mutex>>
  \/ /\ at[t] # "xerces"
     /\ Go(t, "use", "idle")
     /\ UNCHANGED <<at, initialized, contents, mutex>>

Progress(t) ==
  \/ ReadFlag(t) \/ Lock(t) \/ CheckAgain(t) \/ Fill(t)
  \/ Publish(t) \/ Unlock(t) \/ Use(t)

Next == \E t \in Thread :
  Load(t) \/ Progress(t) \/ LockThrows(t) \/ InitializeFails(t)

(* Threads are scheduled; nobody has to call load(), nor does Initialize   *)
(* have to fail.                                                           *)
Spec == Init /\ [][Next]_vars /\ \A t \in Thread : WF_vars(Progress(t))

-----------------------------------------------------------------------------
TypeOK ==
  /\ pc \in [Thread -> {"idle", "read", "lock", "check", "fill", "publish", "unlock", "use"}]
  /\ at \in [Thread -> Lazy]
  /\ initialized \in [Lazy -> BOOLEAN]
  /\ contents \in [Lazy -> {"empty", "full", "wrong"}]
  /\ mutex \in [Lazy -> Thread \cup {NoThread}]
  /\ storesReordered \in BOOLEAN

Critical == {"check", "fill", "publish", "unlock"}

(* A thread that goes on past the flag finds what it guards complete, made *)
(* of complete nodes: with or without the mutex (initXerces,               *)
(* initializeNodeTypes and the tables of the element parsers), in builds   *)
(* that show the flag only after what it guards.                           *)
UsedWhenFull ==
  ~storesReordered => \A t \in Thread : pc[t] = "use" => contents[at[t]] = "full"

(* Whatever the build makes of the plain bools, a thread that goes on past *)
(* a flag and finds something incomplete came without the mutex, and races *)
(* with the one thread that holds it and is still filling: who had to wait *)
(* for the mutex finds it filled, and nobody is sent to something that     *)
(* nobody fills (an Initialize that threw).                                *)
RacesWithFiller ==
  \A t \in Thread : pc[t] \in {"unlock", "use"} /\ contents[at[t]] = "empty" =>
    /\ pc[t] = "use"
    /\ \E u \in Thread : at[u] = at[t] /\ pc[u] = "fill" /\ mutex[at[t]] = u

(* initializeNodeTypes is to skip the lock "when the node types are        *)
(* already intialized": a thread that reads the flag and goes on without   *)
(* the mutex finds all of the nodes there. Not so where the flag is        *)
(* visible before them.                                                    *)
LockSkippedWhenInitialized ==
  [][\A t \in Thread : ReadFlag(t) /\ at[t] = "nodes" /\ pc'[t] = "use" =>
       contents["nodes"] = "full"]_vars

(* The library is initialised and each table filled once, by one thread,   *)
(* while no other is between lock and unlock of the same mutex.            *)
FilledOnce ==
  [][\A t \in Thread : Fill(t) =>
       /\ contents[at[t]] = "empty"
       /\ \A u \in Thread \ {t} : at[u] = at[t] => pc[u] \notin Critical]_vars

(* A failed initialisation of Xerces left its mutex locked.                *)
Abandoned ==
  LET holder == mutex["xerces"] IN
  /\ holder # NoThread /\ ~initialized["xerces"]
  /\ ~(at[holder] = "xerces" /\ pc[holder] \in Critical)

(* A thread that waits for a mutex gets it, unless a failed initialisation *)
(* left it locked (initXerces).                                            *)
WaitsEnd ==
  \A t \in Thread : pc[t] = "lock" ~> (pc[t] # "lock" \/ (at[t] = "xerces" /\ Abandoned))

(* A thread that waits for another one's mutex gets to "Check              *)
(* xerces_initialized again... it could have changed while waiting for the *)
(* mutex" (initXerces). Not so when Initialize throws in the other one.    *)
FlagCheckedAgain ==
  \A t \in Thread : (pc[t] = "lock" /\ mutex[at[t]] # t) ~> pc[t] = "check"
=============================================================================
