---------------------- MODULE JackieSimpleMutexProofs ----------------------
(***************************************************************************)
(* Mutual exclusion of JackieSimpleMutex for any number of threads, any    *)
(* width of m_count and any depth of nesting the width can count.          *)
(***************************************************************************)
EXTENDS JackieSimpleMutex, TLAPS

\* Between pthread_mutex_lock and pthread_mutex_unlock.
Owns(t) == Holds(t) \/ pc[t] \in {"count", "own"}

\* What m_count and m_threadID are while thread t owns the pthread mutex and
\* stands at each point of Lock() or Unlock().
OwnerView(t) ==
  /\ pc[t] # "acquire"
  /\ pc[t] \in {"count", "own"} =>
        depth[t] = 0 /\ m_threadID = NoThread
  /\ pc[t] = "count" => m_count = 0
  /\ pc[t] = "own" => m_count = 1
  /\ pc[t] \in {"idle", "lock", "compare", "unlock"} =>
        m_count = depth[t] /\ m_threadID = t
  /\ pc[t] \in {"last", "disown", "release"} => depth[t] = 1
  /\ pc[t] = "last" => m_count = 1 /\ m_threadID = t
  /\ pc[t] = "disown" => m_count = 0 /\ m_threadID = t
  /\ pc[t] = "release" => m_count = 0 /\ m_threadID = NoThread

\* The strengthening: owning, in the sense of the program counters, is owning
\* the pthread mutex, and the fields agree with the owner's position.
Ownership == /\ \A t \in Threads : Owns(t) <=> m_mutex = t
             /\ \A t \in Threads : depth[t] <= MaxNesting
             /\ \A t \in Threads : pc[t] \in LockPoints => depth[t] < MaxNesting
             /\ \A t \in Threads : pc[t] \in UnlockPoints => Holds(t)
             /\ m_mutex = NoThread => m_count = 0 /\ m_threadID = NoThread
             /\ \A t \in Threads : m_mutex = t => OwnerView(t)

IInv == TypeOK /\ Ownership

USE ThreadsAssumption, CountModAssumption, NestingAssumption

\* A lock just constructed satisfies the strengthening.
LEMMA InitIInv == Init => IInv
  BY DEF Init, IInv, TypeOK, Ownership, Owns, Holds, OwnerView, Points, LockPoints, UnlockPoints

\* Every step of Lock(), of Unlock() and of a caller that undoes only what it
\* did keeps it: one step of the proof for each read or write of the code.
LEMMA NextIInv == IInv /\ [Next]_vars => IInv'
<1> SUFFICES ASSUME IInv, [Next]_vars PROVE IInv'
  OBVIOUS
<1> USE DEF IInv, TypeOK, Ownership, Owns, Holds, OwnerView, Points, LockPoints, UnlockPoints, Goto
<1>1. CASE UNCHANGED vars
  BY <1>1 DEF vars
<1>2. ASSUME NEW t \in Threads, CallLock(t) PROVE IInv'
  BY <1>2 DEF CallLock
<1>3. ASSUME NEW t \in Threads, MatchedUnlock(t) PROVE IInv'
  BY <1>3 DEF MatchedUnlock, CallUnlock
<1>4. ASSUME NEW t \in Threads, ReadCount(t) PROVE IInv'
  BY <1>4 DEF ReadCount
<1>5. ASSUME NEW t \in Threads, Reenter(t) PROVE IInv'
  BY <1>5 DEF Reenter, Inc
<1>6. ASSUME NEW t \in Threads, NotOwner(t) PROVE IInv'
  BY <1>6 DEF NotOwner
<1>7. ASSUME NEW t \in Threads, Acquire(t) PROVE IInv'
  BY <1>7 DEF Acquire
<1>8. ASSUME NEW t \in Threads, CountFirst(t) PROVE IInv'
  BY <1>8 DEF CountFirst, Inc
<1>9. ASSUME NEW t \in Threads, Own(t) PROVE IInv'
  BY <1>9 DEF Own
<1>10. ASSUME NEW t \in Threads, Leave(t) PROVE IInv'
  BY <1>10 DEF Leave, Dec, Undone
<1>11. ASSUME NEW t \in Threads, LastLevel(t) PROVE IInv'
  BY <1>11 DEF LastLevel
<1>12. ASSUME NEW t \in Threads, CountLast(t) PROVE IInv'
  BY <1>12 DEF CountLast, Dec
<1>13. ASSUME NEW t \in Threads, Disown(t) PROVE IInv'
  BY <1>13 DEF Disown
<1>14. ASSUME NEW t \in Threads, Release(t) PROVE IInv'
  BY <1>14 DEF Release, Undone
<1> QED
  BY <1>1, <1>2, <1>3, <1>4, <1>5, <1>6, <1>7, <1>8, <1>9, <1>10, <1>11,
     <1>12, <1>13, <1>14 DEF Next, Inside, InLock, InUnlock

\* So it holds at every moment of every run.
LEMMA InductiveInvariant == Spec => []IInv
  BY InitIInv, NextIInv, PTL DEF Spec

\* The fields keep the types the code gives them: in particular m_count never
\* wraps while every Unlock() undoes a Lock().
THEOREM TypeCorrect == Spec => []TypeOK
<1>1. IInv => TypeOK
  BY DEF IInv
<1> QED
  BY <1>1, InductiveInvariant, PTL

\* Lock() excludes, whatever the number of threads and the interleaving of its
\* unprotected reads.
THEOREM ExclusiveLock == Spec => []MutualExclusion
<1>1. IInv => MutualExclusion
  BY DEF IInv, TypeOK, Ownership, Owns, MutualExclusion
<1> QED
  BY <1>1, InductiveInvariant, PTL

\* m_count and m_threadID tell the holder's nesting.
THEOREM CountTellsDepth == Spec => []CountIsDepth
<1>1. IInv => CountIsDepth
  BY DEF IInv, TypeOK, Ownership, Owns, Holds, OwnerView, UnlockPoints, CountIsDepth
<1> QED
  BY <1>1, InductiveInvariant, PTL

\* The emulation of recursion does what it is for: no thread waits for itself.
THEOREM NoThreadWaitsForItself == Spec => []NoSelfDeadlock
<1>1. IInv => NoSelfDeadlock
  BY DEF IInv, TypeOK, Ownership, OwnerView, NoSelfDeadlock
<1> QED
  BY <1>1, InductiveInvariant, PTL

\* Only the holder of the pthread mutex takes the early return of Lock().
THEOREM ReentryIsTheHolders == Spec => OnlyHolderReenters
<1>1. ASSUME IInv, NEW t \in Threads, Reenter(t)
      PROVE  m_mutex = t /\ Holds(t)
  <2>1. m_threadID = t /\ pc[t] = "compare"
    BY <1>1 DEF Reenter
  <2>2. PICK u \in Threads : m_mutex = u
    BY <1>1, <2>1 DEF IInv, TypeOK, Ownership
  <2>3. OwnerView(u)
    BY <1>1, <2>2 DEF IInv, Ownership
  <2>4. m_threadID \in {u, NoThread}
    BY <1>1, <2>3 DEF IInv, TypeOK, OwnerView, Points, LockPoints, UnlockPoints
  <2>5. u = t
    BY <2>1, <2>4
  <2> QED
    BY <1>1, <2>1, <2>2, <2>5 DEF IInv, Ownership, Owns
<1>2. IInv /\ [Next]_vars
        => [\A t \in Threads : Reenter(t) => m_mutex = t /\ Holds(t)]_vars
  BY <1>1
<1> QED
  BY <1>2, InductiveInvariant, PTL DEF Spec, OnlyHolderReenters
============================================================================
