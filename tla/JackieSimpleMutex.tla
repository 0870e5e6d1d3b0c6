------------------------- MODULE JackieSimpleMutex -------------------------
(***************************************************************************)
(* JackieSimpleMutex, the pthread branch (JackieSimpleMutex.cpp).  A       *)
(* recursive lock is emulated on a plain pthread mutex with two fields,    *)
(* m_count and m_threadID, that Lock() reads before it holds anything.     *)
(* Every read or write of a shared field is a step of its own, so that the *)
(* steps of several threads interleave as they do in the program.          *)
(***************************************************************************)
EXTENDS Integers

CONSTANTS Threads,      \* threads that use the lock
          NoThread,     \* m_threadID = 0, and a pthread mutex nobody holds
          CountMod,     \* m_count is an unsigned int: it counts modulo this
          MaxNesting    \* bound: deepest nesting a caller of Lock() reaches

ASSUME ThreadsAssumption == NoThread \notin Threads
ASSUME CountModAssumption == CountMod \in Nat /\ CountMod > 1
ASSUME NestingAssumption == MaxNesting \in Nat /\ MaxNesting < CountMod

VARIABLES m_count,      \* unsigned int m_count
          m_threadID,   \* pthread_t m_threadID
          m_mutex,      \* holder of pthread_mutex_t m_mutex
          pc,           \* where each thread is in Lock() or Unlock()
          depth         \* Lock() calls each thread has still to undo

vars == <<m_count, m_threadID, m_mutex, pc, depth>>

LockPoints   == {"lock", "compare", "acquire", "count", "own"}
UnlockPoints == {"unlock", "last", "disown", "release"}
Points       == {"idle"} \cup LockPoints \cup UnlockPoints

\* ++m_count and --m_count of an unsigned int.
Inc(n) == IF n + 1 = CountMod THEN 0 ELSE n + 1
Dec(n) == IF n = 0 THEN CountMod - 1 ELSE n - 1

Init == /\ m_count = 0
        /\ m_threadID = NoThread
        /\ m_mutex = NoThread
        /\ pc = [t \in Threads |-> "idle"]
        /\ depth = [t \in Threads |-> 0]

Goto(t, point) == pc' = [pc EXCEPT ![t] = point]

----------------------------------------------------------------------------
\* Lock()

CallLock(t) == /\ pc[t] = "idle"
               /\ depth[t] < MaxNesting
               /\ Goto(t, "lock")
               /\ UNCHANGED <<m_count, m_threadID, m_mutex, depth>>

\* Mutant: one level counts as none.
ReadCountOffByOne(t) ==
  /\ pc[t] = "lock"
  /\ Goto(t, IF m_count > 1 THEN "compare" ELSE "acquire")
  /\ UNCHANGED <<m_count, m_threadID, m_mutex, depth>>

\* if ( m_count && ...
ReadCount(t) == /\ pc[t] = "lock"
                /\ Goto(t, IF m_count # 0 THEN "compare" ELSE "acquire")
                /\ UNCHANGED <<m_count, m_threadID, m_mutex, depth>>

\* Mutant: whoever finds the lock taken re-enters it.
ReenterAnyone(t) == /\ pc[t] = "compare"
                    /\ m_count' = Inc(m_count)
                    /\ depth' = [depth EXCEPT ![t] = @ + 1]
                    /\ Goto(t, "idle")
                    /\ UNCHANGED <<m_threadID, m_mutex>>

\* ... m_threadID == pthread_self() ) { ++m_count; return; }
Reenter(t) == /\ pc[t] = "compare"
              /\ m_threadID = t
              /\ m_count' = Inc(m_count)
              /\ depth' = [depth EXCEPT ![t] = @ + 1]
              /\ Goto(t, "idle")
              /\ UNCHANGED <<m_threadID, m_mutex>>

NotOwner(t) == /\ pc[t] = "compare"
               /\ m_threadID # t
               /\ Goto(t, "acquire")
               /\ UNCHANGED <<m_count, m_threadID, m_mutex, depth>>

\* pthread_mutex_lock: waits while somebody, this thread included, holds it.
Acquire(t) == /\ pc[t] = "acquire"
              /\ m_mutex = NoThread
              /\ m_mutex' = t
              /\ Goto(t, "count")
              /\ UNCHANGED <<m_count, m_threadID, depth>>

CountFirst(t) == /\ pc[t] = "count"
                 /\ m_count' = Inc(m_count)
                 /\ Goto(t, "own")
                 /\ UNCHANGED <<m_threadID, m_mutex, depth>>

\* Mutant: the wrong field is stored.
OwnStoresCount(t) == /\ pc[t] = "own"
                     /\ m_threadID' = m_count
                     /\ depth' = [depth EXCEPT ![t] = @ + 1]
                     /\ Goto(t, "idle")
                     /\ UNCHANGED <<m_count, m_mutex>>

Own(t) == /\ pc[t] = "own"
          /\ m_threadID' = t
          /\ depth' = [depth EXCEPT ![t] = @ + 1]
          /\ Goto(t, "idle")
          /\ UNCHANGED <<m_count, m_mutex>>

----------------------------------------------------------------------------
\* Unlock()

CallUnlock(t) == /\ pc[t] = "idle"
                 /\ Goto(t, "unlock")
                 /\ UNCHANGED <<m_count, m_threadID, m_mutex, depth>>

\* The caller's account of the Lock() calls it has still to undo.
Undone(t) == IF depth[t] > 0 THEN depth[t] - 1 ELSE 0

\* Mutant: a nested Unlock() does not count.
LeaveKeepsCount(t) == /\ pc[t] = "unlock"
                      /\ m_count > 1
                      /\ depth' = [depth EXCEPT ![t] = Undone(t)]
                      /\ Goto(t, "idle")
                      /\ UNCHANGED <<m_count, m_threadID, m_mutex>>

\* if ( m_count > 1 ) { m_count--; return ; }
Leave(t) == /\ pc[t] = "unlock"
            /\ m_count > 1
            /\ m_count' = Dec(m_count)
            /\ depth' = [depth EXCEPT ![t] = Undone(t)]
            /\ Goto(t, "idle")
            /\ UNCHANGED <<m_threadID, m_mutex>>

LastLevel(t) == /\ pc[t] = "unlock"
                /\ ~(m_count > 1)
                /\ Goto(t, "last")
                /\ UNCHANGED <<m_count, m_threadID, m_mutex, depth>>

\* Mutant: the last Unlock() does not count.
CountLastKeepsCount(t) == /\ pc[t] = "last"
                          /\ Goto(t, "disown")
                          /\ UNCHANGED <<m_count, m_threadID, m_mutex, depth>>

CountLast(t) == /\ pc[t] = "last"
                /\ m_count' = Dec(m_count)
                /\ Goto(t, "disown")
                /\ UNCHANGED <<m_threadID, m_mutex, depth>>

\* Mutant: m_threadID goes on naming the thread that left.
DisownForgotten(t) == /\ pc[t] = "disown"
                      /\ Goto(t, "release")
                      /\ UNCHANGED <<m_count, m_threadID, m_mutex, depth>>

Disown(t) == /\ pc[t] = "disown"
             /\ m_threadID' = NoThread
             /\ Goto(t, "release")
             /\ UNCHANGED <<m_count, m_mutex, depth>>

\* pthread_mutex_unlock: a default mutex does not ask who calls it.
Release(t) == /\ pc[t] = "release"
              /\ m_mutex' = NoThread
              /\ depth' = [depth EXCEPT ![t] = Undone(t)]
              /\ Goto(t, "idle")
              /\ UNCHANGED <<m_count, m_threadID>>

----------------------------------------------------------------------------
InLock(t) == ReadCount(t) \/ Reenter(t) \/ NotOwner(t) \/ CountFirst(t) \/ Own(t)

InUnlock(t) == \/ Leave(t) \/ LastLevel(t) \/ CountLast(t)
               \/ Disown(t) \/ Release(t)

\* A step inside a call, which no caller can postpone.
Inside(t) == InLock(t) \/ Acquire(t) \/ InUnlock(t)

\* A caller that undoes only what it did.
MatchedUnlock(t) == depth[t] > 0 /\ CallUnlock(t)

Next == \E t \in Threads : CallLock(t) \/ MatchedUnlock(t) \/ Inside(t)

Spec == Init /\ [][Next]_vars

\* Steps inside a call are the scheduler's; leaving a level is the caller's, and
\* every section the program guards with this lock is a finite loop.
Fairness == \A t \in Threads :
               /\ WF_vars(Inside(t))
               /\ \A k \in 1 .. MaxNesting :
                     SF_vars(depth[t] = k /\ MatchedUnlock(t))

FairSpec == Spec /\ Fairness

----------------------------------------------------------------------------
TypeOK == /\ m_count \in 0 .. (CountMod - 1)
          /\ m_threadID \in Threads \cup {NoThread}
          /\ m_mutex \in Threads \cup {NoThread}
          /\ pc \in [Threads -> Points]
          /\ depth \in [Threads -> Nat]

Holds(t) == depth[t] > 0

\* Two threads are never both between the return of their outermost Lock() and
\* the return of the matching Unlock(), although Lock() decides from fields it
\* reads without holding the pthread mutex.
MutualExclusion == \A t, u \in Threads : Holds(t) /\ Holds(u) => t = u

\* Whoever is not in the middle of a call holds the lock exactly as deep as
\* m_count says, and m_threadID names it: an Unlock() leaves the last level
\* when, and only when, it undoes the outermost Lock().
CountIsDepth ==
  \A t \in Threads :
     pc[t] \in {"idle", "unlock"} /\ Holds(t) =>
        m_count = depth[t] /\ m_threadID = t /\ m_mutex = t

\* A nested Lock() never waits for the pthread mutex its own thread holds
\* (the comment "avoid deadlock" in Lock()).
NoSelfDeadlock == \A t \in Threads : pc[t] = "acquire" => m_mutex # t

\* A thread is never sent past the pthread mutex by the m_threadID another
\* thread, or an earlier section of its own, left behind: only the holder
\* re-enters.
OnlyHolderReenters ==
  [][\A t \in Threads : Reenter(t) => m_mutex = t /\ Holds(t)]_vars

\* The pthread mutex is handed back again and again: no interleaving of nested
\* calls leaves it held for good.
AlwaysReleased == []<>(m_mutex = NoThread)

============================================================================
