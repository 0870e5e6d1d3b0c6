---------------------- MODULE ConnectionRequestsProofs ----------------------
(***************************************************************************)
(* The connecting side for any number of targets, every attemptTimes of at *)
(* least three, every width of the counter and both builds: types, the     *)
(* limit of the tries, no silent end, failures that are final, and packets *)
(* that only shrink.  The argument: a step leaves the queue alone, posts   *)
(* an attempt for a target without one, drops attempts of one target, or   *)
(* amends one attempt (QueueStep); what each handler knows of the attempt  *)
(* it works on while the lock is free is Answered; Accounts says that no   *)
(* step drops an attempt or takes back a notice without another account;   *)
(* Final, what is pending apart from what is requested or told to be over. *)
(*                                                                         *)
(* And the lock: the network thread's section is open exactly at the       *)
(* places NetLocks names (NetSection); for one target the queue is         *)
(* guarded, although m_count drifts, since the calls of Unlock() that undo *)
(* nothing meet nobody (Guarded).                                          *)
(***************************************************************************)
EXTENDS ConnectionRequests, FiniteSetTheorems, SequenceTheorems, TLAPS

LEMMA ByteTyped ==
  ASSUME NEW n \in Nat
  PROVE  /\ Byte(n) \in 0 .. (ByteMod - 1) /\ Byte(n) <= n
         /\ n < ByteMod => Byte(n) = n
<1>1. n % ByteMod \in 0 .. (ByteMod - 1)
  BY BytesAssumption
<1>2. n = ByteMod * (n \div ByteMod) + (n % ByteMod) /\ n \div ByteMod \in Nat
  BY BytesAssumption, SMTT(30)
<1>. QED BY <1>1, <1>2, BytesAssumption, SMTT(30) DEF Byte

LEMMA QuotientBounds ==
  ASSUME NEW T \in Nat \ {0}, NEW n \in Nat
  PROVE  /\ n \div T \in Nat
         /\ n >= 3 * T => n \div T >= 3
         /\ n >= 2 * T => n \div T >= 2
         /\ n >= T => n \div T >= 1
         /\ n < T => n \div T = 0
         /\ n < 2 * T => n \div T <= 1
         /\ n < 3 * T => n \div T <= 2
BY SMTT(60)

LEMMA Sizes ==
  /\ TriesPerSize \in Nat \ {0} /\ LowestMtu = 2 * TriesPerSize
  /\ 3 * TriesPerSize <= Times
BY TimesAssumption, SMTT(30) DEF TriesPerSize, LowestMtu, mtuSizesCount

LEMMA MtuIndex ==
  ASSUME NEW made \in Nat
  PROVE  /\ MTUSizeIndex(made) \in 0 .. 2
         /\ made >= 2 * TriesPerSize => MTUSizeIndex(made) = 2
         /\ made >= TriesPerSize => MTUSizeIndex(made) >= 1
<1> DEFINE d == made \div TriesPerSize
<1>1. /\ d \in Nat
      /\ made >= 2 * TriesPerSize => d >= 2
      /\ made >= TriesPerSize => d >= 1
  BY QuotientBounds, Sizes
<1>2. MTUSizeIndex(made) = IF d >= 3 THEN 2 ELSE d
  BY DEF MTUSizeIndex, mtuSizesCount
<1> HIDE DEF d
<1>. QED BY <1>1, <1>2

LEMMA OneMore ==
  ASSUME NEW made \in Nat
  PROVE  MTUSizeIndex(made + 1) >= MTUSizeIndex(made)
<1>1. CASE made >= 2 * TriesPerSize
  BY <1>1, MtuIndex, Sizes
<1>2. CASE made < 2 * TriesPerSize /\ made >= TriesPerSize
  <2>1. MTUSizeIndex(made) <= 1
    BY <1>2, QuotientBounds, Sizes DEF MTUSizeIndex, mtuSizesCount
  <2>. QED BY <2>1, <1>2, MtuIndex, Sizes
<1>3. CASE made < TriesPerSize
  <2>1. MTUSizeIndex(made) = 0
    BY <1>3, QuotientBounds, Sizes DEF MTUSizeIndex, mtuSizesCount
  <2>. QED BY <2>1, MtuIndex
<1>. QED BY <1>1, <1>2, <1>3, Sizes

Lowers(made, after) == /\ after \in 0 .. (ByteMod - 1) /\ after <= Times + 1
                       /\ Times + 1 < ByteMod => MTUSizeIndex(after) >= MTUSizeIndex(made)

LEMMA Stored ==
  ASSUME NEW made \in Nat, NEW n \in Nat, n <= Times + 1,
         MTUSizeIndex(n) >= MTUSizeIndex(made)
  PROVE  Lowers(made, Byte(n))
<1>1. Byte(n) \in 0 .. (ByteMod - 1) /\ Byte(n) <= n /\ (n < ByteMod => Byte(n) = n)
  BY ByteTyped
<1>2. CASE n < ByteMod
  BY <1>1, <1>2, TimesAssumption DEF Lowers
<1>3. CASE ~ (n < ByteMod)
  BY <1>1, <1>3, TimesAssumption, BytesAssumption DEF Lowers
<1>. QED BY <1>2, <1>3

\* A try that is not the last leaves the counter at most at its limit, and, if the limit fits
\* into the counter, never at a number of tries whose packets are larger.
LEMMA TryBounds ==
  ASSUME NEW made \in 0 .. Times, NEW result \in SendResults
  PROVE  Lowers(made, MadeAfter(made, result))
<1> USE TimesAssumption
<1>1. CASE result = "sent"
  <2>1. MadeAfter(made, result) = Byte(made + 1)
    BY <1>1 DEF MadeAfter
  <2>. QED BY <2>1, Stored, OneMore
<1>2. CASE result = "too_big"
  <2> DEFINE n == (MTUSizeIndex(made) + 1) * TriesPerSize
  <2>1. MadeAfter(made, result) = Byte(n)
    BY <1>2 DEF MadeAfter
  <2>2. MTUSizeIndex(made) \in 0 .. 2
    BY MtuIndex
  <2>3. /\ MTUSizeIndex(made) = 0 => n = TriesPerSize
        /\ MTUSizeIndex(made) = 1 => n = 2 * TriesPerSize
        /\ MTUSizeIndex(made) = 2 => n = 3 * TriesPerSize
    BY Sizes
  <2> HIDE DEF n
  <2>4. n \in Nat /\ n <= Times /\ MTUSizeIndex(n) >= MTUSizeIndex(made)
    BY <2>2, <2>3, MtuIndex, Sizes
  <2>. QED BY <2>1, <2>4, Stored
<1>3. CASE result = "slow"
  <2>1. CASE LowestMtu > Byte(made + 1)
    <3>1. MadeAfter(made, result) = Byte(LowestMtu)
      BY <1>3, <2>1 DEF MadeAfter
    <3>2. LowestMtu \in Nat /\ LowestMtu <= Times + 1 /\ MTUSizeIndex(LowestMtu) = 2
      BY Sizes, MtuIndex
    <3>. QED BY <3>1, <3>2, Stored, MtuIndex
  <2>2. CASE ~ (LowestMtu > Byte(made + 1))
    <3>1. MadeAfter(made, result) = Byte(Times + 1)
      BY <1>3, <2>2 DEF MadeAfter
    <3>2. Times + 1 \in Nat /\ MTUSizeIndex(Times + 1) = 2
      BY Sizes, MtuIndex
    <3>. QED BY <3>1, <3>2, Stored, MtuIndex
  <2>. QED BY <2>1, <2>2
<1>. QED BY <1>1, <1>2, <1>3, SendAssumption

----------------------------------------------------------------------------
\* What a step may do to the queue: nothing, add an attempt for a target that has none,
\* take out attempts for the target a, or have a new try of the attempt at i.
Posts == /\ call \in [addr : Targets, mode : Modes]
         /\ ~Pending(call.addr)
         /\ connReqQ' = Append(connReqQ, [addr |-> call.addr, mode |-> call.mode,
                                          requestsMade |-> 0, due |-> FALSE])

Keeps(n, kept, a) ==
  /\ kept \in [1 .. n -> DOMAIN connReqQ]
  /\ \A i, j \in 1 .. n : kept[i] = kept[j] => i = j
  /\ connReqQ' = [i \in 1 .. n |-> connReqQ[kept[i]]]
  /\ \A i \in DOMAIN connReqQ : connReqQ[i].addr # a => \E j \in 1 .. n : kept[j] = i

Drops(a) == \E n \in Nat : \E kept \in [1 .. n -> DOMAIN connReqQ] : Keeps(n, kept, a)

Amends(i) == /\ i \in DOMAIN connReqQ
             /\ connReqQ' \in [DOMAIN connReqQ -> Entries]
             /\ connReqQ'[i].addr = connReqQ[i].addr
             /\ connReqQ'[i].requestsMade <= Times + 1
             /\ Lowers(connReqQ[i].requestsMade, connReqQ'[i].requestsMade)
             /\ \A j \in DOMAIN connReqQ \ {i} : connReqQ'[j] = connReqQ[j]

QueueStep == \/ connReqQ' = connReqQ
             \/ Posts
             \/ \E a \in Targets : Drops(a)
             \/ \E i \in DOMAIN connReqQ : Amends(i)

\* The facts about the queue do not mention the lock: a section between Lock() and
\* Unlock() is one step of the model, and QueueGuarded says whether it really is.
OnePerTarget == \A i, j \in DOMAIN connReqQ : connReqQ[i].addr = connReqQ[j].addr => i = j

QInv == connReqQ \in Seq(Entries) /\ OnePerTarget /\ NeverOverLimit

LEMMA EntryFields ==
  ASSUME connReqQ \in Seq(Entries), NEW i \in DOMAIN connReqQ
  PROVE  /\ i \in 1 .. Len(connReqQ) /\ i \in Nat
         /\ connReqQ[i] \in Entries /\ connReqQ[i].addr \in Targets
         /\ connReqQ[i].requestsMade \in 0 .. (ByteMod - 1)
         /\ connReqQ[i].requestsMade \in Nat
<1>1. DOMAIN connReqQ = 1 .. Len(connReqQ) /\ Len(connReqQ) \in Nat
  OBVIOUS
<1>2. connReqQ[i] \in Entries
  BY <1>1
<1>3. ASSUME NEW e \in Entries
      PROVE  e.addr \in Targets /\ e.requestsMade \in 0 .. (ByteMod - 1)
  BY DEF Entries
<1>4. \A k \in 0 .. (ByteMod - 1) : k \in Nat
  BY BytesAssumption
<1>. QED BY <1>1, <1>2, <1>3, <1>4

LEMMA RemoveAtIs ==
  ASSUME NEW S, NEW s \in Seq(S), NEW i \in 1 .. Len(s)
  PROVE  RemoveAt(s, i) = [k \in 1 .. (Len(s) - 1) |-> IF k < i THEN s[k] ELSE s[k + 1]]
<1> DEFINE b == SubSeq(s, 1, i - 1)
           e == SubSeq(s, i + 1, Len(s))
           r == RemoveAt(s, i)
<1>0. Len(s) \in Nat /\ i \in Nat /\ 1 <= i /\ i <= Len(s)
  OBVIOUS
<1>1. b \in Seq(S) /\ Len(b) = i - 1 /\ \A k \in 1 .. (i - 1) : b[k] = s[k]
  OBVIOUS
<1>2. e \in Seq(S) /\ Len(e) = Len(s) - i /\ \A k \in 1 .. (Len(s) - i) : e[k] = s[i + k]
  OBVIOUS
<1>3. r = b \o e
  BY DEF RemoveAt
<1> HIDE DEF b, e, r
<1>4. /\ r \in Seq(S) /\ Len(r) = Len(b) + Len(e)
      /\ \A k \in 1 .. (Len(b) + Len(e)) : r[k] = IF k <= Len(b) THEN b[k] ELSE e[k - Len(b)]
  BY <1>1, <1>2, <1>3, ConcatProperties
<1>5. Len(r) = Len(s) - 1 /\ DOMAIN r = 1 .. Len(r) /\ r = [k \in DOMAIN r |-> r[k]]
  BY <1>0, <1>1, <1>2, <1>4
<1>6. ASSUME NEW k \in 1 .. (Len(s) - 1) PROVE r[k] = IF k < i THEN s[k] ELSE s[k + 1]
  <2>1. r[k] = IF k <= i - 1 THEN b[k] ELSE e[k - (i - 1)]
    BY <1>0, <1>1, <1>2, <1>4
  <2>2. CASE k < i
    BY <2>1, <2>2, <1>0, <1>1
  <2>3. CASE ~(k < i)
    <3>1. k - (i - 1) \in 1 .. (Len(s) - i) /\ i + (k - (i - 1)) = k + 1
      BY <2>3, <1>0
    <3>. QED BY <2>1, <2>3, <3>1, <1>0, <1>2
  <2>. QED BY <2>2, <2>3
<1>. QED BY <1>5, <1>6 DEF r

LEMMA RemoveAtDrops ==
  ASSUME connReqQ \in Seq(Entries), NEW i \in DOMAIN connReqQ,
         connReqQ' = RemoveAt(connReqQ, i)
  PROVE  Drops(connReqQ[i].addr)
<1> DEFINE n == Len(connReqQ) - 1
           kept == [j \in 1 .. n |-> IF j < i THEN j ELSE j + 1]
<1>1. n \in Nat /\ i \in 1 .. (n + 1) /\ DOMAIN connReqQ = 1 .. (n + 1)
  OBVIOUS
<1>2. connReqQ' = [j \in 1 .. n |-> IF j < i THEN connReqQ[j] ELSE connReqQ[j + 1]]
  <2>1. i \in 1 .. Len(connReqQ)
    OBVIOUS
  <2>. QED BY <2>1, RemoveAtIs
<1> HIDE DEF n
<1>3. kept \in [1 .. n -> DOMAIN connReqQ]
  BY <1>1
<1>4. \A j, k \in 1 .. n : kept[j] = kept[k] => j = k
  BY <1>1
<1>5. \A k \in DOMAIN connReqQ : k # i => \E j \in 1 .. n : kept[j] = k
  <2> SUFFICES ASSUME NEW k \in 1 .. (n + 1), k # i PROVE \E j \in 1 .. n : kept[j] = k
    BY <1>1
  <2>1. CASE k < i
    BY <1>1, <2>1
  <2>2. CASE k > i
    <3>1. k - 1 \in 1 .. n /\ kept[k - 1] = k
      BY <1>1, <2>2
    <3>. QED BY <3>1
  <2>. QED BY <1>1, <2>1, <2>2
<1>6. connReqQ' = [j \in 1 .. n |-> connReqQ[kept[j]]]
  BY <1>2
<1> HIDE DEF kept
<1>7. Keeps(n, kept, connReqQ[i].addr)
  BY <1>3, <1>4, <1>5, <1>6 DEF Keeps
<1>. QED BY <1>1, <1>3, <1>7 DEF Drops

LEMMA RemoveAttemptDrops ==
  ASSUME connReqQ \in Seq(Entries), RemoveAttempt
  PROVE  Drops(message.from)
<1> DEFINE rest == DOMAIN connReqQ \ RemovedBy(message.from)
           n == Cardinality(rest)
<1>1. RemovedBy(message.from) \subseteq Positions(message.from)
  BY DEF RemovedBy
<1>2. n \in Nat /\ rest \subseteq Nat /\ rest \subseteq DOMAIN connReqQ
  <2>1. IsFiniteSet(1 .. Len(connReqQ)) /\ DOMAIN connReqQ = 1 .. Len(connReqQ)
    BY FS_Interval
  <2>. QED BY <2>1, FS_Subset, FS_CardinalityType
<1>3. PICK kept \in [1 .. n -> rest] :
        /\ Range(kept) = rest
        /\ \A i, j \in DOMAIN kept : i < j => kept[i] < kept[j]
        /\ connReqQ' = [i \in DOMAIN kept |-> connReqQ[kept[i]]]
  BY DEF RemoveAttempt
<1>4. \A i \in DOMAIN connReqQ : connReqQ[i].addr # message.from => i \in rest
  BY <1>1 DEF Positions
<1> HIDE DEF n, rest
<1>5. DOMAIN kept = 1 .. n /\ \A i \in 1 .. n : kept[i] \in rest /\ kept[i] \in Nat
  BY <1>2, <1>3
<1>6. \A i, j \in 1 .. n : kept[i] = kept[j] => i = j
  <2> SUFFICES ASSUME NEW i \in 1 .. n, NEW j \in 1 .. n, kept[i] = kept[j], i < j
               PROVE  FALSE
    BY <1>2
  <2>1. kept[i] < kept[j]
    BY <1>3, <1>5
  <2>. QED BY <1>5, <2>1
<1>7. \A i \in DOMAIN connReqQ : connReqQ[i].addr # message.from => \E j \in 1 .. n : kept[j] = i
  BY <1>3, <1>4, <1>5 DEF Range
<1>8. kept \in [1 .. n -> DOMAIN connReqQ] /\ connReqQ' = [i \in 1 .. n |-> connReqQ[kept[i]]]
  BY <1>2, <1>3, <1>5
<1>9. Keeps(n, kept, message.from)
  BY <1>6, <1>7, <1>8 DEF Keeps
<1>. QED BY <1>2, <1>8, <1>9 DEF Drops

\* Where the attempt at a place of the queue comes from: from an attempt for the
\* same target, unchanged or after one try, or from a target that had none.
Origin(j) ==
  \/ ~Pending(connReqQ'[j].addr) /\ connReqQ'[j].requestsMade = 0
  \/ \E i \in DOMAIN connReqQ : /\ connReqQ[i].addr = connReqQ'[j].addr
                                /\ \/ connReqQ'[j] = connReqQ[i]
                                   \/ Lowers(connReqQ[i].requestsMade, connReqQ'[j].requestsMade)

LEMMA AppendIs ==
  ASSUME NEW S, NEW s \in Seq(S), NEW e \in S
  PROVE  /\ Append(s, e) \in Seq(S) /\ Len(s) \in Nat /\ DOMAIN s = 1 .. Len(s)
         /\ DOMAIN Append(s, e) = 1 .. (Len(s) + 1)
         /\ Append(s, e)[Len(s) + 1] = e
         /\ \A i \in 1 .. Len(s) : Append(s, e)[i] = s[i]
OBVIOUS

NewEntry == [addr |-> call.addr, mode |-> call.mode, requestsMade |-> 0, due |-> FALSE]

LEMMA PostsKeeps ==
  ASSUME QInv, Posts
  PROVE  /\ QInv'
         /\ \A j \in DOMAIN connReqQ' : Origin(j)
         /\ \A a : Pending(a) \/ a = call.addr => Pending(a)'
<1> DEFINE n == Len(connReqQ)
<1>1. NewEntry \in Entries /\ NewEntry.addr = call.addr /\ NewEntry.requestsMade = 0
  <2>1. \A c \in [addr : Targets, mode : Modes] : c.addr \in Targets /\ c.mode \in Modes
    OBVIOUS
  <2>. QED BY <2>1, BytesAssumption DEF Posts, NewEntry, Entries
<1>2. connReqQ \in Seq(Entries) /\ connReqQ' = Append(connReqQ, NewEntry)
  BY DEF Posts, QInv, NewEntry
<1>3. /\ connReqQ' \in Seq(Entries) /\ n \in Nat /\ DOMAIN connReqQ = 1 .. n
      /\ DOMAIN connReqQ' = 1 .. (n + 1) /\ connReqQ'[n + 1] = NewEntry
      /\ \A i \in 1 .. n : connReqQ'[i] = connReqQ[i]
  BY <1>1, <1>2, AppendIs
<1> HIDE DEF n, NewEntry
<1>4. \A i \in 1 .. n : connReqQ[i].addr # call.addr
  BY <1>3 DEF Posts, Pending, Positions
<1>5. OnePerTarget'
  BY <1>1, <1>3, <1>4 DEF QInv, OnePerTarget
<1>6. NeverOverLimit'
  BY <1>1, <1>3, TimesAssumption DEF QInv, NeverOverLimit
<1>7. \A j \in DOMAIN connReqQ' : Origin(j)
  BY <1>1, <1>3 DEF Posts, Origin
<1>8. \A a : Pending(a) \/ a = call.addr => Pending(a)'
  BY <1>1, <1>3 DEF Pending, Positions
<1>. QED BY <1>3, <1>5, <1>6, <1>7, <1>8 DEF QInv

LEMMA DropsKeeps ==
  ASSUME QInv, NEW b, Drops(b)
  PROVE  /\ QInv'
         /\ \A j \in DOMAIN connReqQ' : Origin(j)
         /\ \A a : Pending(a) /\ a # b => Pending(a)'
<1>1. PICK n \in Nat : \E kept \in [1 .. n -> DOMAIN connReqQ] : Keeps(n, kept, b)
  BY DEF Drops
<1>2. PICK kept \in [1 .. n -> DOMAIN connReqQ] : Keeps(n, kept, b)
  BY <1>1
<1>3. /\ connReqQ' = [i \in 1 .. n |-> connReqQ[kept[i]]]
      /\ DOMAIN connReqQ' = 1 .. n
      /\ \A i \in 1 .. n : /\ kept[i] \in DOMAIN connReqQ /\ connReqQ'[i] = connReqQ[kept[i]]
                           /\ connReqQ'[i] \in Entries
  BY <1>2, EntryFields DEF Keeps, QInv
<1>4. connReqQ' \in Seq(Entries)
  BY <1>3, IsASeq
<1>5. OnePerTarget'
  BY <1>2, <1>3 DEF Keeps, QInv, OnePerTarget
<1>6. NeverOverLimit'
  BY <1>3 DEF QInv, NeverOverLimit
<1>7. \A j \in DOMAIN connReqQ' : Origin(j)
  BY <1>3 DEF Origin
<1>8. \A a : Pending(a) /\ a # b => Pending(a)'
  BY <1>2, <1>3 DEF Keeps, Pending, Positions
<1>. QED BY <1>4, <1>5, <1>6, <1>7, <1>8 DEF QInv

LEMMA AmendsKeeps ==
  ASSUME QInv, NEW i \in DOMAIN connReqQ, Amends(i)
  PROVE  /\ QInv'
         /\ \A j \in DOMAIN connReqQ' : Origin(j)
         /\ \A a : Pending(a) => Pending(a)'
<1>1. connReqQ' \in Seq(Entries) /\ DOMAIN connReqQ' = DOMAIN connReqQ
  <2>1. Len(connReqQ) \in Nat /\ DOMAIN connReqQ = 1 .. Len(connReqQ)
    BY DEF QInv
  <2>2. connReqQ' = [j \in 1 .. Len(connReqQ) |-> connReqQ'[j]]
        /\ \A j \in 1 .. Len(connReqQ) : connReqQ'[j] \in Entries
    BY <2>1 DEF Amends
  <2>. QED BY <2>1, <2>2, IsASeq
<1>2. \A j \in DOMAIN connReqQ : connReqQ'[j].addr = connReqQ[j].addr
  BY <1>1 DEF Amends
<1>3. OnePerTarget'
  BY <1>1, <1>2 DEF QInv, OnePerTarget
<1>4. NeverOverLimit'
  BY <1>1 DEF QInv, NeverOverLimit, Amends
<1>5. \A j \in DOMAIN connReqQ' : Origin(j)
  BY <1>1, <1>2 DEF Origin, Amends
<1>6. \A a : Pending(a) => Pending(a)'
  BY <1>1, <1>2 DEF Pending, Positions
<1>. QED BY <1>1, <1>3, <1>4, <1>5, <1>6 DEF QInv

LEMMA SameKeeps ==
  ASSUME QInv, connReqQ' = connReqQ
  PROVE  /\ QInv'
         /\ \A j \in DOMAIN connReqQ' : Origin(j)
         /\ \A a : Pending(a) => Pending(a)'
BY DEF QInv, OnePerTarget, NeverOverLimit, Origin, Pending, Positions

LEMMA QueueStepKeeps ==
  ASSUME QInv, QueueStep
  PROVE  QInv' /\ \A j \in DOMAIN connReqQ' : Origin(j)
BY PostsKeeps, DropsKeeps, AmendsKeeps, SameKeeps DEF QueueStep

----------------------------------------------------------------------------
\* The lock of the queue keeps its types in whatever call a thread is.
LEMMA LockTyped ==
  ASSUME Lock!TypeOK, NEW t \in Threads,
         Lock!CallLock(t) \/ Lock!CallUnlock(t) \/ Lock!Inside(t)
  PROVE  Lock!TypeOK'
<1> USE CountModAssumption DEF Lock!TypeOK, Lock!Goto, Lock!Points, Lock!LockPoints, Lock!UnlockPoints
<1>1. CASE Lock!CallLock(t) \/ Lock!CallUnlock(t)
  BY <1>1 DEF Lock!CallLock, Lock!CallUnlock
<1>2. CASE Lock!InLock(t) \/ Lock!Acquire(t)
  BY <1>2 DEF Lock!InLock, Lock!Acquire, Lock!ReadCount, Lock!Reenter, Lock!NotOwner,
              Lock!CountFirst, Lock!Own, Lock!Inc
<1>3. CASE Lock!InUnlock(t)
  BY <1>3 DEF Lock!InUnlock, Lock!Leave, Lock!LastLevel, Lock!CountLast, Lock!Disown,
              Lock!Release, Lock!Undone, Lock!Dec
<1>. QED BY <1>1, <1>2, <1>3 DEF Lock!Inside

LEMMA LockSame == Lock!TypeOK /\ UNCHANGED lockVars => Lock!TypeOK'
BY DEF Lock!TypeOK, lockVars

LockCalls == \/ UNCHANGED lockVars
             \/ \E t \in Threads : Lock!CallLock(t) \/ Lock!CallUnlock(t) \/ Lock!Inside(t)

\* The answer being processed, the running Connect() and the loop index.
Messages == [kind : {"reply1", "reply2", "refused"}, from : Targets, secure : BOOLEAN]

AnswerPoints == {"reply1", "reply1_match", "reply2", "reply2_match", "reply2_remove", "refused"}

Notices == {"CONNECTION_ATTEMPT_FAILED", "REFUSED", "PUBLIC_KEY_MISMATCH",
            "WECLI_SECURE_BUT_SRV_NO", "WECLINOTPASS_SRVPUBKEY_WHENCONNECT"}

LocalsTyped == /\ userAt = "connect" => call \in [addr : Targets, mode : Modes]
               /\ netAt \in AnswerPoints => message \in Messages

\* While an answer 2 is processed its attempt is pending, though the lock is free
\* for a moment; when the attempt is to be removed, its end is known.
Answered ==
  /\ netAt \in {"reply2_match", "reply2_remove"} => Pending(message.from)
  /\ netAt = "reply2_remove" => message.from \in requested \/ ToldOver(message.from)

Accounted == \A a \in asked1 : Pending(a) \/ a \in requested \/ ToldOver(a)

IInv == TypeOK /\ OnePerTarget /\ NeverOverLimit /\ LocalsTyped /\ Answered /\ Accounted

LEMMA InitHolds == Init => IInv
<1> SUFFICES ASSUME Init PROVE IInv
  OBVIOUS
<1> USE DEF Init
<1>1. Lock!TypeOK
  BY CountModAssumption DEF Lock!Init, Lock!TypeOK, Lock!Points
<1>2. TypeOK
  <2>1. connReqQ \in Seq(Entries) /\ connReqCancelQ \in Seq(Targets)
    OBVIOUS
  <2>2. told \in [Targets -> SUBSET Notices]
    OBVIOUS
  <2>. QED BY <1>1, <2>1, <2>2 DEF TypeOK, Notices
<1>3. OnePerTarget /\ NeverOverLimit
  BY DEF OnePerTarget, NeverOverLimit
<1>4. LocalsTyped /\ Answered /\ Accounted
  BY DEF LocalsTyped, AnswerPoints, Answered, Accounted
<1>. QED BY <1>2, <1>3, <1>4 DEF IInv

LEMMA LockIsCalled == Next => LockCalls
<1> SUFFICES ASSUME Next PROVE LockCalls
  OBVIOUS
<1> USE DEF LockCalls, Threads
<1>1. CASE User
  BY <1>1 DEF User, CallConnect, PostAttempt, AlreadyInProgress, CancelConnectionRequest
<1>2. CASE BeginCycle \/ EndReceive \/ \E m \in Answers : Deliver(m)
  BY <1>2 DEF BeginCycle, EndReceive, Deliver
<1>3. CASE OnConnectionReply1
  BY <1>3 DEF OnConnectionReply1, NoneMatches, Reply1Match, SendRequest2, ServerInsecure,
              BadServerKey
<1>4. CASE OnConnectionReply2
  BY <1>4 DEF OnConnectionReply2, NoneMatches, KeyNotPassed, Reply2Match, InvalidAnswer,
              RequestConnection, NoSlot, RemoveAttempt
<1>5. CASE OnConnectionFailed
  BY <1>5 DEF OnConnectionFailed, NoneMatches, Refused
<1>6. CASE ProcessConnectionRequestCancelQ
  BY <1>6 DEF ProcessConnectionRequestCancelQ, CancelOne, NothingCancelled, EndCancel
<1>7. CASE ProcessConnectionRequestQ
  BY <1>7 DEF ProcessConnectionRequestQ, LockAttempts, NotYet, GiveUp, TryAgain, EndCycle,
              NextIteration
<1>8. CASE LockStep \/ \E i \in DOMAIN connReqQ : Elapse(i)
  BY <1>8 DEF LockStep, Elapse
<1>. QED BY <1>1, <1>2, <1>3, <1>4, <1>5, <1>6, <1>7, <1>8 DEF Next, Network

LEMMA AnswerTyped ==
  ASSUME asked1 \subseteq Targets, asked2 \subseteq Targets, NEW m \in Answers
  PROVE  m \in Messages
BY DEF Answers, Messages

LEMMA CurrentTyped ==
  ASSUME IInv, AtAttempt
  PROVE  /\ index + 1 \in DOMAIN connReqQ /\ Current = connReqQ[index + 1]
         /\ Current \in Entries /\ Current.addr \in Targets
         /\ Current.requestsMade \in 0 .. (Times + 1) /\ Pending(Current.addr)
<1>1. connReqQ \in Seq(Entries) /\ index \in Nat /\ index < Len(connReqQ)
  BY DEF IInv, TypeOK, AtAttempt
<1>2. index + 1 \in DOMAIN connReqQ
  BY <1>1
<1>3. /\ Current \in Entries /\ Current.addr \in Targets /\ Current.requestsMade \in Nat
      /\ Current = connReqQ[index + 1]
  BY <1>1, <1>2, EntryFields DEF Current
<1>4. Current.requestsMade <= Times + 1
  BY <1>2, <1>3 DEF IInv, NeverOverLimit
<1>5. Pending(Current.addr)
  BY <1>2, <1>3 DEF Pending, Positions
<1>. QED BY <1>2, <1>3, <1>4, <1>5, TimesAssumption

\* A try is one more, one size less or the last; it stays the same attempt.
LEMMA Tried ==
  ASSUME IInv, NEW result \in SendResults, TryAgain(result)
  PROVE  Amends(index + 1)
<1> DEFINE i == index + 1
           made == connReqQ[i].requestsMade
<1>1. /\ AtAttempt /\ Current.requestsMade # Times + 1
      /\ connReqQ' = [connReqQ EXCEPT ![i].due = FALSE,
                                      ![i].requestsMade = MadeAfter(@, result)]
  BY DEF TryAgain
<1>2. /\ i \in DOMAIN connReqQ /\ Current = connReqQ[i] /\ made \in 0 .. (Times + 1)
  BY <1>1, CurrentTyped
<1>3. Lowers(made, MadeAfter(made, result))
  <2>1. made \in 0 .. Times
    BY <1>1, <1>2, TimesAssumption
  <2>. QED BY ONLY <2>1, TryBounds
<1>4. /\ connReqQ \in [DOMAIN connReqQ -> Entries]
      /\ MadeAfter(made, result) \in 0 .. (ByteMod - 1) /\ MadeAfter(made, result) <= Times + 1
  BY <1>3, LenProperties DEF IInv, TypeOK, Lowers
<1> HIDE DEF i
<1>5. /\ connReqQ' \in [DOMAIN connReqQ -> Entries]
      /\ connReqQ'[i].addr = connReqQ[i].addr
      /\ connReqQ'[i].requestsMade = MadeAfter(made, result)
      /\ \A j \in DOMAIN connReqQ \ {i} : connReqQ'[j] = connReqQ[j]
  BY <1>1, <1>2, <1>4 DEF Entries
<1>. QED BY <1>2, <1>3, <1>4, <1>5 DEF Amends, i

LEMMA Elapsed ==
  ASSUME IInv, NEW k \in DOMAIN connReqQ, Elapse(k)
  PROVE  Amends(k)
<1>1. connReqQ' = [connReqQ EXCEPT ![k].due = TRUE]
  BY DEF Elapse
<1>2. connReqQ \in [DOMAIN connReqQ -> Entries] /\ connReqQ[k].requestsMade <= Times + 1
      /\ connReqQ[k].requestsMade \in 0 .. (ByteMod - 1) /\ connReqQ[k].requestsMade \in Nat
  BY EntryFields, LenProperties DEF IInv, TypeOK, NeverOverLimit
<1>3. /\ connReqQ' \in [DOMAIN connReqQ -> Entries]
      /\ connReqQ'[k].addr = connReqQ[k].addr
      /\ connReqQ'[k].requestsMade = connReqQ[k].requestsMade
      /\ \A j \in DOMAIN connReqQ \ {k} : connReqQ'[j] = connReqQ[j]
  BY <1>1, <1>2 DEF Entries
<1>. QED BY <1>2, <1>3, MtuIndex DEF Amends, Lowers

----------------------------------------------------------------------------
OthersTyped == /\ connReqCancelQ \in Seq(Targets)
               /\ asked1 \subseteq Targets /\ asked2 \subseteq Targets
               /\ slots \subseteq Targets /\ requested \subseteq Targets
               /\ dontFragment \in BOOLEAN
               /\ told \in [Targets -> SUBSET Notices]
               /\ userAt \in {"idle", "connect"}
               /\ netAt \in AnswerPoints \cup {"idle", "receive", "cancel", "cancel_scan",
                                               "request", "attempts"}
               /\ index \in Nat

LEMMA TypeParts == TypeOK <=> connReqQ \in Seq(Entries) /\ OthersTyped /\ Lock!TypeOK
BY DEF TypeOK, OthersTyped, AnswerPoints, Notices

LEMMA TypePartsPrime ==
  TypeOK' <=> connReqQ' \in Seq(Entries) /\ OthersTyped' /\ Lock!TypeOK'
BY DEF TypeOK, OthersTyped, AnswerPoints, Notices

\* A step asks only for pending attempts, and takes none out, and takes no notice
\* back, without another account of it.
Accounts == /\ \A a \in asked1' : a \in asked1 \/ Pending(a)'
            /\ requested \subseteq requested'
            /\ \A a \in Targets :
                  /\ Pending(a) => Pending(a)' \/ a \in requested' \/ ToldOver(a)'
                  /\ ToldOver(a) => Pending(a)' \/ ToldOver(a)'

LEMMA AccountsKeep == IInv /\ Accounts => Accounted'
BY DEF IInv, TypeOK, Accounts, Accounted, ToldOver

\* What every step does, with the queue as QueueStep says.
Good == OthersTyped' /\ QueueStep /\ LocalsTyped' /\ Answered' /\ Accounts

LEMMA GoodKeeps ==
  ASSUME IInv, LockCalls, Good
  PROVE  IInv'
<1>1. QInv'
  BY QueueStepKeeps, TypeParts DEF IInv, QInv, Good
<1>2. Lock!TypeOK'
  BY LockTyped, LockSame, TypeParts DEF IInv, LockCalls
<1>. QED BY <1>1, <1>2, TypePartsPrime, AccountsKeep DEF IInv, QInv, Good

LEMMA SamePending == connReqQ' = connReqQ => \A a : Pending(a) <=> Pending(a)'
BY DEF Pending, Positions

LEMMA PostAttemptGood == IInv /\ PostAttempt => Good
<1> SUFFICES ASSUME IInv, PostAttempt PROVE Good
  OBVIOUS
<1>1. call \in [addr : Targets, mode : Modes] /\ call.addr \in Targets
  <2>1. call \in [addr : Targets, mode : Modes]
    BY DEF PostAttempt, IInv, LocalsTyped
  <2>. QED BY <2>1
<1>2. Posts
  BY <1>1 DEF PostAttempt, Posts
<1>3. QInv /\ \A a : Pending(a) \/ a = call.addr => Pending(a)'
  BY <1>2, PostsKeeps, TypeParts DEF IInv, QInv
<1>4. /\ ~Pending(call.addr) /\ told' = [told EXCEPT ![call.addr] = {}]
      /\ userAt' = "idle"
      /\ UNCHANGED <<dontFragment, connReqCancelQ, asked1, asked2, slots, requested, netAt,
                     message, index>>
  BY DEF PostAttempt, counters
<1>5. OthersTyped /\ OthersTyped'
  BY <1>4, TypeParts DEF IInv, OthersTyped
<1>6. LocalsTyped' /\ Answered'
  BY <1>1, <1>3, <1>4, <1>5 DEF IInv, LocalsTyped, Answered, OthersTyped, ToldOver
<1>7. Accounts
  BY <1>1, <1>3, <1>4, <1>5 DEF Accounts, OthersTyped, ToldOver
<1>. QED BY <1>2, <1>5, <1>6, <1>7 DEF Good, QueueStep

LEMMA UserGood == IInv /\ User => Good
<1> SUFFICES ASSUME IInv, User PROVE Good
  OBVIOUS
<1>1. OthersTyped /\ LocalsTyped /\ Answered
  BY TypeParts DEF IInv
<1>2. CASE PostAttempt
  BY <1>2, PostAttemptGood
<1>3. CASE \/ \E a \in Targets, mode \in Modes : CallConnect(a, mode)
           \/ AlreadyInProgress
           \/ \E a \in Targets : CancelConnectionRequest(a)
  <2>1. UNCHANGED <<connReqQ, netVars, netAt, message, index>>
    BY <1>3 DEF CallConnect, AlreadyInProgress, CancelConnectionRequest, counters
  <2>2. connReqCancelQ' \in Seq(Targets)
    BY <1>1, <1>3 DEF CallConnect, AlreadyInProgress, CancelConnectionRequest, OthersTyped
  <2>3. /\ userAt' \in {"idle", "connect"}
        /\ userAt' = "connect" => call' \in [addr : Targets, mode : Modes]
    BY <1>1, <1>3 DEF CallConnect, AlreadyInProgress, CancelConnectionRequest, OthersTyped,
       LocalsTyped
  <2>4. OthersTyped'
    BY <1>1, <2>1, <2>2, <2>3 DEF OthersTyped, netVars
  <2>5. LocalsTyped' /\ Answered'
    BY <1>1, <2>1, <2>3, SamePending DEF LocalsTyped, Answered, netVars, ToldOver
  <2>6. Accounts /\ QueueStep
    BY <2>1, SamePending DEF Accounts, QueueStep, netVars, ToldOver
  <2>. QED BY <2>4, <2>5, <2>6 DEF Good
<1>. QED BY <1>2, <1>3 DEF User

LEMMA TimeGood == IInv /\ (LockStep \/ \E i \in DOMAIN connReqQ : Elapse(i)) => Good
<1> SUFFICES ASSUME IInv, LockStep \/ \E i \in DOMAIN connReqQ : Elapse(i) PROVE Good
  OBVIOUS
<1>1. OthersTyped /\ LocalsTyped /\ Answered /\ QInv
  BY TypeParts DEF IInv, QInv
<1>2. UNCHANGED <<connReqCancelQ, netVars, userAt, netAt, call, message, index>>
  BY DEF LockStep, Elapse
<1>3. QueueStep /\ \A a : Pending(a) => Pending(a)'
  <2>1. CASE LockStep
    BY <2>1, SamePending DEF LockStep, QueueStep
  <2>2. CASE \E i \in DOMAIN connReqQ : Elapse(i)
    <3>1. PICK i \in DOMAIN connReqQ : Elapse(i)
      BY <2>2
    <3>. QED BY <1>1, <3>1, Elapsed, AmendsKeeps DEF QueueStep
  <2>. QED BY <2>1, <2>2
<1>4. OthersTyped' /\ LocalsTyped' /\ Answered'
  BY <1>1, <1>2, <1>3 DEF OthersTyped, LocalsTyped, Answered, netVars, ToldOver
<1>5. Accounts
  BY <1>2, <1>3 DEF Accounts, netVars, ToldOver
<1>. QED BY <1>3, <1>4, <1>5 DEF Good

\* A step of the network thread that leaves the queue alone and takes nothing back.
Quiet == /\ UNCHANGED <<connReqQ, connReqCancelQ, userAt, call, asked1>>
         /\ requested \subseteq requested'
         /\ \A a \in Targets : told[a] \subseteq told'[a]

LEMMA QuietGood ==
  ASSUME IInv, Quiet, OthersTyped',
         netAt' \in AnswerPoints => message' \in Messages,
         Answered'
  PROVE  Good
<1>1. QueueStep /\ Accounts
  BY SamePending DEF Quiet, QueueStep, Accounts, ToldOver
<1>2. LocalsTyped'
  BY DEF Quiet, IInv, LocalsTyped
<1>. QED BY <1>1, <1>2 DEF Good

\* At no point where an answer 2 is being accepted.
LEMMA ElsewhereAnswered == netAt' \notin {"reply2_match", "reply2_remove"} => Answered'
BY DEF Answered, ToldOver

LEMMA SilentGood ==
  ASSUME IInv, UNCHANGED <<connReqQ, netVars, message>>, NetSame, index' \in Nat,
         netAt' \in AnswerPoints \cup {"idle", "receive", "cancel", "cancel_scan", "request",
                                       "attempts"},
         netAt' \in AnswerPoints => netAt \in AnswerPoints,
         netAt' \notin {"reply2_match", "reply2_remove"}
  PROVE  Good
<1>1. OthersTyped /\ LocalsTyped
  BY TypeParts DEF IInv
<1>2. OthersTyped'
  BY <1>1 DEF OthersTyped, netVars, NetSame
<1>3. Quiet
  BY DEF Quiet, netVars, NetSame
<1>. QED BY <1>1, <1>2, <1>3, ElsewhereAnswered, QuietGood DEF LocalsTyped

LEMMA LoopGood ==
  ASSUME IInv,
         \/ BeginCycle \/ EndReceive \/ ProcessConnectionRequestCancelQ
         \/ LockAttempts \/ NotYet \/ EndCycle
  PROVE  Good
<1> USE DEF NetGoto
<1>1. index \in Nat
  BY DEF IInv, TypeOK
<1>2. CASE BeginCycle \/ EndReceive \/ CancelOne \/ EndCancel \/ LockAttempts \/ EndCycle
  <2>1. /\ UNCHANGED <<connReqQ, netVars, message>> /\ NetSame /\ index' \in Nat
        /\ netAt' \in {"idle", "receive", "cancel", "cancel_scan", "request", "attempts"}
    BY <1>1, <1>2 DEF BeginCycle, EndReceive, CancelOne, EndCancel, LockAttempts, EndCycle
  <2>. QED BY <2>1, SilentGood DEF AnswerPoints
<1>3. CASE NothingCancelled
  <2>1. UNCHANGED <<connReqQ, netVars, message>> /\ NetSame /\ index' \in Nat /\ netAt' = "cancel"
    BY <1>1, <1>3 DEF NothingCancelled
  <2>. QED BY <2>1, SilentGood DEF AnswerPoints
<1>4. CASE NotYet
  <2>1. /\ UNCHANGED <<connReqQ, netVars, message>> /\ NetSame /\ index' \in Nat
        /\ netAt' = "attempts"
    BY <1>1, <1>4 DEF NotYet, NextIteration, AtAttempt
  <2>. QED BY <2>1, SilentGood DEF AnswerPoints
<1>. QED BY <1>2, <1>3, <1>4 DEF ProcessConnectionRequestCancelQ

LEMMA DeliverGood ==
  ASSUME IInv, NEW m \in Answers, Deliver(m)
  PROVE  Good
<1>1. OthersTyped
  BY TypeParts DEF IInv
<1>2. m \in Messages /\ m.kind \in {"reply1", "reply2", "refused"}
  BY <1>1, AnswerTyped DEF OthersTyped, Messages
<1>3. /\ UNCHANGED <<connReqQ, netVars>> /\ NetSame
      /\ message' = m /\ index' = 0 /\ netAt' = m.kind
  BY DEF Deliver, NetGoto
<1>4. OthersTyped'
  BY <1>1, <1>2, <1>3 DEF OthersTyped, netVars, NetSame, AnswerPoints
<1>5. Quiet
  BY <1>3 DEF Quiet, netVars, NetSame
<1>6. Answered'
  BY <1>2, <1>3, ElsewhereAnswered
<1>. QED BY <1>2, <1>3, <1>4, <1>5, <1>6, QuietGood

\* A handler that finds no attempt leaves everything as it is, and so does a match
\* whose answer is taken up later.
LEMMA NoneMatchesGood ==
  ASSUME IInv, NEW kind, NoneMatches(kind)
  PROVE  Good
<1>1. OthersTyped
  BY TypeParts DEF IInv
<1>2. UNCHANGED <<connReqQ, netVars, index>> /\ NetSame /\ netAt' = "receive"
  BY DEF NoneMatches, NetGoto
<1>3. OthersTyped' /\ Quiet
  BY <1>1, <1>2 DEF OthersTyped, Quiet, netVars, NetSame
<1>4. Answered' /\ netAt' \notin AnswerPoints
  BY <1>2, ElsewhereAnswered DEF AnswerPoints
<1>. QED BY <1>3, <1>4, QuietGood

\* The user is told something and the handler returns.
LEMMA TellGood ==
  ASSUME IInv, NEW a \in Targets, NEW notice \in Notices,
         Tell(a, notice) \/ UNCHANGED told,
         UNCHANGED <<connReqQ, connReqCancelQ, userAt, call, asked1, asked2, dontFragment, index,
                     requested>>,
         slots' \subseteq Targets, netAt' = "receive"
  PROVE  Good
<1>1. OthersTyped
  BY TypeParts DEF IInv
<1>2. told' \in [Targets -> SUBSET Notices] /\ \A b \in Targets : told[b] \subseteq told'[b]
  BY <1>1 DEF Tell, OthersTyped
<1>3. OthersTyped' /\ Quiet
  BY <1>1, <1>2 DEF OthersTyped, Quiet
<1>4. Answered' /\ netAt' \notin AnswerPoints
  BY ElsewhereAnswered DEF AnswerPoints
<1>. QED BY <1>3, <1>4, QuietGood

LEMMA MessageTyped == IInv /\ netAt \in AnswerPoints => message \in Messages /\ message.from \in Targets
BY DEF IInv, LocalsTyped, Messages

LEMMA Reply1Good == IInv /\ OnConnectionReply1 => Good
<1> SUFFICES ASSUME IInv, OnConnectionReply1 PROVE Good
  OBVIOUS
<1> USE DEF NetGoto
<1>1. OthersTyped /\ index \in Nat
  BY TypeParts DEF IInv, TypeOK
<1>2. CASE NoneMatches("reply1")
  BY <1>2, NoneMatchesGood
<1>3. CASE Reply1Match
  <2>1. /\ UNCHANGED <<connReqQ, netVars, message, index>> /\ NetSame
        /\ netAt = "reply1" /\ netAt' = "reply1_match"
    BY <1>3 DEF Reply1Match
  <2>. QED BY <1>1, <2>1, SilentGood DEF AnswerPoints
<1>4. CASE SendRequest2
  <2>1. /\ UNCHANGED <<dontFragment, connReqQ, asked1, slots, requested, told, message>> /\ NetSame
        /\ netAt = "reply1_match" /\ netAt' = "reply1" /\ index' = NTSPlugins + 1
        /\ asked2' = asked2 \cup {message.from}
    BY <1>4 DEF SendRequest2
  <2>2. message \in Messages /\ message.from \in Targets
    BY <2>1, MessageTyped DEF AnswerPoints
  <2>3. OthersTyped' /\ Quiet
    BY <1>1, <2>1, <2>2, PluginsAssumption DEF OthersTyped, Quiet, NetSame, AnswerPoints
  <2>. QED BY <2>1, <2>2, <2>3, ElsewhereAnswered, QuietGood
<1>5. CASE ServerInsecure
  <2>1. message.from \in Targets
    BY <1>5, MessageTyped DEF ServerInsecure, AnswerPoints
  <2>2. /\ Tell(message.from, "WECLI_SECURE_BUT_SRV_NO")
        /\ UNCHANGED <<connReqQ, connReqCancelQ, userAt, call, asked1, asked2, dontFragment,
                       index, requested, slots>>
        /\ netAt' = "receive"
    BY <1>5 DEF ServerInsecure, NetSame
  <2>. QED BY <1>1, <2>1, <2>2, TellGood DEF Notices, OthersTyped
<1>6. CASE BadServerKey
  <2>1. message.from \in Targets
    BY <1>6, MessageTyped DEF BadServerKey, AnswerPoints
  <2>2. /\ UNCHANGED <<connReqQ, connReqCancelQ, userAt, call, asked1, asked2, dontFragment,
                       index, requested, slots, told>>
        /\ netAt' = "receive"
    BY <1>6 DEF BadServerKey, NetSame, netVars
  <2>. QED BY <1>1, <2>1, <2>2, TellGood DEF Notices, OthersTyped
<1>. QED BY <1>2, <1>3, <1>4, <1>5, <1>6 DEF OnConnectionReply1

\* The network thread removes the attempts of one target whose end is accounted for.
LEMMA DropGood ==
  ASSUME IInv, NEW b \in Targets, Drops(b), OthersTyped',
         UNCHANGED <<asked1, requested, userAt, call>>,
         b \in requested \/ told'[b] \cap FinalNotices # {},
         \A a \in Targets : told[a] \subseteq told'[a],
         netAt' \notin AnswerPoints
  PROVE  Good
<1>1. QInv
  BY TypeParts DEF IInv, QInv
<1>2. QueueStep /\ \A a : Pending(a) /\ a # b => Pending(a)'
  BY <1>1, DropsKeeps DEF QueueStep
<1>3. Accounts
  BY <1>2 DEF Accounts, ToldOver
<1>4. LocalsTyped' /\ Answered'
  BY ElsewhereAnswered DEF IInv, LocalsTyped, AnswerPoints
<1>. QED BY <1>2, <1>3, <1>4 DEF Good

LEMMA Reply2Good == IInv /\ OnConnectionReply2 => Good
<1> SUFFICES ASSUME IInv, OnConnectionReply2 PROVE Good
  OBVIOUS
<1> USE DEF NetGoto
<1>1. OthersTyped /\ Answered
  BY TypeParts DEF IInv
<1>2. CASE NoneMatches("reply2")
  BY <1>2, NoneMatchesGood
<1>3. CASE KeyNotPassed
  <2>1. message.from \in Targets
    BY <1>3, MessageTyped DEF KeyNotPassed, AnswerPoints
  <2>2. /\ \/ \E a \in Targets : Tell(a, "WECLINOTPASS_SRVPUBKEY_WHENCONNECT")
           \/ UNCHANGED told
        /\ UNCHANGED <<connReqQ, connReqCancelQ, userAt, call, asked1, asked2, dontFragment,
                       index, requested, slots>>
        /\ netAt' = "receive"
    BY <1>3 DEF KeyNotPassed, NetSame
  <2>. QED BY <1>1, <2>1, <2>2, TellGood DEF Notices, OthersTyped
<1>4. CASE Reply2Match
  <2>1. /\ UNCHANGED <<connReqQ, netVars, message, index>> /\ NetSame
        /\ netAt = "reply2" /\ netAt' = "reply2_match" /\ Matches # {}
    BY <1>4 DEF Reply2Match
  <2>2. message \in Messages
    BY <2>1, MessageTyped DEF AnswerPoints
  <2>3. OthersTyped' /\ Quiet
    BY <1>1, <2>1 DEF OthersTyped, Quiet, netVars, NetSame, AnswerPoints
  <2>4. Pending(message.from)
    BY <2>1 DEF Matches, Pending
  <2>5. Answered'
    BY <2>1, <2>4, SamePending DEF Answered, ToldOver
  <2>. QED BY <2>1, <2>2, <2>3, <2>5, QuietGood
<1>5. CASE InvalidAnswer
  <2>1. message.from \in Targets
    BY <1>5, MessageTyped DEF InvalidAnswer, AnswerPoints
  <2>2. /\ Tell(message.from, "PUBLIC_KEY_MISMATCH") \/ UNCHANGED told
        /\ UNCHANGED <<connReqQ, connReqCancelQ, userAt, call, asked1, asked2, dontFragment,
                       index, requested>>
        /\ slots' = slots \cup {message.from} /\ netAt' = "receive"
    BY <1>5 DEF InvalidAnswer, NetSame
  <2>. QED BY <1>1, <2>1, <2>2, TellGood DEF Notices, OthersTyped
<1>6. CASE RequestConnection
  <2>1. /\ UNCHANGED <<connReqQ, asked1, asked2, dontFragment, told, message, index>> /\ NetSame
        /\ netAt = "reply2_match" /\ netAt' = "reply2_remove"
        /\ slots' = slots \cup {message.from} /\ requested' = requested \cup {message.from}
    BY <1>6 DEF RequestConnection
  <2>2. message \in Messages /\ message.from \in Targets
    BY <2>1, MessageTyped DEF AnswerPoints
  <2>3. OthersTyped' /\ Quiet
    BY <1>1, <2>1, <2>2 DEF OthersTyped, Quiet, NetSame, AnswerPoints
  <2>4. Answered'
    BY <1>1, <2>1, SamePending DEF Answered, ToldOver
  <2>. QED BY <2>1, <2>2, <2>3, <2>4, QuietGood
<1>7. CASE NoSlot
  <2>1. /\ UNCHANGED <<connReqQ, asked1, asked2, dontFragment, slots, requested, message, index>>
        /\ NetSame /\ netAt = "reply2_match" /\ netAt' = "reply2_remove"
        /\ told' = [told EXCEPT ![message.from] = @ \cup {"CONNECTION_ATTEMPT_FAILED"}]
    BY <1>7 DEF NoSlot, Tell
  <2>2. message \in Messages /\ message.from \in Targets
    BY <2>1, MessageTyped DEF AnswerPoints
  <2>3. OthersTyped' /\ Quiet
    <3>1. told' \in [Targets -> SUBSET Notices]
      BY <1>1, <2>1, <2>2 DEF OthersTyped, Notices
    <3>2. \A a \in Targets : told[a] \subseteq told'[a]
      BY <1>1, <2>1 DEF OthersTyped
    <3>. QED BY <1>1, <2>1, <3>1, <3>2 DEF OthersTyped, Quiet, NetSame, AnswerPoints
  <2>4. Answered'
    BY <1>1, <2>1, <2>2, SamePending DEF Answered, OthersTyped, ToldOver, FinalNotices
  <2>. QED BY <2>1, <2>2, <2>3, <2>4, QuietGood
<1>8. CASE RemoveAttempt
  <2>1. /\ netAt = "reply2_remove" /\ UNCHANGED <<netVars, index>> /\ NetSame /\ netAt' = "receive"
    BY <1>8 DEF RemoveAttempt
  <2>2. message.from \in Targets /\ Drops(message.from)
    BY <1>8, <2>1, MessageTyped, RemoveAttemptDrops, TypeParts DEF AnswerPoints, IInv
  <2>3. OthersTyped'
    BY <1>1, <2>1 DEF OthersTyped, netVars, NetSame
  <2>4. message.from \in requested \/ told'[message.from] \cap FinalNotices # {}
    BY <1>1, <2>1 DEF Answered, netVars, ToldOver
  <2>. QED BY <2>1, <2>2, <2>3, <2>4, DropGood DEF netVars, NetSame, AnswerPoints
<1>. QED BY <1>2, <1>3, <1>4, <1>5, <1>6, <1>7, <1>8 DEF OnConnectionReply2

\* An attempt that ends with a notice.
LEMMA EndsToldGood ==
  ASSUME IInv, NEW i \in DOMAIN connReqQ, connReqQ' = RemoveAt(connReqQ, i),
         NEW notice \in FinalNotices, Tell(connReqQ[i].addr, notice),
         UNCHANGED <<connReqCancelQ, userAt, call, asked1, asked2, slots, requested, dontFragment>>,
         index' \in Nat, netAt' \in {"receive", "attempts"}
  PROVE  Good
<1> DEFINE a == connReqQ[i].addr
<1>1. OthersTyped /\ connReqQ \in Seq(Entries)
  BY TypeParts DEF IInv
<1>2. a \in Targets /\ Drops(a)
  BY <1>1, EntryFields, RemoveAtDrops
<1> HIDE DEF a
<1>3. told' = [told EXCEPT ![a] = @ \cup {notice}]
  BY DEF Tell, a
<1>4. /\ told' \in [Targets -> SUBSET Notices] /\ told'[a] \cap FinalNotices # {}
      /\ \A b \in Targets : told[b] \subseteq told'[b]
  BY <1>1, <1>2, <1>3 DEF OthersTyped, Notices, FinalNotices, ToldOver
<1>5. OthersTyped'
  BY <1>1, <1>4 DEF OthersTyped
<1>. QED BY <1>2, <1>4, <1>5, DropGood DEF AnswerPoints

LEMMA FailedGood == IInv /\ OnConnectionFailed => Good
<1> SUFFICES ASSUME IInv, OnConnectionFailed PROVE Good
  OBVIOUS
<1>1. CASE NoneMatches("refused")
  BY <1>1, NoneMatchesGood
<1>2. CASE Refused
  <2>1. PICK i \in Matches : connReqQ' = RemoveAt(connReqQ, i)
    BY <1>2 DEF Refused
  <2>2. i \in DOMAIN connReqQ /\ connReqQ[i].addr = message.from
    BY DEF Matches, Positions
  <2>3. /\ Tell(message.from, "REFUSED") /\ netAt' = "receive"
        /\ UNCHANGED <<connReqCancelQ, userAt, call, asked1, asked2, slots, requested,
                       dontFragment, index>>
    BY <1>2 DEF Refused, NetGoto, NetSame
  <2>4. index' \in Nat
    BY <2>3 DEF IInv, TypeOK
  <2>. QED BY <2>1, <2>2, <2>3, <2>4, EndsToldGood DEF FinalNotices
<1>. QED BY <1>1, <1>2 DEF OnConnectionFailed

LEMMA GiveUpGood == IInv /\ GiveUp => Good
<1> SUFFICES ASSUME IInv, GiveUp PROVE Good
  OBVIOUS
<1>1. /\ AtAttempt /\ netAt = "attempts"
      /\ connReqQ' = RemoveAt(connReqQ, index + 1)
      /\ Tell(Current.addr, "CONNECTION_ATTEMPT_FAILED")
      /\ UNCHANGED <<connReqCancelQ, userAt, call, asked1, asked2, slots, requested,
                     dontFragment, netAt>>
      /\ index' = index + 1
  BY DEF GiveUp, AtAttempt, NextIteration, NetSame
<1>2. index + 1 \in DOMAIN connReqQ /\ Current = connReqQ[index + 1] /\ index \in Nat
  BY <1>1, CurrentTyped DEF IInv, TypeOK
<1>. QED BY <1>1, <1>2, EndsToldGood DEF FinalNotices

LEMMA TryAgainGood == IInv /\ (\E result \in SendResults : TryAgain(result)) => Good
<1> SUFFICES ASSUME IInv, NEW result \in SendResults, TryAgain(result) PROVE Good
  OBVIOUS
<1>1. OthersTyped /\ QInv
  BY TypeParts DEF IInv, QInv
<1>2. /\ AtAttempt /\ netAt = "attempts"
      /\ asked1' \in {asked1, asked1 \cup {Current.addr}}
      /\ dontFragment' \in BOOLEAN /\ index' = index + 1
      /\ UNCHANGED <<connReqCancelQ, userAt, call, asked2, slots, requested, told, netAt>>
  BY DEF TryAgain, AtAttempt, NextIteration, NetSame
<1>3. index + 1 \in DOMAIN connReqQ /\ Current.addr \in Targets /\ Pending(Current.addr)
  BY <1>2, CurrentTyped
<1>4. QueueStep /\ \A a : Pending(a) => Pending(a)'
  BY <1>1, <1>3, Tried, AmendsKeeps DEF QueueStep
<1>5. OthersTyped'
  BY <1>1, <1>2, <1>3 DEF OthersTyped, AnswerPoints
<1>6. LocalsTyped' /\ Answered'
  BY <1>2, ElsewhereAnswered DEF IInv, LocalsTyped, AnswerPoints
<1>7. Accounts
  BY <1>2, <1>3, <1>4 DEF Accounts, ToldOver
<1>. QED BY <1>4, <1>5, <1>6, <1>7 DEF Good

LEMMA NextGood == IInv /\ Next => Good
<1> SUFFICES ASSUME IInv, Next PROVE Good
  OBVIOUS
<1>1. CASE User
  BY <1>1, UserGood
<1>2. CASE BeginCycle \/ EndReceive \/ ProcessConnectionRequestCancelQ
  BY <1>2, LoopGood
<1>3. CASE \E m \in Answers : Deliver(m)
  BY <1>3, DeliverGood
<1>4. CASE OnConnectionReply1 \/ OnConnectionReply2 \/ OnConnectionFailed
  BY <1>4, Reply1Good, Reply2Good, FailedGood
<1>5. CASE ProcessConnectionRequestQ
  BY <1>5, LoopGood, GiveUpGood, TryAgainGood DEF ProcessConnectionRequestQ
<1>6. CASE LockStep \/ \E i \in DOMAIN connReqQ : Elapse(i)
  BY <1>6, TimeGood
<1>. QED BY <1>1, <1>2, <1>3, <1>4, <1>5, <1>6 DEF Next, Network

----------------------------------------------------------------------------
LEMMA Unchanged == IInv /\ UNCHANGED vars => IInv' /\ QueueStep
<1> SUFFICES ASSUME IInv, UNCHANGED vars PROVE IInv' /\ QueueStep
  OBVIOUS
<1>1. UNCHANGED <<connReqQ, connReqCancelQ, asked1, asked2, slots, requested, dontFragment, told,
                  userAt, netAt, call, message, index, lockVars>>
  BY DEF vars, netVars
<1>2. TypeOK'
  BY <1>1, LockSame, TypeParts, TypePartsPrime DEF IInv, OthersTyped
<1>3. OnePerTarget' /\ NeverOverLimit' /\ LocalsTyped' /\ Answered' /\ Accounted'
  BY <1>1, SamePending DEF IInv, OnePerTarget, NeverOverLimit, LocalsTyped, Answered, Accounted, ToldOver
<1>. QED BY <1>1, <1>2, <1>3 DEF IInv, QueueStep

LEMMA Inductive == IInv /\ [Next]_vars => IInv' /\ QueueStep
<1>1. IInv /\ Next => IInv' /\ QueueStep
  BY NextGood, GoodKeeps, LockIsCalled DEF Good
<1>. QED BY <1>1, Unchanged

LEMMA AlwaysIInv == Spec => []IInv
<1>1. IInv /\ [Next]_vars => IInv'
  BY Inductive
<1>. QED BY <1>1, InitHolds, PTL DEF Spec

\* Whatever the two threads and the network do, every variable keeps its type: in
\* particular requestsMade stays a byte, the fields of the lock keep their types under
\* uneven calls too, and every handler knows the target of its answer.
THEOREM TypeCorrect == Spec => []TypeOK
<1>1. IInv => TypeOK
  BY DEF IInv
<1>. QED BY <1>1, AlwaysIInv, PTL

\* requestsMade never jumps over the limit the code tests for equality
\* (NeverOverLimit), for every attemptTimes of at least three and every width of
\* the counter: ProcessConnectionRequestQ always comes to the try that gives up,
\* or the counter wraps below it.
THEOREM LimitNeverPassed == Spec => []NeverOverLimit
<1>1. IInv => NeverOverLimit
  BY DEF IInv
<1>. QED BY <1>1, AlwaysIInv, PTL

\* A server that was asked for a connection is still being asked, or its
\* connection is requested, or the user was told (EveryEndIsTold): no handler and
\* no order of answers drops an attempt in silence.
THEOREM NoSilentEnd == Spec => []EveryEndIsTold
<1>1. IInv => EveryEndIsTold
  BY DEF IInv, Accounted, EveryEndIsTold, ToldOver
<1>. QED BY <1>1, AlwaysIInv, PTL

\* If the limit fits into the byte that counts the tries, the packets of an
\* attempt never grow again (MtuNeverGrows), whatever the sends come back with.
THEOREM PacketsOnlyShrink == Times + 1 < ByteMod => (Spec => MtuNeverGrows)
<1> SUFFICES ASSUME Times + 1 < ByteMod PROVE Spec => MtuNeverGrows
  OBVIOUS
<1> DEFINE Shrinks ==
      \A i \in DOMAIN connReqQ : \A j \in DOMAIN connReqQ' :
        connReqQ[i].addr = connReqQ'[j].addr =>
           MTUSizeIndex(connReqQ'[j].requestsMade) >= MTUSizeIndex(connReqQ[i].requestsMade)
<1>1. IInv /\ [Next]_vars => Shrinks
  <2> SUFFICES ASSUME IInv, [Next]_vars,
                      NEW i \in DOMAIN connReqQ, NEW j \in DOMAIN connReqQ',
                      connReqQ[i].addr = connReqQ'[j].addr
               PROVE  MTUSizeIndex(connReqQ'[j].requestsMade)
                         >= MTUSizeIndex(connReqQ[i].requestsMade)
    OBVIOUS
  <2>1. QueueStep /\ QInv /\ Pending(connReqQ'[j].addr)
    BY Inductive, TypeParts DEF IInv, QInv, Pending, Positions
  <2>2. Origin(j)
    BY <2>1, QueueStepKeeps
  <2>3. \/ connReqQ'[j] = connReqQ[i]
        \/ Lowers(connReqQ[i].requestsMade, connReqQ'[j].requestsMade)
    BY <2>1, <2>2 DEF Origin, QInv, OnePerTarget
  <2>4. MTUSizeIndex(connReqQ[i].requestsMade) \in 0 .. 2
    BY <2>1, EntryFields, MtuIndex DEF QInv
  <2>. QED BY <2>3, <2>4 DEF Lowers
<1>2. IInv /\ [Next]_vars => [Shrinks]_vars
  BY <1>1
<1>. QED BY <1>2, AlwaysIInv, PTL DEF Spec, MtuNeverGrows

----------------------------------------------------------------------------
\* What is pending is neither requested nor told to be over, but at the one place where an
\* answer 2 was accepted, or turned away, and its attempt is about to be removed; and a call
\* of Connect() that has begun is not for a target whose connection is requested meanwhile.
Removing(a) == netAt = "reply2_remove" /\ message.from = a

Final == /\ requested \subseteq slots
         /\ \A a \in Targets : Pending(a) => (a \in requested \/ ToldOver(a) => Removing(a))
         /\ userAt = "connect" => /\ call.addr \notin requested
                                  /\ SingleThread \/ ~Pending(call.addr)
         /\ FailureIsFinal

\* No target comes to be pending.
Narrows == \A a : Pending(a)' => Pending(a)

LEMMA DropsNarrows ==
  ASSUME NEW b, Drops(b)
  PROVE  Narrows
<1>1. PICK n \in Nat : \E kept \in [1 .. n -> DOMAIN connReqQ] : Keeps(n, kept, b)
  BY DEF Drops
<1>2. PICK kept \in [1 .. n -> DOMAIN connReqQ] : Keeps(n, kept, b)
  BY <1>1
<1>. QED BY <1>2 DEF Keeps, Narrows, Pending, Positions

LEMMA AmendsNarrows ==
  ASSUME NEW i \in DOMAIN connReqQ, Amends(i)
  PROVE  Narrows
<1>1. DOMAIN connReqQ' = DOMAIN connReqQ
  BY DEF Amends
<1>2. \A j \in DOMAIN connReqQ : connReqQ'[j].addr = connReqQ[j].addr
  BY DEF Amends
<1>. QED BY <1>1, <1>2 DEF Narrows, Pending, Positions

LEMMA SameNarrows == connReqQ' = connReqQ => Narrows
BY DEF Narrows, Pending, Positions

\* With one attempt for a target, taking it out leaves none.
LEMMA RemovedIsGone ==
  ASSUME QInv, NEW i \in DOMAIN connReqQ, connReqQ' = RemoveAt(connReqQ, i)
  PROVE  ~ \E j \in DOMAIN connReqQ' : connReqQ'[j].addr = connReqQ[i].addr
<1> DEFINE n == Len(connReqQ)
<1>1. connReqQ \in Seq(Entries) /\ n \in Nat /\ i \in 1 .. n /\ DOMAIN connReqQ = 1 .. n
  BY DEF QInv
<1>2. connReqQ' = [k \in 1 .. (n - 1) |-> IF k < i THEN connReqQ[k] ELSE connReqQ[k + 1]]
  BY <1>1, RemoveAtIs
<1> HIDE DEF n
<1>3. ASSUME NEW k \in 1 .. (n - 1), connReqQ'[k].addr = connReqQ[i].addr PROVE FALSE
  <2>1. CASE k < i
    BY <1>1, <1>2, <1>3, <2>1 DEF QInv, OnePerTarget
  <2>2. CASE ~(k < i)
    <3>1. k + 1 \in 1 .. n /\ k + 1 # i /\ connReqQ'[k] = connReqQ[k + 1]
      BY <1>1, <1>2, <2>2
    <3>. QED BY <1>1, <1>3, <3>1 DEF QInv, OnePerTarget
  <2>. QED BY <2>1, <2>2
<1>. QED BY <1>2, <1>3

\* The loop that removes all attempts for a target, and passes over every second of equal
\* neighbours, removes the only one.
LEMMA OnlyOneRemoved ==
  ASSUME QInv, NEW a, NEW p \in DOMAIN connReqQ, Positions(a) = {p}
  PROVE  RemovedBy(a) = {p}
<1> DEFINE D == 0 .. Len(connReqQ)
           Gone(g) == g = [i \in D |-> i \in Positions(a) /\ ~g[i - 1]]
           only == [i \in D |-> i = p]
           gone == CHOOSE g : Gone(g)
<1>1. p \in D /\ p - 1 \in D /\ p - 1 # p /\ p \in Nat
  BY DEF QInv
<1>2. Gone(only)
  <2>1. ASSUME NEW i \in D PROVE (i = p) <=> (i \in {p} /\ ~only[i - 1])
    BY <1>1, <2>1
  <2>. QED BY <2>1
<1>3. Gone(gone)
  BY <1>2
<1>4. RemovedBy(a) = {i \in Positions(a) : gone[i]}
  BY DEF RemovedBy
<1> HIDE DEF gone, D
<1>5. ~gone[p - 1] /\ gone[p]
  BY <1>1, <1>3
<1>. QED BY <1>4, <1>5

\* A step of which no target, requested connection or final notice comes.
Calm == /\ Narrows /\ requested' = requested /\ slots \subseteq slots'
        /\ \A a \in Targets : told'[a] \cap FinalNotices = told[a] \cap FinalNotices
        /\ userAt' = userAt /\ call' = call
        /\ netAt = "reply2_remove" => netAt' = netAt /\ message' = message

LEMMA CalmFinal == IInv /\ Final /\ Calm => Final'
BY DEF IInv, LocalsTyped, Final, Calm, Narrows, Removing, ToldOver, FailureIsFinal

\* A step that ends the attempt for b: it is gone, and requested or over, not both.
Ends(b) == /\ Narrows /\ requested' = requested /\ slots' = slots
           /\ userAt' = userAt /\ call' = call
           /\ ~ \E j \in DOMAIN connReqQ' : connReqQ'[j].addr = b
           /\ netAt = "reply2_remove" => message.from = b
           /\ \A a \in Targets : a # b => told'[a] = told[a]
           /\ b \in requested => told'[b] = told[b]

LEMMA EndsFinal ==
  ASSUME IInv, Final, NEW b \in Targets, Ends(b)
  PROVE  Final'
<1>1. ~Pending(b)'
  BY DEF Ends, Pending, Positions
<1>2. \A a \in Targets : Pending(a)' => a # b /\ Pending(a) /\ ~Removing(a)
  BY <1>1 DEF Ends, Narrows, Removing
<1>3. \A a \in Targets : a # b => (ToldOver(a)' <=> ToldOver(a))
  BY DEF Ends, ToldOver
<1>4. FailureIsFinal'
  BY <1>3 DEF Final, FailureIsFinal, Ends, ToldOver
<1>5. userAt' = "connect" => /\ call'.addr \notin requested'
                             /\ SingleThread \/ ~Pending(call.addr)'
  BY DEF Final, Ends, Narrows
<1>. QED BY <1>1, <1>2, <1>3, <1>4, <1>5 DEF Final, Ends, Pending, Positions

LEMMA UserFinal ==
  ASSUME IInv, Final, User, SingleThread \/ ~RepeatConnect
  PROVE  Final'
<1>1. CASE \E a \in Targets, mode \in Modes : CallConnect(a, mode)
  <2>1. PICK a \in Targets, mode \in Modes : CallConnect(a, mode)
    BY <1>1
  <2>2. /\ a \notin slots
        /\ RepeatConnect \/ ~Pending(a)
        /\ call'.addr = a
        /\ UNCHANGED <<connReqQ, netVars, netAt, message>>
    BY <2>1 DEF CallConnect
  <2>3. \A b : Pending(b)' <=> Pending(b)
    BY <2>2, SamePending
  <2>4. /\ call'.addr \notin requested'
        /\ SingleThread \/ ~Pending(call.addr)'
    BY <2>2 DEF Final, netVars, Pending, Positions
  <2>5. \A b \in Targets : Pending(b)' => (b \in requested' \/ ToldOver(b)' => Removing(b)')
    BY <2>2, <2>3 DEF Final, ToldOver, Removing, netVars
  <2>. QED BY <2>2, <2>4, <2>5 DEF Final, FailureIsFinal, ToldOver, netVars
<1>2. CASE PostAttempt
  <2>1. /\ userAt = "connect" /\ userAt' = "idle" /\ ~Pending(call.addr)
        /\ connReqQ' = Append(connReqQ, NewEntry)
        /\ told' = [told EXCEPT ![call.addr] = {}]
        /\ UNCHANGED <<slots, requested, netAt, message>>
    BY <1>2 DEF PostAttempt, NewEntry
  <2>2. call \in [addr : Targets, mode : Modes] /\ call.addr \in Targets
    <3>1. call \in [addr : Targets, mode : Modes]
      BY <2>1 DEF IInv, LocalsTyped
    <3>. QED BY <3>1
  <2>3. \A a : Pending(a)' => Pending(a) \/ a = call.addr
    <3>1. connReqQ \in Seq(Entries)
      BY DEF IInv, TypeOK
    <3>2. NewEntry \in Entries /\ NewEntry.addr = call.addr
      <4>1. call.mode \in Modes
        BY <2>2
      <4>. QED BY <2>2, <4>1, BytesAssumption DEF NewEntry, Entries
    <3> HIDE DEF NewEntry
    <3>3. /\ DOMAIN connReqQ' = 1 .. (Len(connReqQ) + 1) /\ DOMAIN connReqQ = 1 .. Len(connReqQ)
          /\ connReqQ'[Len(connReqQ) + 1] = NewEntry
          /\ \A i \in 1 .. Len(connReqQ) : connReqQ'[i] = connReqQ[i]
          /\ Len(connReqQ) \in Nat
      BY <2>1, <3>1, <3>2, AppendIs
    <3>. QED BY <3>2, <3>3 DEF Pending, Positions
  <2>4. /\ told \in [Targets -> SUBSET Notices]
        /\ told'[call.addr] = {} /\ call.addr \notin requested
        /\ \A a \in Targets : a # call.addr => told'[a] = told[a]
    <3>1. told \in [Targets -> SUBSET Notices]
      BY TypeParts DEF IInv, OthersTyped
    <3>. QED BY <2>1, <2>2, <3>1 DEF Final
  <2>5. FailureIsFinal'
    BY <2>1, <2>2, <2>4 DEF Final, FailureIsFinal, ToldOver
  <2>6. \A a \in Targets : Pending(a)' => (a \in requested \/ ToldOver(a)' => Removing(a))
    BY <2>2, <2>3, <2>4 DEF Final, ToldOver
  <2>. QED BY <2>1, <2>5, <2>6 DEF Final, Removing
<1>3. CASE AlreadyInProgress \/ \E a \in Targets : CancelConnectionRequest(a)
  <2>1. /\ UNCHANGED <<connReqQ, netVars, netAt, message>>
        /\ userAt' = "idle" \/ UNCHANGED <<userAt, call>>
    BY <1>3 DEF AlreadyInProgress, CancelConnectionRequest
  <2>2. \A b : Pending(b)' <=> Pending(b)
    BY <2>1, SamePending
  <2>. QED BY <2>1, <2>2 DEF Final, FailureIsFinal, ToldOver, Removing, netVars, Pending, Positions
<1>. QED BY <1>1, <1>2, <1>3 DEF User

LEMMA QuietNetFinal ==
  ASSUME IInv, Final,
         \/ BeginCycle \/ EndReceive \/ ProcessConnectionRequestCancelQ
         \/ LockAttempts \/ NotYet \/ EndCycle
         \/ \E m \in Answers : Deliver(m)
         \/ OnConnectionReply1
         \/ NoneMatches("reply2") \/ NoneMatches("refused") \/ Reply2Match
  PROVE  Final'
<1>0. told \in [Targets -> SUBSET Notices]
  BY TypeParts DEF IInv, OthersTyped
<1>1. CASE ServerInsecure
  <2>1. /\ netAt = "reply1_match" /\ UNCHANGED <<connReqQ, requested, slots, userAt, call>>
        /\ told' = [told EXCEPT ![message.from] = @ \cup {"WECLI_SECURE_BUT_SRV_NO"}]
    BY <1>1 DEF ServerInsecure, Tell, NetSame
  <2>2. \A a \in Targets : told'[a] \cap FinalNotices = told[a] \cap FinalNotices
    BY <1>0, <2>1 DEF FinalNotices
  <2>. QED BY <2>1, <2>2, SameNarrows, CalmFinal DEF Calm
<1>2. CASE SendRequest2
  <2>1. /\ netAt = "reply1_match"
        /\ UNCHANGED <<connReqQ, requested, slots, told, userAt, call>>
    BY <1>2 DEF SendRequest2, NetSame
  <2>. QED BY <2>1, SameNarrows, CalmFinal DEF Calm
<1>3. CASE \/ BeginCycle \/ EndReceive \/ ProcessConnectionRequestCancelQ
           \/ LockAttempts \/ NotYet \/ EndCycle
           \/ \E m \in Answers : Deliver(m)
           \/ NoneMatches("reply1") \/ Reply1Match \/ BadServerKey
           \/ NoneMatches("reply2") \/ NoneMatches("refused") \/ Reply2Match
  <2>1. UNCHANGED <<connReqQ, netVars, userAt, call>> /\ netAt # "reply2_remove"
    BY <1>3 DEF ProcessConnectionRequestCancelQ, BeginCycle, EndReceive, CancelOne,
       NothingCancelled, EndCancel, LockAttempts, NotYet, EndCycle, AtAttempt, NextIteration,
       Deliver, NoneMatches, Reply1Match, BadServerKey, Reply2Match, NetSame
  <2>. QED BY <2>1, SameNarrows, CalmFinal DEF Calm, netVars
<1>. QED BY <1>1, <1>2, <1>3 DEF OnConnectionReply1

LEMMA Reply2Final ==
  ASSUME IInv, Final,
         KeyNotPassed \/ InvalidAnswer \/ RequestConnection \/ NoSlot \/ RemoveAttempt
  PROVE  Final'
<1>0. told \in [Targets -> SUBSET Notices] /\ QInv
  BY TypeParts DEF IInv, OthersTyped, QInv
<1>a. netAt \in AnswerPoints /\ message.from \in Targets
  <2>1. netAt \in AnswerPoints
    BY DEF KeyNotPassed, InvalidAnswer, RequestConnection, NoSlot, RemoveAttempt, AnswerPoints
  <2>. QED BY <2>1, MessageTyped
<1>1. CASE KeyNotPassed
  <2>1. /\ netAt = "reply2" /\ UNCHANGED <<connReqQ, requested, slots, userAt, call>>
        /\ \/ \E a \in Targets :
                told' = [told EXCEPT ![a] = @ \cup {"WECLINOTPASS_SRVPUBKEY_WHENCONNECT"}]
           \/ told' = told
    BY <1>1 DEF KeyNotPassed, Tell, NetSame
  <2>2. \A a \in Targets : told'[a] \cap FinalNotices = told[a] \cap FinalNotices
    BY <1>0, <2>1 DEF FinalNotices
  <2>. QED BY <2>1, <2>2, SameNarrows, CalmFinal DEF Calm
<1>2. CASE InvalidAnswer
  <2>1. /\ netAt = "reply2_match" /\ UNCHANGED <<connReqQ, requested, userAt, call>>
        /\ slots \subseteq slots'
        /\ \/ told' = [told EXCEPT ![message.from] = @ \cup {"PUBLIC_KEY_MISMATCH"}]
           \/ told' = told
    BY <1>2 DEF InvalidAnswer, Tell, NetSame
  <2>2. \A a \in Targets : told'[a] \cap FinalNotices = told[a] \cap FinalNotices
    BY <1>0, <2>1 DEF FinalNotices
  <2>. QED BY <2>1, <2>2, SameNarrows, CalmFinal DEF Calm
<1>3. CASE RequestConnection \/ NoSlot
  <2>1. /\ netAt = "reply2_match" /\ netAt' = "reply2_remove"
        /\ Pending(message.from)
        /\ SingleThread => userAt = "idle"
        /\ UNCHANGED <<connReqQ, message, userAt, call>>
    BY <1>3 DEF RequestConnection, NoSlot, NetGoto, NetSame, NetRuns, IInv, Answered
  <2>2. message.from \notin requested /\ ~ToldOver(message.from)
    BY <1>a, <2>1 DEF Final, Removing
  <2>3. \A a : Pending(a)' <=> Pending(a)
    BY <2>1, SamePending
  <2>4. CASE RequestConnection
    <3>1. /\ slots' = slots \cup {message.from} /\ requested' = requested \cup {message.from}
          /\ told' = told
      BY <2>4 DEF RequestConnection
    <3>2. userAt = "connect" => call.addr # message.from
      BY <2>1 DEF Final
    <3>. QED BY <2>1, <2>2, <2>3, <3>1, <3>2
           DEF Final, FailureIsFinal, ToldOver, Removing, Pending, Positions
  <2>5. CASE NoSlot
    <3>1. /\ slots' = slots /\ requested' = requested
          /\ told' = [told EXCEPT ![message.from] = @ \cup {"CONNECTION_ATTEMPT_FAILED"}]
      BY <2>5 DEF NoSlot, Tell
    <3>2. \A a \in Targets : a # message.from => told'[a] = told[a]
      BY <1>0, <1>a, <3>1
    <3>. QED BY <1>a, <2>1, <2>2, <2>3, <3>1, <3>2
           DEF Final, FailureIsFinal, ToldOver, Removing, Pending, Positions
  <2>. QED BY <1>3, <2>4, <2>5
<1>4. CASE RemoveAttempt
  <2> DEFINE b == message.from
  <2>1. /\ netAt = "reply2_remove" /\ UNCHANGED <<netVars, userAt, call>>
        /\ Pending(b)
    BY <1>4 DEF RemoveAttempt, NetSame, IInv, Answered
  <2>2. PICK p \in DOMAIN connReqQ : Positions(b) = {p}
    BY <2>1 DEF Pending, Positions, IInv, OnePerTarget
  <2>3. RemovedBy(b) = {p}
    BY <1>0, <2>2, OnlyOneRemoved
  <2>4. PICK kept \in [1 .. Cardinality(DOMAIN connReqQ \ {p}) -> DOMAIN connReqQ \ {p}] :
           connReqQ' = [i \in DOMAIN kept |-> connReqQ[kept[i]]]
    BY <1>4, <2>3 DEF RemoveAttempt
  <2>5. ~ \E j \in DOMAIN connReqQ' : connReqQ'[j].addr = b
    BY <2>2, <2>4 DEF Positions
  <2>6. Narrows
    BY <1>0, <1>4, RemoveAttemptDrops, DropsNarrows DEF QInv
  <2> HIDE DEF b
  <2>7. Ends(b)
    BY <2>1, <2>5, <2>6 DEF Ends, netVars, b
  <2>. QED BY <1>a, <2>7, EndsFinal DEF b
<1>. QED BY <1>1, <1>2, <1>3, <1>4

\* A notice that is final ends an attempt whose connection is not requested.
LEMMA TellsFinal ==
  ASSUME IInv, Final, NEW i \in DOMAIN connReqQ, connReqQ' = RemoveAt(connReqQ, i),
         NEW notice, Tell(connReqQ[i].addr, notice),
         UNCHANGED <<slots, requested, userAt, call>>, netAt # "reply2_remove"
  PROVE  Final'
<1> DEFINE b == connReqQ[i].addr
<1>1. told \in [Targets -> SUBSET Notices] /\ QInv
  BY TypeParts DEF IInv, OthersTyped, QInv
<1>2. b \in Targets /\ Narrows /\ Pending(b)
  <2>1. b \in Targets /\ Narrows
    BY <1>1, EntryFields, RemoveAtDrops, DropsNarrows DEF QInv
  <2>. QED BY <2>1 DEF Pending, Positions
<1>3. ~ \E j \in DOMAIN connReqQ' : connReqQ'[j].addr = b
  BY <1>1, RemovedIsGone
<1>4. b \notin requested
  BY <1>2 DEF Final, Removing
<1> HIDE DEF b
<1>5. told' = [told EXCEPT ![b] = @ \cup {notice}]
  BY DEF Tell, b
<1>6. Ends(b)
  BY <1>1, <1>2, <1>3, <1>4, <1>5 DEF Ends
<1>. QED BY <1>2, <1>6, EndsFinal

LEMMA NetFinal ==
  ASSUME IInv, Final, Network
  PROVE  Final'
<1>1. CASE Refused
  <2>1. PICK i \in Matches : connReqQ' = RemoveAt(connReqQ, i)
    BY <1>1 DEF Refused
  <2>2. i \in DOMAIN connReqQ /\ connReqQ[i].addr = message.from
    BY DEF Matches, Positions
  <2>3. /\ Tell(message.from, "REFUSED") /\ netAt = "refused"
        /\ UNCHANGED <<slots, requested, userAt, call>>
    BY <1>1 DEF Refused, NetSame
  <2>. QED BY <2>1, <2>2, <2>3, TellsFinal
<1>2. CASE GiveUp
  <2>1. /\ AtAttempt /\ netAt = "attempts" /\ connReqQ' = RemoveAt(connReqQ, index + 1)
        /\ Tell(Current.addr, "CONNECTION_ATTEMPT_FAILED")
        /\ UNCHANGED <<slots, requested, userAt, call>>
    BY <1>2 DEF GiveUp, AtAttempt, NextIteration, NetSame
  <2>2. index + 1 \in DOMAIN connReqQ /\ Current = connReqQ[index + 1]
    BY <2>1, CurrentTyped
  <2>. QED BY <2>1, <2>2, TellsFinal
<1>3. CASE \E result \in SendResults : TryAgain(result)
  <2>1. PICK result \in SendResults : TryAgain(result)
    BY <1>3
  <2>2. Narrows
    BY <2>1, Tried, AmendsNarrows DEF Amends
  <2>3. netAt = "attempts" /\ UNCHANGED <<slots, requested, told, userAt, call>>
    BY <2>1 DEF TryAgain, AtAttempt, NextIteration, NetSame
  <2>. QED BY <2>2, <2>3, CalmFinal DEF Calm
<1>. QED BY <1>1, <1>2, <1>3, QuietNetFinal, Reply2Final
       DEF Network, OnConnectionReply2, OnConnectionFailed, ProcessConnectionRequestQ

LEMMA FinalStep ==
  ASSUME SingleThread \/ ~RepeatConnect
  PROVE  IInv /\ Final /\ [Next]_vars => Final'
<1> SUFFICES ASSUME IInv, Final, [Next]_vars PROVE Final'
  OBVIOUS
<1>1. CASE LockStep \/ UNCHANGED vars
  BY <1>1, SameNarrows, CalmFinal DEF LockStep, vars, netVars, Calm
<1>2. CASE \E i \in DOMAIN connReqQ : Elapse(i)
  <2>1. PICK i \in DOMAIN connReqQ : Elapse(i)
    BY <1>2
  <2>2. UNCHANGED <<netVars, userAt, netAt, call, message>>
    BY <2>1 DEF Elapse
  <2>. QED BY <2>1, <2>2, Elapsed, AmendsNarrows, CalmFinal DEF Calm, netVars
<1>. QED BY <1>1, <1>2, UserFinal, NetFinal DEF Next

\* A failure is final (FailureIsFinal) for any number of targets, answers and tries, in the
\* single-threaded build however often the user connects, and with two threads for a user
\* who does not call Connect() for a target that is pending already.
THEOREM FailuresAreFinal ==
  ASSUME SingleThread \/ ~RepeatConnect
  PROVE  Spec => []FailureIsFinal
<1>1. Init => Final
  BY DEF Init, Final, FailureIsFinal, ToldOver, Pending, Positions
<1>2. IInv /\ Final /\ [Next]_vars => Final'
  BY FinalStep
<1>3. Final => FailureIsFinal
  BY DEF Final
<1>. QED BY <1>1, <1>2, <1>3, AlwaysIInv, PTL DEF Spec

----------------------------------------------------------------------------
\* Whether a thread has called Lock() once more than Unlock(): InSection from its call of
\* Lock() on, OutOfSection from its call of Unlock() on.
InSection(t) == \/ lockPc[t] \in Lock!LockPoints /\ depth[t] = 0
                \/ lockPc[t] = "idle" /\ depth[t] = 1

OutOfSection(t) == \/ lockPc[t] = "idle" /\ depth[t] = 0
                   \/ lockPc[t] \in Lock!UnlockPoints /\ depth[t] \in {0, 1}

\* Steps inside the calls do not change which of the two a thread is.
LEMMA InsideKeepsSection ==
  ASSUME Lock!TypeOK, NEW t \in Threads, NEW u \in Threads, Lock!Inside(u)
  PROVE  /\ InSection(t) => InSection(t)'
         /\ OutOfSection(t) => OutOfSection(t)'
         /\ lockPc[t] = "idle" => lockPc'[t] = "idle"
<1> USE DEF InSection, OutOfSection, Lock!TypeOK, Lock!Goto, Lock!LockPoints, Lock!UnlockPoints
<1>1. CASE Lock!ReadCount(u) \/ Lock!NotOwner(u) \/ Lock!Acquire(u) \/ Lock!CountFirst(u)
  BY <1>1 DEF Lock!ReadCount, Lock!NotOwner, Lock!Acquire, Lock!CountFirst
<1>2. CASE Lock!Reenter(u) \/ Lock!Own(u)
  BY <1>2 DEF Lock!Reenter, Lock!Own
<1>3. CASE Lock!LastLevel(u) \/ Lock!CountLast(u) \/ Lock!Disown(u)
  BY <1>3 DEF Lock!LastLevel, Lock!CountLast, Lock!Disown
<1>4. CASE Lock!Leave(u) \/ Lock!Release(u)
  BY <1>4 DEF Lock!Leave, Lock!Release, Lock!Undone
<1>. QED BY <1>1, <1>2, <1>3, <1>4 DEF Lock!Inside, Lock!InLock, Lock!InUnlock

\* A call of Lock() enters a section, one of Unlock() leaves it, for the thread that calls.
LEMMA CallsMoveSection ==
  ASSUME Lock!TypeOK, NEW t \in Threads, lockPc[t] = "idle"
  PROVE  /\ OutOfSection(t) /\ Lock!CallLock(t) => InSection(t)'
         /\ (InSection(t) \/ OutOfSection(t)) /\ Lock!CallUnlock(t) => OutOfSection(t)'
         /\ \A u \in Threads : u # t /\ (Lock!CallLock(t) \/ Lock!CallUnlock(t)) =>
               /\ InSection(u)' <=> InSection(u)
               /\ OutOfSection(u)' <=> OutOfSection(u)
               /\ lockPc'[u] = lockPc[u]
BY DEF InSection, OutOfSection, Lock!TypeOK, Lock!Goto, Lock!LockPoints, Lock!UnlockPoints,
       Lock!CallLock, Lock!CallUnlock

LEMMA SameSection ==
  ASSUME UNCHANGED lockVars, NEW t \in Threads
  PROVE  (InSection(t)' <=> InSection(t)) /\ (OutOfSection(t)' <=> OutOfSection(t))
BY DEF InSection, OutOfSection, lockVars

\* Where the network thread has locked the queue: after the answer comes, until it has found
\* the attempt; while it looks for one to cancel; in the first turn of the loop over attempts.
NetLocks == \/ netAt \in {"reply2", "reply2_remove", "refused", "cancel_scan"}
            \/ netAt \in {"reply1", "attempts"} /\ index = 0

AtFirstAttempt == netAt = "attempts" /\ index = 0

\* What the network thread does to its section at its steps.
NetStep == \/ UNCHANGED lockVars /\ NetLocks' = NetLocks
           \/ Lock!CallLock(NetworkThread) /\ ~NetLocks /\ NetLocks'
           \/ Lock!CallUnlock(NetworkThread) /\ ~NetLocks'

LEMMA NetSteps ==
  ASSUME IInv, Network, AtFirstAttempt => connReqQ # << >>
  PROVE  /\ NetStep /\ lockPc[NetworkThread] = "idle" /\ userAt' = userAt
         /\ AtFirstAttempt' => connReqQ' # << >>
         /\ netAt' = "idle" => UNCHANGED lockVars
<1> USE DEF NetStep, NetLocks, AtFirstAttempt, NetGoto, NetRuns, NetSame
<1>1. connReqQ \in Seq(Entries) /\ index \in Nat
  BY DEF IInv, TypeOK
<1>2. CASE BeginCycle \/ EndReceive \/ \E m \in Answers : Deliver(m)
  BY <1>2 DEF BeginCycle, EndReceive, Deliver, Answers
<1>3. CASE OnConnectionReply1
  BY <1>3, PluginsAssumption DEF OnConnectionReply1, NoneMatches, Reply1Match, SendRequest2,
       ServerInsecure, BadServerKey
<1>4. CASE OnConnectionReply2
  BY <1>4 DEF OnConnectionReply2, NoneMatches, KeyNotPassed, Reply2Match, InvalidAnswer,
       RequestConnection, NoSlot, RemoveAttempt
<1>5. CASE OnConnectionFailed
  BY <1>5 DEF OnConnectionFailed, NoneMatches, Refused
<1>6. CASE ProcessConnectionRequestCancelQ
  BY <1>6 DEF ProcessConnectionRequestCancelQ, CancelOne, NothingCancelled, EndCancel
<1>7. CASE LockAttempts
  BY <1>7 DEF LockAttempts
<1>8. CASE EndCycle
  <2>1. ~AtFirstAttempt \/ ~(index >= Len(connReqQ))
    BY <1>1
  <2>. QED BY <1>8, <2>1 DEF EndCycle
<1>9. CASE NotYet \/ GiveUp \/ \E result \in SendResults : TryAgain(result)
  <2>1. AtAttempt /\ NextIteration
    BY <1>9 DEF NotYet, GiveUp, TryAgain
  <2>. QED BY <1>1, <2>1 DEF AtAttempt, NextIteration
<1>. QED BY <1>2, <1>3, <1>4, <1>5, <1>6, <1>7, <1>8, <1>9 DEF Network, ProcessConnectionRequestQ

\* With two threads, the network thread is in a section exactly where the code has it.
NetSection == ~SingleThread => /\ IF NetLocks THEN InSection(NetworkThread)
                                              ELSE OutOfSection(NetworkThread)
                               /\ AtFirstAttempt => connReqQ # << >>
                               /\ netAt = "idle" => lockPc[NetworkThread] = "idle"

LEMMA UserSteps ==
  ASSUME User
  PROVE  /\ UNCHANGED lockVars \/ Lock!CallLock(UserThread) \/ Lock!CallUnlock(UserThread)
         /\ lockPc[UserThread] = "idle" /\ netAt' = netAt /\ index' = index
BY DEF User, CallConnect, PostAttempt, AlreadyInProgress, CancelConnectionRequest, UserRuns

\* Only the network thread takes attempts out.
LEMMA QueueStaysFilled ==
  ASSUME connReqQ \in Seq(Entries), connReqQ # << >>,
         User \/ LockStep \/ (\E i \in DOMAIN connReqQ : Elapse(i)) \/ UNCHANGED vars
  PROVE  connReqQ' # << >>
<1>1. CASE connReqQ' = connReqQ
  BY <1>1
<1>2. CASE PostAttempt
  BY <1>2 DEF PostAttempt
<1>3. CASE \E i \in DOMAIN connReqQ : Elapse(i)
  BY <1>3 DEF Elapse
<1>. QED BY <1>1, <1>2, <1>3 DEF User, CallConnect, AlreadyInProgress, CancelConnectionRequest,
       LockStep, vars

LEMMA SectionStep == IInv /\ NetSection /\ [Next]_vars => NetSection'
<1> SUFFICES ASSUME IInv, NetSection, [Next]_vars, ~SingleThread PROVE NetSection'
  BY DEF NetSection
<1> USE DEF NetSection
<1>1. /\ Lock!TypeOK /\ connReqQ \in Seq(Entries)
      /\ UserThread \in Threads /\ NetworkThread \in Threads /\ UserThread # NetworkThread
  BY DEF IInv, TypeOK, Threads, SingleThread
<1>2. CASE Network
  <2>1. /\ NetStep /\ lockPc[NetworkThread] = "idle"
        /\ AtFirstAttempt' => connReqQ' # << >>
        /\ netAt' = "idle" => lockPc'[NetworkThread] = "idle"
    BY <1>2, NetSteps DEF lockVars
  <2>2. CASE UNCHANGED lockVars /\ NetLocks' = NetLocks
    BY <1>1, <2>1, <2>2, SameSection
  <2>3. CASE Lock!CallLock(NetworkThread) /\ ~NetLocks /\ NetLocks'
    BY <1>1, <2>1, <2>3, CallsMoveSection
  <2>4. CASE Lock!CallUnlock(NetworkThread) /\ ~NetLocks'
    BY <1>1, <2>1, <2>4, CallsMoveSection
  <2>. QED BY <2>1, <2>2, <2>3, <2>4 DEF NetStep
<1>3. ASSUME netAt' = netAt, index' = index, AtFirstAttempt => connReqQ' # << >>,
             /\ InSection(NetworkThread) => InSection(NetworkThread)'
             /\ OutOfSection(NetworkThread) => OutOfSection(NetworkThread)'
             /\ lockPc[NetworkThread] = "idle" => lockPc'[NetworkThread] = "idle"
      PROVE  NetSection'
  BY <1>3 DEF NetLocks, AtFirstAttempt
<1>4. CASE User
  BY <1>1, <1>3, <1>4, UserSteps, QueueStaysFilled, CallsMoveSection, SameSection
       DEF AtFirstAttempt, lockVars
<1>5. CASE LockStep
  <2>1. netAt' = netAt /\ index' = index
    BY <1>5 DEF LockStep
  <2>2. PICK u \in Threads : Lock!Inside(u)
    BY <1>5 DEF LockStep
  <2>. QED BY <1>1, <1>3, <1>5, <2>1, <2>2, InsideKeepsSection, QueueStaysFilled
<1>6. CASE (\E i \in DOMAIN connReqQ : Elapse(i)) \/ UNCHANGED vars
  <2>1. UNCHANGED lockVars /\ netAt' = netAt /\ index' = index
    BY <1>6 DEF Elapse, vars
  <2>. QED BY <1>1, <1>3, <1>6, <2>1, SameSection, QueueStaysFilled DEF lockVars
<1>. QED BY <1>2, <1>4, <1>5, <1>6 DEF Next

LEMMA InitSection == Init => NetSection
BY DEF Init, NetSection, NetLocks, AtFirstAttempt, OutOfSection, Lock!Init, Threads

----------------------------------------------------------------------------
\* For a single target the queue is guarded, although the answers 1 and 2 make the network
\* thread unlock more often than it locks, so that m_count drifts: an Unlock() too many is
\* only ever called while the attempt is pending and the user's thread cannot be in Connect().
OneTarget == ~RepeatConnect /\ \A a, b \in Targets : a = b

\* The user's thread is out of Connect() and stays out as long as the attempt is pending.
Clear == /\ userAt = "idle" /\ lockPc[UserThread] = "idle" /\ m_mutex # UserThread
         /\ DOMAIN connReqQ # {}

\* Where the network thread has let go of the lock and may unlock it again.
Passed == \/ netAt \in {"reply1_match", "reply2_match"}
          \/ netAt = "reply1" /\ index # 0

\* Whoever has locked, or believes so, has the pthread mutex.
Mutexed == \A t \in Threads :
             /\ depth[t] > 0 \/ lockPc[t] \in {"count", "own"} \/ m_threadID = t => m_mutex = t
             /\ lockPc[t] = "release" => m_threadID = NoThread

UserSection == /\ IF userAt = "connect" THEN InSection(UserThread) ELSE OutOfSection(UserThread)
               /\ userAt = "connect" => DOMAIN connReqQ = {}

Unlocking == /\ lockPc[UserThread] \in Lock!UnlockPoints => m_mutex = UserThread
             /\ lockPc[NetworkThread] \in Lock!UnlockPoints => m_mutex = NetworkThread \/ Clear
             /\ Passed => Clear

Guarded == ~SingleThread => Mutexed /\ UserSection /\ Unlocking

Facts == /\ Lock!TypeOK /\ connReqQ \in Seq(Entries) /\ userAt \in {"idle", "connect"}
         /\ Threads = {UserThread, NetworkThread} /\ UserThread # NetworkThread
         /\ NoThread \notin Threads
         /\ Mutexed /\ UserSection /\ Unlocking
         /\ InSection(NetworkThread) \/ OutOfSection(NetworkThread)

\* The steps inside Lock() and Unlock(), of either thread: whatever m_count is.
LEMMA LockStepGuarded ==
  ASSUME Facts, LockStep
  PROVE  Mutexed' /\ UserSection' /\ Unlocking'
<1>1. PICK u \in Threads : Lock!Inside(u)
  BY DEF LockStep
<1>2. connReqQ' = connReqQ /\ userAt' = userAt /\ netAt' = netAt /\ index' = index
  BY DEF LockStep
<1>3. UserSection'
  BY <1>1, <1>2, InsideKeepsSection DEF Facts, UserSection
<1>4. Mutexed' /\ Unlocking'
  <2> USE <1>2 DEF Facts, Mutexed, UserSection, Unlocking, Clear, Passed, InSection, OutOfSection,
          Lock!TypeOK, Lock!Goto, Lock!LockPoints, Lock!UnlockPoints
  <2>1. CASE Lock!ReadCount(u)
    BY <2>1 DEF Lock!ReadCount
  <2>2. CASE Lock!Reenter(u)
    BY <2>2 DEF Lock!Reenter
  <2>3. CASE Lock!NotOwner(u)
    BY <2>3 DEF Lock!NotOwner
  <2>4. CASE Lock!Acquire(u)
    BY <2>4 DEF Lock!Acquire
  <2>5. CASE Lock!CountFirst(u)
    BY <2>5 DEF Lock!CountFirst
  <2>6. CASE Lock!Own(u)
    BY <2>6 DEF Lock!Own
  <2>7. CASE Lock!Leave(u)
    BY <2>7 DEF Lock!Leave, Lock!Undone
  <2>8. CASE Lock!LastLevel(u)
    BY <2>8 DEF Lock!LastLevel
  <2>9. CASE Lock!CountLast(u)
    BY <2>9 DEF Lock!CountLast
  <2>10. CASE Lock!Disown(u)
    BY <2>10 DEF Lock!Disown
  <2>11. CASE Lock!Release(u)
    BY <2>11 DEF Lock!Release, Lock!Undone
  <2>. QED BY <1>1, <2>1, <2>2, <2>3, <2>4, <2>5, <2>6, <2>7, <2>8, <2>9, <2>10, <2>11
         DEF Lock!Inside, Lock!InLock, Lock!InUnlock
<1>. QED BY <1>3, <1>4

\* How the steps of the network thread go with the lock: unlocking too often is for
\* where it has Passed, with the queue as it is.
GuardStep ==
  \/ UNCHANGED <<lockVars, connReqQ>> /\ (Passed' => Passed)
  \/ Lock!CallLock(NetworkThread) /\ connReqQ' = connReqQ /\ ~Passed'
  \/ /\ Lock!CallUnlock(NetworkThread) /\ NetLocks
     /\ DOMAIN connReqQ = {} => DOMAIN connReqQ' = {} /\ ~Passed'
     /\ Passed' => connReqQ' = connReqQ
  \/ Lock!CallUnlock(NetworkThread) /\ Passed /\ connReqQ' = connReqQ

LEMMA RemoveFromNothing ==
  ASSUME connReqQ \in Seq(Entries), RemoveAttempt, DOMAIN connReqQ = {}
  PROVE  DOMAIN connReqQ' = {}
<1>1. Drops(message.from)
  BY RemoveAttemptDrops
<1>2. PICK n \in Nat : \E kept \in [1 .. n -> DOMAIN connReqQ] : Keeps(n, kept, message.from)
  BY <1>1 DEF Drops
<1>3. PICK kept \in [1 .. n -> DOMAIN connReqQ] : Keeps(n, kept, message.from)
  BY <1>2
<1>4. 1 .. n = {}
  BY <1>3
<1>. QED BY <1>3, <1>4 DEF Keeps

\* With one target there is one attempt at most: the loop that unlocks in every turn has one turn.
LEMMA FirstTurn ==
  ASSUME IInv, OneTarget, AtAttempt
  PROVE  index = 0 /\ DOMAIN connReqQ # {}
<1>1. connReqQ \in Seq(Entries) /\ index \in Nat /\ index < Len(connReqQ)
  BY DEF IInv, TypeOK, AtAttempt
<1>2. 1 \in DOMAIN connReqQ /\ index + 1 \in DOMAIN connReqQ
  BY <1>1
<1>3. connReqQ[1].addr \in Targets /\ connReqQ[index + 1].addr \in Targets
  BY <1>1, <1>2, EntryFields
<1>4. connReqQ[1].addr = connReqQ[index + 1].addr
  BY <1>3 DEF OneTarget
<1>5. index + 1 = 1
  BY <1>2, <1>4 DEF IInv, OnePerTarget
<1>. QED BY <1>1, <1>2, <1>5

LEMMA NetGuardSteps ==
  ASSUME IInv, OneTarget, Network
  PROVE  GuardStep
<1> USE DEF GuardStep, NetLocks, Passed, NetGoto, NetRuns
<1>1. connReqQ \in Seq(Entries) /\ index \in Nat
  BY DEF IInv, TypeOK
<1>2. Matches # {} => DOMAIN connReqQ # {}
  BY DEF Matches, Positions
<1>3. CASE BeginCycle \/ EndReceive \/ \E m \in Answers : Deliver(m)
  BY <1>3 DEF BeginCycle, EndReceive, Deliver, Answers
<1>4. CASE OnConnectionReply1
  BY <1>2, <1>4, PluginsAssumption DEF OnConnectionReply1, NoneMatches, Reply1Match,
       SendRequest2, ServerInsecure, BadServerKey
<1>5. CASE RemoveAttempt
  <2>1. /\ netAt = "reply2_remove" /\ netAt' = "receive"
        /\ Lock!CallUnlock(NetworkThread)
    BY <1>5 DEF RemoveAttempt
  <2>. QED BY <1>1, <1>5, <2>1, RemoveFromNothing
<1>6. CASE NoneMatches("reply2") \/ KeyNotPassed \/ Reply2Match \/ InvalidAnswer
            \/ RequestConnection \/ NoSlot
  BY <1>2, <1>6 DEF NoneMatches, KeyNotPassed, Reply2Match, InvalidAnswer,
       RequestConnection, NoSlot
<1>7. CASE OnConnectionFailed
  BY <1>2, <1>7 DEF OnConnectionFailed, NoneMatches, Refused
<1>8. CASE ProcessConnectionRequestCancelQ
  BY <1>8 DEF ProcessConnectionRequestCancelQ, CancelOne, NothingCancelled, EndCancel
<1>9. CASE LockAttempts \/ EndCycle
  BY <1>9 DEF LockAttempts, EndCycle
<1>10. CASE NotYet \/ GiveUp \/ \E result \in SendResults : TryAgain(result)
  <2>1. AtAttempt /\ NextIteration
    BY <1>10 DEF NotYet, GiveUp, TryAgain
  <2>. QED BY <2>1, FirstTurn DEF AtAttempt, NextIteration
<1>. QED BY <1>3, <1>4, <1>5, <1>6, <1>7, <1>8, <1>9, <1>10
       DEF Network, OnConnectionReply2, ProcessConnectionRequestQ

LEMMA NetGuarded ==
  ASSUME Facts, GuardStep, lockPc[NetworkThread] = "idle", userAt' = userAt,
         NetLocks => InSection(NetworkThread)
  PROVE  Mutexed' /\ UserSection' /\ Unlocking'
<1> USE DEF Facts, Mutexed, UserSection, Unlocking, Clear, InSection, OutOfSection,
        Lock!TypeOK, Lock!Goto, Lock!LockPoints, Lock!UnlockPoints
<1>1. CASE UNCHANGED <<lockVars, connReqQ>> /\ (Passed' => Passed)
  BY <1>1 DEF lockVars
<1>2. CASE Lock!CallLock(NetworkThread) /\ connReqQ' = connReqQ /\ ~Passed'
  BY <1>2 DEF Lock!CallLock
<1>3. CASE /\ Lock!CallUnlock(NetworkThread) /\ NetLocks
           /\ DOMAIN connReqQ = {} => DOMAIN connReqQ' = {} /\ ~Passed'
           /\ Passed' => connReqQ' = connReqQ
  <2>1. m_mutex = NetworkThread
    BY <1>3
  <2>2. DOMAIN connReqQ # {} => userAt = "idle" /\ lockPc[UserThread] = "idle"
    BY <2>1
  <2>3. /\ lockPc' = [lockPc EXCEPT ![NetworkThread] = "unlock"]
        /\ UNCHANGED <<m_count, m_threadID, m_mutex, depth>>
    BY <1>3 DEF Lock!CallUnlock
  <2>4. Mutexed'
    BY <2>3
  <2>5. UserSection'
    BY <1>3, <2>3
  <2>6. Passed' => Clear'
    BY <1>3, <2>1, <2>2, <2>3
  <2>. QED BY <2>1, <2>3, <2>4, <2>5, <2>6
<1>4. CASE Lock!CallUnlock(NetworkThread) /\ Passed /\ connReqQ' = connReqQ
  BY <1>4 DEF Lock!CallUnlock
<1>. QED BY <1>1, <1>2, <1>3, <1>4 DEF GuardStep

\* Connect() is called only while no attempt is pending, and posts one.
LEMMA UserGuarded ==
  ASSUME IInv, Facts, OneTarget, User
  PROVE  Mutexed' /\ UserSection' /\ Unlocking'
<1>1. lockPc[UserThread] = "idle"
  BY DEF User, CallConnect, PostAttempt, AlreadyInProgress, CancelConnectionRequest, UserRuns
<1>2. netAt' = netAt /\ index' = index
  BY UserSteps
<1>3. ASSUME NEW a \in Targets, ~Pending(a) PROVE DOMAIN connReqQ = {}
  <2>1. \A i \in DOMAIN connReqQ : connReqQ[i].addr = a
    BY EntryFields DEF Facts, OneTarget
  <2>. QED BY <1>3, <2>1 DEF Pending, Positions
<1>4. userAt = "connect" => ~Pending(call.addr)
  BY DEF Facts, UserSection, Pending, Positions
<1> USE <1>1, <1>2 DEF Facts, Mutexed, UserSection, Unlocking, Clear, Passed, InSection,
        OutOfSection, Lock!TypeOK, Lock!Goto, Lock!LockPoints, Lock!UnlockPoints
<1>5. CASE \E a \in Targets, mode \in Modes : CallConnect(a, mode)
  <2>1. PICK a \in Targets, mode \in Modes : CallConnect(a, mode)
    BY <1>5
  <2>2. /\ userAt = "idle" /\ userAt' = "connect" /\ connReqQ' = connReqQ
        /\ Lock!CallLock(UserThread) /\ ~Pending(a)
    BY <2>1 DEF CallConnect, OneTarget
  <2>3. DOMAIN connReqQ = {} /\ ~Clear
    BY <1>3, <2>2
  <2>. QED BY <2>2, <2>3 DEF Lock!CallLock
<1>6. CASE PostAttempt
  <2>1. /\ userAt = "connect" /\ userAt' = "idle" /\ Lock!CallUnlock(UserThread)
    BY <1>6 DEF PostAttempt
  <2>2. m_mutex = UserThread /\ ~Passed
    BY <2>1
  <2>. QED BY <2>1, <2>2 DEF Lock!CallUnlock
<1>7. CASE AlreadyInProgress
  BY <1>4, <1>7 DEF AlreadyInProgress
<1>8. CASE \E a \in Targets : CancelConnectionRequest(a)
  BY <1>8 DEF CancelConnectionRequest, lockVars
<1>. QED BY <1>5, <1>6, <1>7, <1>8 DEF User

LEMMA GuardedStep ==
  ASSUME OneTarget
  PROVE  IInv /\ NetSection /\ Guarded /\ [Next]_vars => Guarded'
<1> SUFFICES ASSUME IInv, NetSection, Guarded, [Next]_vars, ~SingleThread
             PROVE  Mutexed' /\ UserSection' /\ Unlocking'
  BY DEF Guarded
<1>1. Facts
  BY ThreadsAssumption DEF IInv, TypeOK, Threads, SingleThread, Guarded, NetSection, Facts
<1>2. CASE User
  BY <1>1, <1>2, UserGuarded
<1>3. CASE Network
  BY <1>1, <1>3, NetGuardSteps, NetGuarded, NetSteps DEF NetSection
<1>4. CASE LockStep
  BY <1>1, <1>4, LockStepGuarded
<1>5. CASE (\E i \in DOMAIN connReqQ : Elapse(i)) \/ UNCHANGED vars
  <2>1. /\ UNCHANGED lockVars /\ userAt' = userAt /\ netAt' = netAt /\ index' = index
        /\ DOMAIN connReqQ' = DOMAIN connReqQ
    BY <1>1, <1>5 DEF Elapse, vars, Facts
  <2>. QED BY <1>1, <2>1 DEF Facts, Mutexed, UserSection, Unlocking, Clear, Passed, InSection,
         OutOfSection, lockVars
<1>. QED BY <1>2, <1>3, <1>4, <1>5 DEF Next

LEMMA InitGuarded == Init => Guarded
BY ThreadsAssumption DEF Init, Guarded, Mutexed, UserSection, OutOfSection, Unlocking, Passed, Threads,
   Lock!Init, Lock!UnlockPoints

\* The queue is never in the hands of both threads (QueueGuarded) while the user connects to
\* one target, and not again while that is pending: whatever answers come, with whatever
\* security, and however often the network thread has unlocked what it had not locked.
THEOREM OneTargetIsGuarded ==
  ASSUME OneTarget
  PROVE  Spec => []QueueGuarded
<1>1. IInv /\ Guarded => QueueGuarded
  <2> SUFFICES ASSUME IInv, Guarded, NEW t \in Threads, NEW u \in Threads,
                      Lock!Holds(t), Lock!Holds(u)
               PROVE  t = u
    BY DEF QueueGuarded, Lock!MutualExclusion
  <2>. QED BY DEF Guarded, Mutexed, Threads, SingleThread, Lock!Holds
<1>2. IInv /\ NetSection /\ [Next]_vars => NetSection'
  BY SectionStep
<1>3. IInv /\ NetSection /\ Guarded /\ [Next]_vars => Guarded'
  BY GuardedStep
<1>. QED BY <1>1, <1>2, <1>3, InitSection, InitGuarded, AlwaysIInv, PTL DEF Spec
=============================================================================
