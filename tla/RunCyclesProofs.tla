--------------------------- MODULE RunCyclesProofs ---------------------------
(***************************************************************************)
(* In a build whose DCHECKs evaluate their arguments, every datagram       *)
(* buffer, packet and command is in exactly one place, for every number of *)
(* sockets, plugins and elements and in both builds of the cycles.  The    *)
(* argument: every step that touches an element moves it from one place to *)
(* another (Move); a PushTail that has been called holds what it will push *)
(* (Calls), and so does a thread whose plugins look at a packet (Plugins). *)
(* A null pointer (what a plugin list that has taken the packet leaves to  *)
(* the other one) is in no place and may be pushed to a deAlloc queue.     *)
(***************************************************************************)
EXTENDS RunCycles, TLAPS

PluginPoints == {"pluginsTS", "pluginsNTS"}

Points == {"idle", "crashed", "reclaim", "alloc", "receive", "end", "commands", "connect",
           "commandDone", "recvParams", "process", "recvDone", "requests", "called", "pop",
           "pluginsTS", "pluginsNTS", "return"}

PushTails == [queue : {"none", "alloc", "deAlloc"},
              circuit : {"recvParams", "packet", "command"} \X Nat,
              item : AllElements \cup {None},
              checked : BOOLEAN,
              then : Points]

QueuesTyped == /\ pool \in [Circuits -> SUBSET AllElements]
               /\ alloc \in [Circuits -> Seq(AllElements)]
               /\ deAlloc \in [Circuits -> Seq(AllElements \cup {None})]
               /\ has \in [Threads -> SUBSET AllElements]

LocalsTyped == /\ at \in [Threads -> Points \cup {"push"}]
               /\ push \in [Threads -> PushTails]
               /\ index \in [Threads -> Nat]
               /\ outter \in Sockets
               /\ incomePacket \in AllElements \cup {None}

\* A thread in PushTail holds the element it pushes; only a deAlloc queue can be
\* given a null.
Calls == \A t \in Threads : at[t] = "push" =>
            \/ push[t].item \in has[t]
            \/ push[t].queue # "alloc" /\ push[t].item = None

\* The user's thread holds the packet its plugins look at.
Plugins == /\ at[User] \in PluginPoints => incomePacket \in has[User] \cup {None}
           /\ at[User] = "push" /\ push[User].then \in PluginPoints => incomePacket = None

IInv == QueuesTyped /\ LocalsTyped /\ Calls /\ Plugins /\ OwnedOnce

----------------------------------------------------------------------------
LEMMA Names ==
  /\ Net \in Threads /\ User \in Threads /\ Net # User
  /\ \A s \in Sockets : /\ RecvThread(s) \in Threads /\ RecvThread(s) # User
                        /\ Recv(s) \in Circuits
  /\ Packet \in Circuits /\ Command \in Circuits
  /\ 0 \in Sockets /\ Sockets \subseteq Nat
  /\ \A c \in Circuits : c \in {"recvParams", "packet", "command"} \X Nat
BY SocketsAssumption DEF Net, User, Threads, RecvThread, Recv, Packet, Command, Circuits, Sockets

LEMMA NoneIsNoElement == None \notin AllElements
<1> SUFFICES ASSUME NEW c \in Circuits, NEW k \in 1 .. PoolSizes[c[1]],
                    None = [home |-> c, number |-> k]
             PROVE  FALSE
  BY DEF AllElements, Elements
<1>1. None.home = c
  OBVIOUS
<1>2. c = <<"null", 0>>
  BY <1>1 DEF None
<1>3. c[1] \in {"recvParams", "packet", "command"}
  BY Names
<1> QED BY <1>2, <1>3

\* An element is in exactly one box of f.
InOneBox(f) == \A e \in AllElements :
                  \E b \in Boxes : \A other \in Boxes : e \in f[other] <=> other = b

\* What S holds goes from one box to another.
Moves(f, g, S, from, to) ==
  /\ from \in Boxes /\ to \in Boxes /\ from # to
  /\ \A e \in AllElements : e \in S => e \in f[from]
  /\ g[from] = f[from] \ S /\ g[to] = f[to] \cup S
  /\ \A b \in Boxes : b # from /\ b # to => g[b] = f[b]

LEMMA Move ==
  ASSUME NEW f, NEW g, NEW S, NEW from, NEW to, InOneBox(f), Moves(f, g, S, from, to)
  PROVE  InOneBox(g)
<1> USE DEF Moves
<1> SUFFICES ASSUME NEW e \in AllElements
             PROVE  \E b \in Boxes : \A other \in Boxes : e \in g[other] <=> other = b
  BY DEF InOneBox
<1>1. PICK b \in Boxes : \A other \in Boxes : e \in f[other] <=> other = b
  BY DEF InOneBox
<1>2. CASE e \in S
  <2>1. b = from
    BY <1>1, <1>2
  <2>2. \A other \in Boxes : e \in g[other] <=> other = to
    BY <1>1, <1>2, <2>1
  <2> QED BY <2>2
<1>3. CASE e \notin S
  <2>1. \A other \in Boxes : e \in g[other] <=> e \in f[other]
    BY <1>3
  <2> QED BY <1>1, <2>1
<1> QED BY <1>2, <1>3

\* The boxes by name, and what each holds.
LEMMA BoxNames ==
  /\ \A c \in Circuits : /\ <<"pool", c>> \in Boxes /\ Inside[<<"pool", c>>] = pool[c]
                         /\ <<"alloc", c>> \in Boxes
                         /\ Inside[<<"alloc", c>>] = ToSet(alloc[c])
                         /\ <<"deAlloc", c>> \in Boxes
                         /\ Inside[<<"deAlloc", c>>] = ToSet(deAlloc[c])
  /\ \A t \in Threads : <<"thread", t>> \in Boxes /\ Inside[<<"thread", t>>] = has[t]
  /\ \A b \in Boxes : \/ \E c \in Circuits : b \in {<<"pool", c>>, <<"alloc", c>>, <<"deAlloc", c>>}
                      \/ \E t \in Threads : b = <<"thread", t>>
BY DEF Boxes, Inside

LEMMA BoxNamesPrime ==
  /\ \A c \in Circuits : /\ Inside'[<<"pool", c>>] = pool'[c]
                         /\ Inside'[<<"alloc", c>>] = ToSet(alloc'[c])
                         /\ Inside'[<<"deAlloc", c>>] = ToSet(deAlloc'[c])
  /\ \A t \in Threads : Inside'[<<"thread", t>>] = has'[t]
BY DEF Boxes, Inside

\* Only the boxes x and y change.
OnlyChange(x, y) ==
  /\ \A c \in Circuits : /\ <<"pool", c>> \notin {x, y} => pool'[c] = pool[c]
                         /\ <<"alloc", c>> \notin {x, y} => alloc'[c] = alloc[c]
                         /\ <<"deAlloc", c>> \notin {x, y} => deAlloc'[c] = deAlloc[c]
  /\ \A t \in Threads : <<"thread", t>> \notin {x, y} => has'[t] = has[t]

LEMMA OtherBoxes ==
  ASSUME NEW x, NEW y, OnlyChange(x, y)
  PROVE  \A b \in Boxes : b # x /\ b # y => Inside'[b] = Inside[b]
<1> USE DEF OnlyChange
<1> SUFFICES ASSUME NEW b \in Boxes, b # x, b # y
             PROVE  Inside'[b] = Inside[b]
  OBVIOUS
<1>1. ASSUME NEW c \in Circuits, b = <<"pool", c>> PROVE Inside'[b] = Inside[b]
  <2>1. pool'[c] = pool[c]
    BY <1>1
  <2> QED BY <1>1, <2>1 DEF Inside
<1>2. ASSUME NEW c \in Circuits, b = <<"alloc", c>> PROVE Inside'[b] = Inside[b]
  <2>1. alloc'[c] = alloc[c]
    BY <1>2
  <2> QED BY <1>2, <2>1 DEF Inside
<1>3. ASSUME NEW c \in Circuits, b = <<"deAlloc", c>> PROVE Inside'[b] = Inside[b]
  <2>1. deAlloc'[c] = deAlloc[c]
    BY <1>3
  <2> QED BY <1>3, <2>1 DEF Inside
<1>4. ASSUME NEW t \in Threads, b = <<"thread", t>> PROVE Inside'[b] = Inside[b]
  <2>1. has'[t] = has[t]
    BY <1>4
  <2> QED BY <1>4, <2>1 DEF Inside
<1> QED BY <1>1, <1>2, <1>3, <1>4, BoxNames

----------------------------------------------------------------------------
\* Queues as sets.

LEMMA AppendElements ==
  ASSUME NEW T, NEW q \in Seq(T), NEW e \in T
  PROVE  /\ Append(q, e) \in Seq(T)
         /\ Len(q) \in Nat /\ DOMAIN q = 1 .. Len(q)
         /\ DOMAIN Append(q, e) = 1 .. Len(q) + 1
         /\ Append(q, e)[Len(q) + 1] = e
         /\ \A i \in 1 .. Len(q) : Append(q, e)[i] = q[i]
OBVIOUS

LEMMA AppendedSet ==
  ASSUME NEW T, NEW q \in Seq(T), NEW e \in T
  PROVE  ToSet(Append(q, e)) = ToSet(q) \cup {e}
<1>1. /\ Len(q) \in Nat /\ DOMAIN q = 1 .. Len(q)
      /\ DOMAIN Append(q, e) = 1 .. Len(q) + 1
      /\ Append(q, e)[Len(q) + 1] = e
      /\ \A i \in 1 .. Len(q) : Append(q, e)[i] = q[i]
  BY AppendElements
<1>5. \A x \in ToSet(Append(q, e)) : x \in ToSet(q) \cup {e}
  BY <1>1 DEF ToSet
<1>6. \A x \in ToSet(q) \cup {e} : x \in ToSet(Append(q, e))
  BY <1>1 DEF ToSet
<1> QED BY <1>5, <1>6

LEMMA TailElements ==
  ASSUME NEW T, NEW q \in Seq(T), q # << >>
  PROVE  /\ Tail(q) \in Seq(T)
         /\ Head(q) \in T /\ Head(q) = q[1]
         /\ Len(q) \in Nat \ {0} /\ DOMAIN q = 1 .. Len(q)
         /\ DOMAIN Tail(q) = 1 .. Len(q) - 1
         /\ \A i \in 1 .. Len(q) - 1 : Tail(q)[i] = q[i + 1]
OBVIOUS

\* The elements of a queue that are no null are left once each without its head.
LEMMA TailSet ==
  ASSUME NEW T, NEW q \in Seq(T), q # << >>,
         \A i, k \in DOMAIN q : q[i] = q[k] /\ q[i] # None => i = k,
         Head(q) # None
  PROVE  /\ ToSet(Tail(q)) = ToSet(q) \ {Head(q)}
         /\ Head(q) \in ToSet(q)
         /\ \A i, k \in DOMAIN Tail(q) : Tail(q)[i] = Tail(q)[k] /\ Tail(q)[i] # None => i = k
<1>0. /\ Len(q) \in Nat \ {0} /\ DOMAIN q = 1 .. Len(q) /\ Head(q) = q[1]
      /\ DOMAIN Tail(q) = 1 .. Len(q) - 1
      /\ \A i \in 1 .. Len(q) - 1 : Tail(q)[i] = q[i + 1]
  BY TailElements
<1>1. Head(q) \in ToSet(q)
  BY <1>0 DEF ToSet
<1>2. ASSUME NEW x \in ToSet(Tail(q)) PROVE x \in ToSet(q) \ {Head(q)}
  <2>1. PICK i \in 1 .. Len(q) - 1 : x = q[i + 1]
    BY <1>0, <1>2 DEF ToSet
  <2>2. i + 1 \in DOMAIN q /\ i + 1 # 1 /\ 1 \in DOMAIN q
    BY <1>0
  <2>3. q[i + 1] # q[1]
    BY <1>0, <2>2
  <2> QED BY <1>0, <2>1, <2>2, <2>3 DEF ToSet
<1>3. ASSUME NEW x \in ToSet(q) \ {Head(q)} PROVE x \in ToSet(Tail(q))
  <2>1. PICK i \in 1 .. Len(q) : x = q[i]
    BY <1>0 DEF ToSet
  <2>2. i # 1
    BY <1>0, <2>1
  <2>3. i - 1 \in 1 .. Len(q) - 1 /\ (i - 1) + 1 = i
    BY <1>0, <2>2
  <2>4. Tail(q)[i - 1] = x
    BY <1>0, <2>1, <2>3
  <2> QED BY <1>0, <2>3, <2>4 DEF ToSet
<1>4. ASSUME NEW i \in DOMAIN Tail(q), NEW k \in DOMAIN Tail(q),
             Tail(q)[i] = Tail(q)[k], Tail(q)[i] # None
      PROVE  i = k
  <2>1. /\ i + 1 \in DOMAIN q /\ k + 1 \in DOMAIN q
        /\ Tail(q)[i] = q[i + 1] /\ Tail(q)[k] = q[k + 1]
    BY <1>0
  <2>2. i + 1 = k + 1
    BY <1>4, <2>1
  <2> QED BY <1>0, <2>2
<1> QED BY <1>1, <1>2, <1>3, <1>4

LEMMA AppendOnce ==
  ASSUME NEW T, NEW q \in Seq(T), NEW e \in T,
         \A i, k \in DOMAIN q : q[i] = q[k] /\ q[i] # None => i = k,
         e # None => e \notin ToSet(q)
  PROVE  \A i, k \in DOMAIN Append(q, e) :
            Append(q, e)[i] = Append(q, e)[k] /\ Append(q, e)[i] # None => i = k
<1>1. /\ Len(q) \in Nat /\ DOMAIN q = 1 .. Len(q)
      /\ DOMAIN Append(q, e) = 1 .. Len(q) + 1
      /\ Append(q, e)[Len(q) + 1] = e
      /\ \A i \in 1 .. Len(q) : Append(q, e)[i] = q[i]
  BY AppendElements
<1>2. \A i \in 1 .. Len(q) : e # None => q[i] # e
  BY <1>1 DEF ToSet
<1>5. \A i \in DOMAIN Append(q, e) : i = Len(q) + 1 \/ i \in 1 .. Len(q)
  BY <1>1
<1> QED BY <1>1, <1>2, <1>5

----------------------------------------------------------------------------
\* The moves of the program.

LEMMA FreeOnes ==
  ASSUME NEW c \in Circuits, pool[c] # {}
  PROVE  FirstFree(c) \in pool[c]
BY DEF FirstFree

LEMMA OwnedParts == OwnedOnce <=> InOneBox(Inside) /\ OncePerQueue(alloc) /\ OncePerQueue(deAlloc)
BY DEF OwnedOnce, InOneBox

LEMMA OwnedPartsPrime ==
  OwnedOnce' <=> InOneBox(Inside') /\ OncePerQueue(alloc') /\ OncePerQueue(deAlloc')
BY DEF OwnedOnce, InOneBox

LEMMA Stay == OwnedOnce /\ UNCHANGED <<pool, alloc, deAlloc, has>> => OwnedOnce'
BY DEF OwnedOnce, Inside, OncePerQueue

\* From a pool to a thread.
LEMMA Take ==
  ASSUME QueuesTyped, OwnedOnce, NEW t \in Threads, NEW c \in Circuits,
         Allocate(t, c), UNCHANGED <<alloc, deAlloc>>
  PROVE  /\ OwnedOnce' /\ QueuesTyped' /\ FirstFree(c) \in has'[t]
         /\ has[t] \subseteq has'[t] /\ FirstFree(c) \in AllElements
         /\ \A u \in Threads : u # t => has'[u] = has[u]
<1> DEFINE S == {FirstFree(c)}
<1>1. FirstFree(c) \in pool[c] /\ FirstFree(c) \in AllElements
  BY FreeOnes DEF Allocate, QueuesTyped
<1>2. /\ pool'[c] = pool[c] \ S /\ has'[t] = has[t] \cup S
      /\ \A d \in Circuits : d # c => pool'[d] = pool[d]
      /\ \A u \in Threads : u # t => has'[u] = has[u]
  BY DEF Allocate, QueuesTyped
<1>3. QueuesTyped'
  BY <1>1 DEF Allocate, QueuesTyped
<1>4. InOneBox(Inside')
  <2> HIDE DEF S
  <2>1. InOneBox(Inside)
    BY OwnedParts
  <2>2. \A e \in AllElements : e \in S => e \in Inside[<<"pool", c>>]
    BY <1>1, BoxNames DEF S
  <2>3. \A b \in Boxes : b # <<"pool", c>> /\ b # <<"thread", t>> => Inside'[b] = Inside[b]
    <3>1. OnlyChange(<<"pool", c>>, <<"thread", t>>)
      BY <1>2 DEF OnlyChange
    <3> QED BY ONLY <3>1, OtherBoxes
  <2>4. /\ Inside'[<<"pool", c>>] = Inside[<<"pool", c>>] \ S
        /\ Inside'[<<"thread", t>>] = Inside[<<"thread", t>>] \cup S
    BY <1>2, BoxNames, BoxNamesPrime
  <2>5. <<"pool", c>> # <<"thread", t>> /\ <<"pool", c>> \in Boxes /\ <<"thread", t>> \in Boxes
    BY BoxNames
  <2>6. Moves(Inside, Inside', S, <<"pool", c>>, <<"thread", t>>)
    BY <2>2, <2>3, <2>4, <2>5 DEF Moves
  <2> QED BY ONLY <2>1, <2>6, Move
<1>5. OncePerQueue(alloc') /\ OncePerQueue(deAlloc')
  BY OwnedParts
<1> QED BY <1>1, <1>2, <1>3, <1>4, <1>5, OwnedPartsPrime

\* From a thread to a pool.
LEMMA GiveAllBack ==
  ASSUME QueuesTyped, OwnedOnce, NEW t \in Threads, NEW c \in Circuits,
         pool' = [pool EXCEPT ![c] = @ \cup has[t]],
         has' = [has EXCEPT ![t] = {}],
         UNCHANGED <<alloc, deAlloc>>
  PROVE  OwnedOnce' /\ QueuesTyped'
<1> DEFINE S == has[t]
<1>2. /\ pool'[c] = pool[c] \cup S /\ has'[t] = has[t] \ S
      /\ \A d \in Circuits : d # c => pool'[d] = pool[d]
      /\ \A u \in Threads : u # t => has'[u] = has[u]
  BY DEF QueuesTyped
<1>3. QueuesTyped'
  BY DEF QueuesTyped
<1>4. InOneBox(Inside')
  <2>1. InOneBox(Inside)
    BY OwnedParts
  <2>2. \A e \in AllElements : e \in S => e \in Inside[<<"thread", t>>]
    BY BoxNames
  <2> HIDE DEF S
  <2>3. \A b \in Boxes : b # <<"thread", t>> /\ b # <<"pool", c>> => Inside'[b] = Inside[b]
    <3>1. OnlyChange(<<"thread", t>>, <<"pool", c>>)
      BY <1>2 DEF OnlyChange
    <3> QED BY ONLY <3>1, OtherBoxes
  <2>4. /\ Inside'[<<"pool", c>>] = Inside[<<"pool", c>>] \cup S
        /\ Inside'[<<"thread", t>>] = Inside[<<"thread", t>>] \ S
    BY <1>2, BoxNames, BoxNamesPrime
  <2>5. <<"pool", c>> # <<"thread", t>> /\ <<"pool", c>> \in Boxes /\ <<"thread", t>> \in Boxes
    BY BoxNames
  <2>6. Moves(Inside, Inside', S, <<"thread", t>>, <<"pool", c>>)
    BY <2>2, <2>3, <2>4, <2>5 DEF Moves
  <2> QED BY ONLY <2>1, <2>6, Move
<1>5. OncePerQueue(alloc') /\ OncePerQueue(deAlloc')
  BY OwnedParts
<1> QED BY <1>3, <1>4, <1>5, OwnedPartsPrime

\* From the head of an alloc queue to a thread.
LEMMA PopAlloc ==
  ASSUME QueuesTyped, OwnedOnce, NEW t \in Threads, NEW c \in Circuits,
         alloc[c] # << >>,
         alloc' = [alloc EXCEPT ![c] = Tail(@)],
         has' = [has EXCEPT ![t] = @ \cup {Head(alloc[c])}],
         UNCHANGED <<pool, deAlloc>>
  PROVE  /\ OwnedOnce' /\ QueuesTyped' /\ Head(alloc[c]) \in has'[t]
         /\ Head(alloc[c]) \in AllElements
         /\ has[t] \subseteq has'[t]
         /\ \A u \in Threads : u # t => has'[u] = has[u]
<1> DEFINE S == {Head(alloc[c])}
<1>0. /\ alloc[c] \in Seq(AllElements) /\ Head(alloc[c]) \in AllElements
      /\ Tail(alloc[c]) \in Seq(AllElements)
  BY TailElements DEF QueuesTyped
<1>1. Head(alloc[c]) # None
  BY <1>0, NoneIsNoElement
<1>2. /\ has'[t] = has[t] \cup S /\ alloc'[c] = Tail(alloc[c])
      /\ \A d \in Circuits : d # c => alloc'[d] = alloc[d]
      /\ \A u \in Threads : u # t => has'[u] = has[u]
  BY DEF QueuesTyped
<1>3. QueuesTyped'
  BY <1>0 DEF QueuesTyped
<1>4. \A i, k \in DOMAIN alloc[c] : alloc[c][i] = alloc[c][k] /\ alloc[c][i] # None => i = k
  BY OwnedParts DEF OncePerQueue
<1>5. /\ ToSet(alloc'[c]) = ToSet(alloc[c]) \ S /\ Head(alloc[c]) \in ToSet(alloc[c])
      /\ \A i, k \in DOMAIN alloc'[c] : alloc'[c][i] = alloc'[c][k] /\ alloc'[c][i] # None => i = k
  BY <1>0, <1>1, <1>2, <1>4, TailSet
<1>6. InOneBox(Inside')
  <2> HIDE DEF S
  <2>1. InOneBox(Inside)
    BY OwnedParts
  <2>2. \A e \in AllElements : e \in S => e \in Inside[<<"alloc", c>>]
    BY <1>5, BoxNames DEF S
  <2>3. \A b \in Boxes : b # <<"alloc", c>> /\ b # <<"thread", t>> => Inside'[b] = Inside[b]
    <3>1. OnlyChange(<<"alloc", c>>, <<"thread", t>>)
      BY <1>2 DEF OnlyChange
    <3> QED BY ONLY <3>1, OtherBoxes
  <2>4. /\ Inside'[<<"alloc", c>>] = Inside[<<"alloc", c>>] \ S
        /\ Inside'[<<"thread", t>>] = Inside[<<"thread", t>>] \cup S
    BY <1>2, <1>5, BoxNames, BoxNamesPrime
  <2>5. <<"alloc", c>> # <<"thread", t>> /\ <<"alloc", c>> \in Boxes /\ <<"thread", t>> \in Boxes
    BY BoxNames
  <2>6. Moves(Inside, Inside', S, <<"alloc", c>>, <<"thread", t>>)
    BY <2>2, <2>3, <2>4, <2>5 DEF Moves
  <2> QED BY ONLY <2>1, <2>6, Move
<1>7. OncePerQueue(alloc') /\ OncePerQueue(deAlloc')
  BY <1>2, <1>5, OwnedParts DEF OncePerQueue
<1> QED BY <1>0, <1>2, <1>3, <1>6, <1>7, OwnedPartsPrime

\* From the head of a deAlloc queue to a pool.
LEMMA PopDeAlloc ==
  ASSUME QueuesTyped, OwnedOnce, NEW c \in Circuits,
         deAlloc[c] # << >>, Head(deAlloc[c]) # None,
         deAlloc' = [deAlloc EXCEPT ![c] = Tail(@)],
         pool' = [pool EXCEPT ![c] = @ \cup {Head(deAlloc[c])}],
         UNCHANGED <<has, alloc>>
  PROVE  OwnedOnce' /\ QueuesTyped'
<1> DEFINE S == {Head(deAlloc[c])}
<1>0. /\ deAlloc[c] \in Seq(AllElements \cup {None}) /\ Head(deAlloc[c]) \in AllElements
      /\ Tail(deAlloc[c]) \in Seq(AllElements \cup {None})
  BY TailElements DEF QueuesTyped
<1>2. /\ pool'[c] = pool[c] \cup S /\ deAlloc'[c] = Tail(deAlloc[c])
      /\ \A d \in Circuits : d # c => deAlloc'[d] = deAlloc[d] /\ pool'[d] = pool[d]
  BY DEF QueuesTyped
<1>3. QueuesTyped'
  BY <1>0 DEF QueuesTyped
<1>4. \A i, k \in DOMAIN deAlloc[c] :
         deAlloc[c][i] = deAlloc[c][k] /\ deAlloc[c][i] # None => i = k
  BY OwnedParts DEF OncePerQueue
<1>5. /\ ToSet(deAlloc'[c]) = ToSet(deAlloc[c]) \ S /\ Head(deAlloc[c]) \in ToSet(deAlloc[c])
      /\ \A i, k \in DOMAIN deAlloc'[c] :
            deAlloc'[c][i] = deAlloc'[c][k] /\ deAlloc'[c][i] # None => i = k
  BY <1>0, <1>2, <1>4, TailSet
<1>6. InOneBox(Inside')
  <2> HIDE DEF S
  <2>1. InOneBox(Inside)
    BY OwnedParts
  <2>2. \A e \in AllElements : e \in S => e \in Inside[<<"deAlloc", c>>]
    BY <1>5, BoxNames DEF S
  <2>3. \A b \in Boxes : b # <<"deAlloc", c>> /\ b # <<"pool", c>> => Inside'[b] = Inside[b]
    <3>1. OnlyChange(<<"deAlloc", c>>, <<"pool", c>>)
      BY <1>2 DEF OnlyChange
    <3> QED BY ONLY <3>1, OtherBoxes
  <2>4. /\ Inside'[<<"deAlloc", c>>] = Inside[<<"deAlloc", c>>] \ S
        /\ Inside'[<<"pool", c>>] = Inside[<<"pool", c>>] \cup S
    BY <1>2, <1>5, BoxNames, BoxNamesPrime
  <2>5. <<"deAlloc", c>> # <<"pool", c>> /\ <<"deAlloc", c>> \in Boxes /\ <<"pool", c>> \in Boxes
    BY BoxNames
  <2>6. Moves(Inside, Inside', S, <<"deAlloc", c>>, <<"pool", c>>)
    BY <2>2, <2>3, <2>4, <2>5 DEF Moves
  <2> QED BY ONLY <2>1, <2>6, Move
<1>7. OncePerQueue(alloc') /\ OncePerQueue(deAlloc')
  BY <1>2, <1>5, OwnedParts DEF OncePerQueue
<1> QED BY <1>3, <1>6, <1>7, OwnedPartsPrime

\* From a thread to the end of an alloc queue.
LEMMA PushAlloc ==
  ASSUME QueuesTyped, OwnedOnce, NEW t \in Threads, NEW c \in Circuits,
         NEW e \in has[t],
         alloc' = [alloc EXCEPT ![c] = Append(@, e)],
         has' = [has EXCEPT ![t] = @ \ {e}],
         UNCHANGED <<pool, deAlloc>>
  PROVE  OwnedOnce' /\ QueuesTyped'
<1> DEFINE S == {e}
<1>0. /\ e \in AllElements /\ alloc[c] \in Seq(AllElements)
      /\ Append(alloc[c], e) \in Seq(AllElements)
  BY AppendElements DEF QueuesTyped
<1>1. e # None
  BY <1>0, NoneIsNoElement
<1>2. /\ has'[t] = has[t] \ S /\ alloc'[c] = Append(alloc[c], e)
      /\ \A d \in Circuits : d # c => alloc'[d] = alloc[d]
      /\ \A u \in Threads : u # t => has'[u] = has[u]
  BY DEF QueuesTyped
<1>3. QueuesTyped'
  BY <1>0 DEF QueuesTyped
<1>4. <<"alloc", c>> # <<"thread", t>> /\ <<"alloc", c>> \in Boxes /\ <<"thread", t>> \in Boxes
  BY BoxNames
<1>5. e \notin ToSet(alloc[c])
  BY <1>0, <1>4, BoxNames, OwnedParts DEF InOneBox
<1>6. \A i, k \in DOMAIN alloc[c] : alloc[c][i] = alloc[c][k] /\ alloc[c][i] # None => i = k
  BY OwnedParts DEF OncePerQueue
<1>7. \A i, k \in DOMAIN alloc'[c] : alloc'[c][i] = alloc'[c][k] /\ alloc'[c][i] # None => i = k
  BY <1>0, <1>2, <1>5, <1>6, AppendOnce
<1>8. ToSet(alloc'[c]) = ToSet(alloc[c]) \cup S
  BY <1>0, <1>2, AppendedSet
<1>9. InOneBox(Inside')
  <2> HIDE DEF S
  <2>1. InOneBox(Inside)
    BY OwnedParts
  <2>2. \A x \in AllElements : x \in S => x \in Inside[<<"thread", t>>]
    BY BoxNames DEF S
  <2>3. \A b \in Boxes : b # <<"thread", t>> /\ b # <<"alloc", c>> => Inside'[b] = Inside[b]
    <3>1. OnlyChange(<<"thread", t>>, <<"alloc", c>>)
      BY <1>2 DEF OnlyChange
    <3> QED BY ONLY <3>1, OtherBoxes
  <2>4. /\ Inside'[<<"alloc", c>>] = Inside[<<"alloc", c>>] \cup S
        /\ Inside'[<<"thread", t>>] = Inside[<<"thread", t>>] \ S
    BY <1>2, <1>8, BoxNames, BoxNamesPrime
  <2>6. Moves(Inside, Inside', S, <<"thread", t>>, <<"alloc", c>>)
    BY <2>2, <2>3, <2>4, <1>4 DEF Moves
  <2> QED BY ONLY <2>1, <2>6, Move
<1>10. OncePerQueue(alloc') /\ OncePerQueue(deAlloc')
  BY <1>2, <1>7, OwnedParts DEF OncePerQueue
<1> QED BY <1>3, <1>9, <1>10, OwnedPartsPrime

\* From a thread to the end of a deAlloc queue, which a null can also be given.
LEMMA PushDeAlloc ==
  ASSUME QueuesTyped, OwnedOnce, NEW t \in Threads, NEW c \in Circuits,
         NEW e \in has[t] \cup {None},
         deAlloc' = [deAlloc EXCEPT ![c] = Append(@, e)],
         has' = [has EXCEPT ![t] = @ \ {e}],
         UNCHANGED <<pool, alloc>>
  PROVE  OwnedOnce' /\ QueuesTyped'
<1> DEFINE S == {e}
<1>0. /\ e \in AllElements \cup {None} /\ deAlloc[c] \in Seq(AllElements \cup {None})
      /\ Append(deAlloc[c], e) \in Seq(AllElements \cup {None})
  BY AppendElements DEF QueuesTyped
<1>2. /\ has'[t] = has[t] \ S /\ deAlloc'[c] = Append(deAlloc[c], e)
      /\ \A d \in Circuits : d # c => deAlloc'[d] = deAlloc[d]
      /\ \A u \in Threads : u # t => has'[u] = has[u]
  BY DEF QueuesTyped
<1>3. QueuesTyped'
  BY <1>0 DEF QueuesTyped
<1>4. <<"deAlloc", c>> # <<"thread", t>> /\ <<"deAlloc", c>> \in Boxes /\ <<"thread", t>> \in Boxes
  BY BoxNames
<1>5. ASSUME e # None PROVE e \notin ToSet(deAlloc[c])
  <2>1. e \in AllElements /\ e \in Inside[<<"thread", t>>]
    BY <1>0, <1>5, BoxNames
  <2>2. e \notin Inside[<<"deAlloc", c>>]
    BY <1>4, <2>1, OwnedParts DEF InOneBox
  <2> QED BY <2>2, BoxNames
<1>6. \A i, k \in DOMAIN deAlloc[c] :
         deAlloc[c][i] = deAlloc[c][k] /\ deAlloc[c][i] # None => i = k
  BY OwnedParts DEF OncePerQueue
<1>7. \A i, k \in DOMAIN deAlloc'[c] :
         deAlloc'[c][i] = deAlloc'[c][k] /\ deAlloc'[c][i] # None => i = k
  BY <1>0, <1>2, <1>5, <1>6, AppendOnce
<1>8. ToSet(deAlloc'[c]) = ToSet(deAlloc[c]) \cup S
  BY <1>0, <1>2, AppendedSet
<1>9. InOneBox(Inside')
  <2> HIDE DEF S
  <2>1. InOneBox(Inside)
    BY OwnedParts
  <2>2. \A x \in AllElements : x \in S => x \in Inside[<<"thread", t>>]
    BY NoneIsNoElement, BoxNames DEF S
  <2>3. \A b \in Boxes : b # <<"thread", t>> /\ b # <<"deAlloc", c>> => Inside'[b] = Inside[b]
    <3>1. OnlyChange(<<"thread", t>>, <<"deAlloc", c>>)
      BY <1>2 DEF OnlyChange
    <3> QED BY ONLY <3>1, OtherBoxes
  <2>4. /\ Inside'[<<"deAlloc", c>>] = Inside[<<"deAlloc", c>>] \cup S
        /\ Inside'[<<"thread", t>>] = Inside[<<"thread", t>>] \ S
    BY <1>2, <1>8, BoxNames, BoxNamesPrime
  <2>6. Moves(Inside, Inside', S, <<"thread", t>>, <<"deAlloc", c>>)
    BY <2>2, <2>3, <2>4, <1>4 DEF Moves
  <2> QED BY ONLY <2>1, <2>6, Move
<1>10. OncePerQueue(alloc') /\ OncePerQueue(deAlloc')
  BY <1>2, <1>7, OwnedParts DEF OncePerQueue
<1> QED BY <1>3, <1>9, <1>10, OwnedPartsPrime

----------------------------------------------------------------------------
\* One step of each action.

LEMMA NoPushTyped == NoPush \in PushTails
<1>1. Packet \in {"recvParams", "packet", "command"} \X Nat
  BY DEF Packet
<1>2. None \in AllElements \cup {None}
  OBVIOUS
<1> QED BY <1>1, <1>2 DEF NoPush, PushTails, Points

LEMMA InitHolds == Init => IInv
<1> SUFFICES ASSUME Init PROVE IInv
  OBVIOUS
<1>1. QueuesTyped
  <2>1. \A c \in Circuits : Elements(c) \subseteq AllElements
    BY DEF AllElements
  <2>2. << >> \in Seq(AllElements) /\ << >> \in Seq(AllElements \cup {None})
    OBVIOUS
  <2> QED BY <2>1, <2>2 DEF Init, QueuesTyped
<1>2. LocalsTyped
  BY Names, NoPushTyped DEF Init, LocalsTyped, Points
<1>3. Calls /\ Plugins
  BY Names DEF Init, Calls, Plugins, PluginPoints
<1>4. InOneBox(Inside)
  <2> SUFFICES ASSUME NEW e \in AllElements
               PROVE  \E b \in Boxes : \A other \in Boxes : e \in Inside[other] <=> other = b
    BY DEF InOneBox
  <2>1. PICK c \in Circuits : e \in Elements(c)
    BY DEF AllElements
  <2>2. \A d \in Circuits : e \in Elements(d) => d = c
    BY <2>1 DEF Elements
  <2>3. \A d \in Circuits : ToSet(alloc[d]) = {} /\ ToSet(deAlloc[d]) = {} /\ pool[d] = Elements(d)
    BY DEF Init, ToSet
  <2>4. \A t \in Threads : has[t] = {}
    BY DEF Init
  <2>5. ASSUME NEW other \in Boxes PROVE e \in Inside[other] <=> other = <<"pool", c>>
    <3>1. CASE \E d \in Circuits : other = <<"pool", d>>
      <4>1. PICK d \in Circuits : other = <<"pool", d>>
        BY <3>1
      <4>2. Inside[other] = Elements(d)
        BY <4>1, <2>3, BoxNames
      <4>3. other = <<"pool", c>> <=> d = c
        BY <4>1
      <4> QED BY <2>1, <2>2, <4>2, <4>3
    <3>2. CASE \E d \in Circuits : other \in {<<"alloc", d>>, <<"deAlloc", d>>}
      <4>1. Inside[other] = {}
        BY <3>2, <2>3, BoxNames
      <4> QED BY <3>2, <4>1
    <3>3. CASE \E t \in Threads : other = <<"thread", t>>
      <4>1. Inside[other] = {}
        BY <3>3, <2>4, BoxNames
      <4> QED BY <3>3, <4>1
    <3>4. \/ \E d \in Circuits : other \in {<<"pool", d>>, <<"alloc", d>>, <<"deAlloc", d>>}
          \/ \E t \in Threads : other = <<"thread", t>>
      BY BoxNames
    <3> QED BY <3>1, <3>2, <3>3, <3>4
  <2>6. <<"pool", c>> \in Boxes
    BY BoxNames
  <2> QED BY <2>5, <2>6
<1>5. OncePerQueue(alloc) /\ OncePerQueue(deAlloc)
  BY DEF Init, OncePerQueue
<1> QED BY <1>1, <1>2, <1>3, <1>4, <1>5, OwnedParts DEF IInv

LEMMA PushTailKeeps ==
  ASSUME IInv, NEW t \in Threads, PushTail(t), DebugLog
  PROVE  IInv'
<1> USE DEF IInv
<1> DEFINE call == push[t]
<1>0. /\ call \in PushTails /\ at[t] = "push"
      /\ call.item \in has[t] \/ (call.queue # "alloc" /\ call.item = None)
  BY DEF LocalsTyped, Calls, PushTail
<1>1. CASE call.circuit \notin Circuits
  <2>1. UNCHANGED <<pool, alloc, deAlloc, has, push>> /\ at' = [at EXCEPT ![t] = "crashed"]
        /\ UNCHANGED <<index, outter, incomePacket>>
    BY <1>1 DEF PushTail, Goto
  <2>2. OwnedOnce' /\ QueuesTyped'
    BY <2>1, Stay DEF QueuesTyped
  <2>3. LocalsTyped'
    <3>1. at' \in [Threads -> Points \cup {"push"}]
      BY <2>1 DEF LocalsTyped, Points
    <3> QED BY <2>1, <3>1 DEF LocalsTyped
  <2>4. Calls' /\ Plugins'
    BY <2>1, Names DEF LocalsTyped, Calls, Plugins, PluginPoints
  <2> QED BY <2>2, <2>3, <2>4
<1>2. CASE call.circuit \in Circuits
  <2>1. /\ at' = [at EXCEPT ![t] = call.then]
        /\ push' = [push EXCEPT ![t] = NoPush]
        /\ has' = [has EXCEPT ![t] = @ \ {call.item}]
        /\ UNCHANGED <<pool, index, outter, incomePacket>>
    BY <1>2 DEF PushTail, Goto
  <2>2. OwnedOnce' /\ QueuesTyped'
    <3>1. CASE call.queue = "alloc"
      <4>1. /\ alloc' = [alloc EXCEPT ![call.circuit] = Append(@, call.item)]
            /\ UNCHANGED <<pool, deAlloc>>
        BY <1>2, <3>1 DEF PushTail
      <4>2. call.item \in has[t]
        BY <1>0, <3>1
      <4> QED BY ONLY <1>2, <2>1, <4>1, <4>2, PushAlloc, IInv, t \in Threads
    <3>2. CASE call.queue # "alloc"
      <4>1. /\ deAlloc' = [deAlloc EXCEPT ![call.circuit] = Append(@, call.item)]
            /\ UNCHANGED <<pool, alloc>>
        BY <1>2, <3>2 DEF PushTail
      <4>2. call.item \in has[t] \cup {None}
        BY <1>0
      <4> QED BY ONLY <1>2, <2>1, <4>1, <4>2, PushDeAlloc, IInv, t \in Threads
    <3> QED BY <3>1, <3>2
  <2>3. call.then \in Points /\ call.then # "push" /\ NoPush \in PushTails
    BY <1>0, NoPushTyped DEF PushTails, Points
  <2>4. LocalsTyped'
    BY <2>1, <2>3 DEF LocalsTyped
  <2>5. Calls'
    <3> SUFFICES ASSUME NEW u \in Threads, at'[u] = "push"
                 PROVE  push'[u].item \in has'[u] \/ (push'[u].queue # "alloc" /\ push'[u].item = None)
      BY DEF Calls
    <3>1. u # t
      BY <2>1, <2>3 DEF LocalsTyped
    <3>2. at[u] = at'[u] /\ push'[u] = push[u] /\ has'[u] = has[u]
      BY <2>1, <3>1 DEF LocalsTyped, QueuesTyped
    <3> QED BY <3>2 DEF Calls
  <2>6. Plugins'
    <3>1. CASE t = User
      <4>1. at'[User] = call.then /\ call.then # "push"
        BY <2>1, <2>3, <3>1 DEF LocalsTyped
      <4>2. call.then \in PluginPoints => incomePacket = None
        BY <1>0, <3>1 DEF Plugins
      <4> QED BY <2>1, <4>1, <4>2 DEF Plugins
    <3>2. CASE t # User
      BY <2>1, <3>2, Names DEF Plugins, LocalsTyped, QueuesTyped
    <3> QED BY <3>1, <3>2
  <2> QED BY <2>2, <2>4, <2>5, <2>6
<1> QED BY <1>1, <1>2

\* A thread goes to a point, outside PushTail.
GoesTo(t, point) ==
  /\ t \in Threads /\ point \in Points
  /\ at' = [at EXCEPT ![t] = point] /\ push' = push
  /\ \A u \in Threads : u # t => has[u] \subseteq has'[u]
  /\ index' \in [Threads -> Nat] /\ outter' \in Sockets
  /\ incomePacket' \in AllElements \cup {None}
  /\ t = User /\ point \in PluginPoints => incomePacket' \in has'[User] \cup {None}
  /\ t # User => incomePacket' = incomePacket

LEMMA GoesToKeeps ==
  ASSUME NEW t, NEW point, IInv, GoesTo(t, point)
  PROVE  LocalsTyped' /\ Calls' /\ Plugins'
<1> USE DEF IInv, GoesTo
<1>1. point # "push"
  BY DEF Points
<1>2. LocalsTyped'
  BY DEF LocalsTyped
<1>3. at'[t] = point /\ \A u \in Threads : u # t => at'[u] = at[u]
  BY DEF LocalsTyped
<1>4. Calls'
  BY <1>1, <1>3 DEF Calls
<1>5. Plugins'
  BY <1>1, <1>3, Names DEF Plugins
<1> QED BY <1>2, <1>4, <1>5

\* A thread calls PushTail.
StartsPush(t, queue, circuit, item, checked, then) ==
  /\ t \in Threads /\ queue \in {"alloc", "deAlloc"}
  /\ circuit \in {"recvParams", "packet", "command"} \X Nat
  /\ item \in AllElements \cup {None} /\ checked \in BOOLEAN /\ then \in Points
  /\ CallPushTail(t, queue, circuit, item, checked, then)
  /\ \A u \in Threads : u # t => has[u] \subseteq has'[u]
  /\ item \in has'[t] \/ (queue # "alloc" /\ item = None)
  /\ index' \in [Threads -> Nat] /\ outter' \in Sockets
  /\ incomePacket' \in AllElements \cup {None}
  /\ t = User /\ then \in PluginPoints => incomePacket' = None
  /\ t # User => incomePacket' = incomePacket

LEMMA StartsPushKeeps ==
  ASSUME NEW t, NEW queue, NEW circuit, NEW item, NEW checked, NEW then,
         IInv, StartsPush(t, queue, circuit, item, checked, then)
  PROVE  LocalsTyped' /\ Calls' /\ Plugins'
<1> USE DEF IInv, StartsPush
<1> DEFINE call == [queue |-> queue, circuit |-> circuit, item |-> item,
                    checked |-> checked, then |-> then]
<1>1. call \in PushTails
  BY DEF PushTails
<1>2. /\ at' = [at EXCEPT ![t] = "push"]
      /\ push' = [push EXCEPT ![t] = call]
  BY DEF CallPushTail, Goto
<1>3. call.item = item /\ call.queue = queue /\ call.then = then
  OBVIOUS
<1> HIDE DEF call
<1>4. /\ at'[t] = "push" /\ push'[t] = call
      /\ \A u \in Threads : u # t => at'[u] = at[u] /\ push'[u] = push[u]
  BY <1>2 DEF LocalsTyped
<1>5. LocalsTyped'
  <2>1. at' \in [Threads -> Points \cup {"push"}]
    BY <1>2 DEF LocalsTyped
  <2>2. push' \in [Threads -> PushTails]
    BY <1>1, <1>2 DEF LocalsTyped
  <2> QED BY <2>1, <2>2 DEF LocalsTyped
<1>6. Calls'
  <2> SUFFICES ASSUME NEW u \in Threads, at'[u] = "push"
               PROVE  push'[u].item \in has'[u] \/ (push'[u].queue # "alloc" /\ push'[u].item = None)
    BY DEF Calls
  <2>1. CASE u = t
    BY <1>3, <1>4, <2>1
  <2>2. CASE u # t
    BY <1>4, <2>2 DEF Calls
  <2> QED BY <2>1, <2>2
<1>7. Plugins'
  <2>1. CASE t = User
    BY <1>3, <1>4, <2>1 DEF Plugins, PluginPoints
  <2>2. CASE t # User
    BY <1>4, <2>2, Names DEF Plugins
  <2> QED BY <2>1, <2>2
<1> QED BY <1>5, <1>6, <1>7

LEMMA IndexRises ==
  ASSUME index \in [Threads -> Nat], NEW t \in Threads,
         index' = [index EXCEPT ![t] = @ + 1]
  PROVE  index' \in [Threads -> Nat]
OBVIOUS

LEMMA ReclaimOneKeeps ==
  ASSUME IInv, NEW t \in Threads, NEW c \in Circuits, ReclaimOne(t, c)
  PROVE  IInv'
<1> USE DEF IInv
<1>0. deAlloc[c] \in Seq(AllElements \cup {None}) /\ index[t] \in Nat /\ deAlloc[c] # << >>
  BY DEF ReclaimOne, QueuesTyped, LocalsTyped
<1>1. CASE ~DebugLog \/ Head(deAlloc[c]) = None
  <2>1. /\ at' = [at EXCEPT ![t] = "crashed"]
        /\ UNCHANGED <<pool, alloc, deAlloc, has, push, index, outter, incomePacket>>
    BY <1>1 DEF ReclaimOne, Goto
  <2>2. GoesTo(t, "crashed")
    BY <2>1 DEF GoesTo, Points, PluginPoints, LocalsTyped
  <2> QED BY <2>1, <2>2, GoesToKeeps, Stay DEF QueuesTyped
<1>2. CASE DebugLog /\ Head(deAlloc[c]) # None
  <2>1. /\ pool' = [pool EXCEPT ![c] = @ \cup {Head(deAlloc[c])}]
        /\ deAlloc' = [deAlloc EXCEPT ![c] = Tail(@)]
        /\ index' = [index EXCEPT ![t] = @ + 1]
        /\ UNCHANGED <<at, alloc, has, push, outter, incomePacket>>
    BY <1>2 DEF ReclaimOne
  <2>2. OwnedOnce' /\ QueuesTyped'
    BY <1>0, <1>2, <2>1, PopDeAlloc
  <2>3. LocalsTyped'
    <3>1. index' \in [Threads -> Nat]
      BY <2>1 DEF LocalsTyped
    <3> QED BY <2>1, <3>1 DEF LocalsTyped
  <2>4. Calls' /\ Plugins'
    BY <2>1 DEF Calls, Plugins
  <2> QED BY <2>2, <2>3, <2>4
<1> QED BY <1>1, <1>2

LEMMA ReclaimAllEndsKeeps ==
  ASSUME IInv, NEW t \in Threads, NEW c \in Circuits, NEW then \in Points \ PluginPoints,
         ReclaimAllEnds(t, c, then)
  PROVE  IInv'
<1> USE DEF IInv
<1>1. UNCHANGED <<pool, alloc, deAlloc, has>>
  BY DEF ReclaimAllEnds, queues
<1>2. GoesTo(t, then)
  BY DEF ReclaimAllEnds, StartLoop, Goto, GoesTo, LocalsTyped
<1> QED BY <1>1, <1>2, GoesToKeeps, Stay DEF QueuesTyped

LEMMA RecvCycleKeeps ==
  ASSUME IInv, DebugLog, NEW s \in Sockets, RecvCycle(s)
  PROVE  IInv'
<1> USE DEF IInv
<1>1. CASE BeginRecv(s)
  <2>1. UNCHANGED <<pool, alloc, deAlloc, has>>
    BY <1>1 DEF BeginRecv, queues
  <2>2. GoesTo(RecvThread(s), "reclaim")
    BY <1>1, Names DEF BeginRecv, queues, StartLoop, Goto, HandOver, GoesTo, Points, PluginPoints, LocalsTyped
  <2> QED BY <2>1, <2>2, GoesToKeeps, Stay DEF QueuesTyped
<1>2. CASE ReclaimOne(RecvThread(s), Recv(s))
  BY <1>2, Names, ReclaimOneKeeps DEF Points, PluginPoints
<1>3. CASE ReclaimAllEnds(RecvThread(s), Recv(s), "alloc")
  BY <1>3, Names, ReclaimAllEndsKeeps DEF Points, PluginPoints
<1>4. CASE AllocJISRecvParams(s)
  <2>1. Allocate(RecvThread(s), Recv(s)) /\ UNCHANGED <<alloc, deAlloc>>
    BY <1>4 DEF AllocJISRecvParams
  <2>2. /\ OwnedOnce' /\ QueuesTyped'
        /\ \A u \in Threads : u # RecvThread(s) => has'[u] = has[u]
    BY <2>1, Names, Take
  <2>3. GoesTo(RecvThread(s), "receive")
    BY <1>4, <2>2, Names DEF AllocJISRecvParams, Goto, GoesTo, Points, PluginPoints, LocalsTyped
  <2> QED BY <2>2, <2>3, GoesToKeeps
<1>5. CASE PushTail(RecvThread(s))
  BY <1>5, Names, PushTailKeeps
<1>6. CASE EndRecv(s)
  <2>1. UNCHANGED <<pool, alloc, deAlloc, has>>
    BY <1>6 DEF EndRecv, queues
  <2>2. GoesTo(RecvThread(s), "idle")
    BY <1>6, Names DEF EndRecv, queues, StartLoop, Goto, HandOver, GoesTo, Points, PluginPoints, LocalsTyped
  <2> QED BY <2>1, <2>2, GoesToKeeps, Stay DEF QueuesTyped
<1>7. CASE Receive(s)
  <2>1. UNCHANGED <<pool, alloc, deAlloc, has>>
    BY <1>7 DEF Receive, queues
  <2>2. PICK e \in has[RecvThread(s)] : CallPushTail(RecvThread(s), "alloc", Recv(s), e, TRUE, "end")
    BY <1>7 DEF Receive, Held
  <2>3. e \in AllElements
    BY <2>2, Names DEF QueuesTyped
  <2>4. StartsPush(RecvThread(s), "alloc", Recv(s), e, TRUE, "end")
    BY <1>7, <2>1, <2>2, <2>3, Names DEF Receive, queues, Recv, Packet, Command, StartsPush, Points, PluginPoints, LocalsTyped
  <2> QED BY <2>1, <2>4, StartsPushKeeps, Stay DEF QueuesTyped
<1>8. CASE ReceiveNothing(s)
  <2>1. /\ pool' = [pool EXCEPT ![Recv(s)] = @ \cup has[RecvThread(s)]]
        /\ has' = [has EXCEPT ![RecvThread(s)] = {}]
        /\ UNCHANGED <<alloc, deAlloc>>
    BY <1>8 DEF ReceiveNothing
  <2>2. OwnedOnce' /\ QueuesTyped'
    BY <2>1, Names, GiveAllBack
  <2>3. \A u \in Threads : u # RecvThread(s) => has'[u] = has[u]
    BY <2>1 DEF QueuesTyped
  <2>4. GoesTo(RecvThread(s), "end")
    BY <1>8, <2>3, Names DEF ReceiveNothing, Goto, GoesTo, Points, PluginPoints, LocalsTyped
  <2> QED BY <2>2, <2>4, GoesToKeeps
<1> QED BY <1>1, <1>2, <1>3, <1>4, <1>5, <1>6, <1>7, <1>8 DEF RecvCycle, RecvSteps

LEMMA NetCycleKeeps ==
  ASSUME IInv, DebugLog, NetCycle
  PROVE  IInv'
<1> USE DEF IInv
<1>1. CASE BeginNet
  <2>1. UNCHANGED <<pool, alloc, deAlloc, has>>
    BY <1>1 DEF BeginNet, queues
  <2>2. GoesTo(Net, "reclaim")
    BY <1>1, Names DEF BeginNet, queues, StartLoop, Goto, HandOver, GoesTo, Points, PluginPoints, LocalsTyped
  <2> QED BY <2>1, <2>2, GoesToKeeps, Stay DEF QueuesTyped
<1>2. CASE ReclaimOne(Net, Packet)
  BY <1>2, Names, ReclaimOneKeeps DEF Points, PluginPoints
<1>3. CASE ReclaimAllEnds(Net, Packet, "commands")
  BY <1>3, Names, ReclaimAllEndsKeeps DEF Points, PluginPoints
<1>4. CASE PopCommand
  <2>1. /\ alloc' = [alloc EXCEPT ![Command] = Tail(@)]
        /\ has' = [has EXCEPT ![Net] = @ \cup {Head(alloc[Command])}]
        /\ UNCHANGED <<pool, deAlloc>>
    BY <1>4 DEF PopCommand
  <2>2. alloc[Command] # << >>
    BY <1>4, Names DEF PopCommand, LocalsTyped, QueuesTyped
  <2>3. /\ OwnedOnce' /\ QueuesTyped' /\ \A u \in Threads : u # Net => has'[u] = has[u]
    BY <2>1, <2>2, Names, PopAlloc
  <2>4. PICK point \in {"connect", "commandDone"} : at' = [at EXCEPT ![Net] = point]
    BY <1>4 DEF PopCommand, Goto
  <2>5. GoesTo(Net, point)
    BY <1>4, <2>3, <2>4, Names DEF PopCommand, GoesTo, Points, PluginPoints, LocalsTyped
  <2> QED BY <2>3, <2>5, GoesToKeeps
<1>5. CASE ProcessConnectCommand
  <2>1. Allocate(Net, Command) /\ UNCHANGED <<alloc, deAlloc>>
    BY <1>5 DEF ProcessConnectCommand
  <2>2. /\ OwnedOnce' /\ QueuesTyped' /\ FirstFree(Command) \in has'[Net]
        /\ FirstFree(Command) \in AllElements
        /\ \A u \in Threads : u # Net => has'[u] = has[u]
    BY <2>1, Names, Take
  <2>3. StartsPush(Net, "alloc", Command, FirstFree(Command), FALSE, "commandDone")
    BY <1>5, <2>2, Names DEF ProcessConnectCommand, Packet, Command, StartsPush, Points, PluginPoints, LocalsTyped
  <2> QED BY <2>2, <2>3, StartsPushKeeps
<1>6. CASE ReclaimCommand
  <2>1. UNCHANGED <<pool, alloc, deAlloc, has>>
    BY <1>6 DEF ReclaimCommand, queues
  <2>2. PICK e \in has[Net] : CallPushTail(Net, "deAlloc", Command, e, TRUE, "commands")
    BY <1>6 DEF ReclaimCommand, Held
  <2>3. e \in AllElements
    BY <2>2, Names DEF QueuesTyped
  <2>4. /\ index' \in [Threads -> Nat] /\ index[Net] \in Nat
        /\ outter' = outter /\ incomePacket' = incomePacket
    <3>1. index' = [index EXCEPT ![Net] = @ + 1] /\ index \in [Threads -> Nat]
      BY <1>6 DEF ReclaimCommand, LocalsTyped
    <3> QED BY <1>6, <3>1, IndexRises, Names DEF ReclaimCommand
  <2>5. StartsPush(Net, "deAlloc", Command, e, TRUE, "commands")
    BY <2>1, <2>2, <2>3, <2>4, Names DEF queues, Recv, Packet, Command, StartsPush, Points, PluginPoints, LocalsTyped
  <2> QED BY <2>1, <2>5, StartsPushKeeps, Stay DEF QueuesTyped
<1>7. CASE CommandsEnd
  <2>1. UNCHANGED <<pool, alloc, deAlloc, has>>
    BY <1>7 DEF CommandsEnd, queues
  <2>2. GoesTo(Net, "recvParams")
    BY <1>7, Names DEF CommandsEnd, queues, StartLoop, Goto, HandOver, GoesTo, Points, PluginPoints, LocalsTyped
  <2> QED BY <2>1, <2>2, GoesToKeeps, Stay DEF QueuesTyped
<1>8. CASE PopRecvParams
  <2>1. /\ alloc' = [alloc EXCEPT ![Recv(outter)] = Tail(@)]
        /\ has' = [has EXCEPT ![Net] = @ \cup {Head(alloc[Recv(outter)])}]
        /\ UNCHANGED <<pool, deAlloc>>
    BY <1>8 DEF PopRecvParams
  <2>2. alloc[Recv(outter)] # << >> /\ Recv(outter) \in Circuits
    BY <1>8, Names DEF PopRecvParams, LocalsTyped, QueuesTyped
  <2>3. /\ OwnedOnce' /\ QueuesTyped' /\ \A u \in Threads : u # Net => has'[u] = has[u]
    BY <2>1, <2>2, Names, PopAlloc
  <2>4. GoesTo(Net, "process")
    BY <1>8, <2>3, Names DEF PopRecvParams, Goto, GoesTo, Points, PluginPoints, LocalsTyped
  <2> QED BY <2>3, <2>4, GoesToKeeps
<1>9. CASE SendPacketToUser("recvDone")
  <2>1. Allocate(Net, Packet) /\ UNCHANGED <<alloc, deAlloc>>
    BY <1>9 DEF SendPacketToUser
  <2>2. /\ OwnedOnce' /\ QueuesTyped' /\ FirstFree(Packet) \in has'[Net]
        /\ FirstFree(Packet) \in AllElements
        /\ \A u \in Threads : u # Net => has'[u] = has[u]
    BY <2>1, Names, Take
  <2>3. StartsPush(Net, "alloc", Packet, FirstFree(Packet), TRUE, "recvDone")
    BY <1>9, <2>2, Names DEF SendPacketToUser, Packet, Command, StartsPush, Points, PluginPoints, LocalsTyped
  <2> QED BY <2>2, <2>3, StartsPushKeeps
<1>10. CASE /\ at[Net] = "process" /\ Goto(Net, "recvDone")
            /\ UNCHANGED <<queues, has, index, push, outter, incomePacket, connects, turn>>
  <2>1. UNCHANGED <<pool, alloc, deAlloc, has>>
    BY <1>10 DEF queues
  <2>2. GoesTo(Net, "recvDone")
    BY <1>10, Names DEF queues, Goto, GoesTo, Points, PluginPoints, LocalsTyped
  <2> QED BY <2>1, <2>2, GoesToKeeps, Stay DEF QueuesTyped
<1>11. CASE ReclaimOneJISRecvParams
  <2>1. UNCHANGED <<pool, alloc, deAlloc, has>>
    BY <1>11 DEF ReclaimOneJISRecvParams, queues
  <2>2. PICK e \in has[Net] : CallPushTail(Net, "deAlloc", Recv(index[Net]), e, TRUE, "recvParams")
    BY <1>11 DEF ReclaimOneJISRecvParams, Held
  <2>3. e \in AllElements
    BY <2>2, Names DEF QueuesTyped
  <2>4. /\ index' \in [Threads -> Nat] /\ index[Net] \in Nat
        /\ outter' = outter /\ incomePacket' = incomePacket
    <3>1. index' = [index EXCEPT ![Net] = @ + 1] /\ index \in [Threads -> Nat]
      BY <1>11 DEF ReclaimOneJISRecvParams, LocalsTyped
    <3> QED BY <1>11, <3>1, IndexRises, Names DEF ReclaimOneJISRecvParams
  <2>5. StartsPush(Net, "deAlloc", Recv(index[Net]), e, TRUE, "recvParams")
    BY <2>1, <2>2, <2>3, <2>4, Names DEF queues, Recv, Packet, Command, StartsPush, Points, PluginPoints, LocalsTyped
  <2> QED BY <2>1, <2>5, StartsPushKeeps, Stay DEF QueuesTyped
<1>12. CASE NextSocket
  <2>1. UNCHANGED <<pool, alloc, deAlloc, has>>
    BY <1>12 DEF NextSocket, queues
  <2>2. outter' \in Sockets
    BY <1>12, SocketsAssumption DEF NextSocket, LocalsTyped, Sockets
  <2>3. PICK point \in {"recvParams", "requests"} : StartLoop(Net, point)
    BY <1>12 DEF NextSocket
  <2>4. UNCHANGED <<push, incomePacket>>
    BY <1>12 DEF NextSocket
  <2>5. GoesTo(Net, point)
    BY <2>1, <2>2, <2>3, <2>4, Names DEF StartLoop, Goto, GoesTo, Points, PluginPoints, LocalsTyped
  <2> QED BY <2>1, <2>5, GoesToKeeps, Stay DEF QueuesTyped
<1>13. CASE SendPacketToUser("requests")
  <2>1. Allocate(Net, Packet) /\ UNCHANGED <<alloc, deAlloc>>
    BY <1>13 DEF SendPacketToUser
  <2>2. /\ OwnedOnce' /\ QueuesTyped' /\ FirstFree(Packet) \in has'[Net]
        /\ FirstFree(Packet) \in AllElements
        /\ \A u \in Threads : u # Net => has'[u] = has[u]
    BY <2>1, Names, Take
  <2>3. StartsPush(Net, "alloc", Packet, FirstFree(Packet), TRUE, "requests")
    BY <1>13, <2>2, Names DEF SendPacketToUser, Packet, Command, StartsPush, Points, PluginPoints, LocalsTyped
  <2> QED BY <2>2, <2>3, StartsPushKeeps
<1>14. CASE EndNet
  <2>1. UNCHANGED <<pool, alloc, deAlloc, has>>
    BY <1>14 DEF EndNet, queues
  <2>2. GoesTo(Net, "idle")
    BY <1>14, Names DEF EndNet, queues, StartLoop, Goto, HandOver, GoesTo, Points, PluginPoints, LocalsTyped
  <2> QED BY <2>1, <2>2, GoesToKeeps, Stay DEF QueuesTyped
<1>15. CASE PushTail(Net)
  BY <1>15, Names, PushTailKeeps
<1> QED BY <1>1, <1>2, <1>3, <1>4, <1>5, <1>6, <1>7, <1>8, <1>9, <1>10, <1>11, <1>12, <1>13, <1>14,
           <1>15 DEF NetCycle, ProcessOneRecvParam, GiveUp

LEMMA UserKeeps ==
  ASSUME IInv, DebugLog,
         UserCycle \/ GiveBackPacket \/ (\E by \in UserCalls : PostCommand(by))
  PROVE  IInv'
<1> USE DEF IInv
<1>1. CASE GetPacketOnce
  <2>1. UNCHANGED <<pool, alloc, deAlloc, has>>
    BY <1>1 DEF GetPacketOnce, queues
  <2>2. GoesTo(User, "called")
    BY <1>1, Names DEF GetPacketOnce, queues, StartLoop, Goto, HandOver, GoesTo, Points, PluginPoints, LocalsTyped
  <2> QED BY <2>1, <2>2, GoesToKeeps, Stay DEF QueuesTyped
<1>2. CASE RunGetPacketCycleOnce
  <2>1. UNCHANGED <<pool, alloc, deAlloc, has>>
    BY <1>2 DEF RunGetPacketCycleOnce, queues
  <2>2. GoesTo(User, "reclaim")
    BY <1>2, Names DEF RunGetPacketCycleOnce, queues, StartLoop, Goto, HandOver, GoesTo, Points, PluginPoints, LocalsTyped
  <2> QED BY <2>1, <2>2, GoesToKeeps, Stay DEF QueuesTyped
<1>3. CASE ReclaimOne(User, Command)
  BY <1>3, Names, ReclaimOneKeeps DEF Points, PluginPoints
<1>4. CASE ReclaimAllEnds(User, Command, "pop")
  BY <1>4, Names, ReclaimAllEndsKeeps DEF Points, PluginPoints
<1>5. CASE PopPacket /\ alloc[Packet] = << >>
  <2>1. UNCHANGED <<pool, alloc, deAlloc, has>>
    BY <1>5 DEF PopPacket
  <2>2. GoesTo(User, "idle")
    BY <1>5, Names DEF PopPacket, Goto, GoesTo, Points, PluginPoints, LocalsTyped
  <2> QED BY <2>1, <2>2, GoesToKeeps, Stay DEF QueuesTyped
<1>6. CASE PopPacket /\ alloc[Packet] # << >>
  <2>1. /\ alloc' = [alloc EXCEPT ![Packet] = Tail(@)]
        /\ has' = [has EXCEPT ![User] = @ \cup {Head(alloc[Packet])}]
        /\ incomePacket' = Head(alloc[Packet])
        /\ UNCHANGED <<pool, deAlloc>>
    BY <1>6 DEF PopPacket
  <2>2. /\ OwnedOnce' /\ QueuesTyped' /\ Head(alloc[Packet]) \in has'[User]
        /\ Head(alloc[Packet]) \in AllElements
        /\ \A u \in Threads : u # User => has'[u] = has[u]
    BY <1>6, <2>1, Names, PopAlloc
  <2>3. GoesTo(User, "pluginsTS")
    BY <1>6, <2>1, <2>2, Names DEF PopPacket, StartLoop, Goto, GoesTo, Points, PluginPoints, LocalsTyped
  <2> QED BY <2>2, <2>3, GoesToKeeps
<1>7. CASE ReturnPacket
  <2>1. UNCHANGED <<pool, alloc, deAlloc, has>>
    BY <1>7 DEF ReturnPacket, queues
  <2>2. GoesTo(User, "idle")
    BY <1>7, Names DEF ReturnPacket, queues, StartLoop, Goto, HandOver, GoesTo, Points, PluginPoints, LocalsTyped
  <2> QED BY <2>1, <2>2, GoesToKeeps, Stay DEF QueuesTyped
<1>8. CASE PushTail(User)
  BY <1>8, Names, PushTailKeeps
<1>9. CASE \E list \in PluginLists : \/ PluginLetsPass(list) \/ PluginDeallocs(list)
                                   \/ PluginHolds(list) \/ PluginsEnd(list)
  <2>0. PICK list \in PluginLists : \/ PluginLetsPass(list) \/ PluginDeallocs(list)
                                   \/ PluginHolds(list) \/ PluginsEnd(list)
    BY <1>9
  <2>1. list.name \in PluginPoints /\ list.next \in Points
    BY DEF PluginLists, PluginPoints, Points
  <2>2. CASE PluginLetsPass(list)
    <3>1. UNCHANGED <<pool, alloc, deAlloc, at, has, push, outter, incomePacket>>
      BY <2>2 DEF PluginLetsPass, queues
    <3>2. index' = [index EXCEPT ![User] = @ + 1] /\ index \in [Threads -> Nat]
      BY <2>2 DEF PluginLetsPass, LocalsTyped
    <3>3. index' \in [Threads -> Nat]
      BY <3>2, IndexRises, Names
    <3>4. LocalsTyped' /\ Calls' /\ Plugins'
      BY <3>1, <3>3 DEF LocalsTyped, Calls, Plugins
    <3> QED BY <3>1, <3>4, Stay DEF QueuesTyped
  <2>3. CASE PluginDeallocs(list)
    <3>1. UNCHANGED <<pool, alloc, deAlloc, has>>
      BY <2>3 DEF PluginDeallocs, queues
    <3>2. incomePacket \in has[User] \cup {None}
      BY <2>1, <2>3 DEF PluginDeallocs, Plugins
    <3>3. StartsPush(User, "deAlloc", Packet, incomePacket, TRUE, list.next)
      BY <2>1, <2>3, <3>1, <3>2, Names DEF PluginDeallocs, StartsPush, LocalsTyped
    <3> QED BY <3>1, <3>3, StartsPushKeeps, Stay DEF QueuesTyped
  <2>4. CASE PluginHolds(list)
    <3>1. UNCHANGED <<pool, alloc, deAlloc, has>>
      BY <2>4 DEF PluginHolds, queues
    <3>2. GoesTo(User, list.next)
      BY <2>1, <2>4, <3>1, Names DEF PluginHolds, StartLoop, Goto, GoesTo, LocalsTyped
    <3> QED BY <3>1, <3>2, GoesToKeeps, Stay DEF QueuesTyped
  <2>5. CASE PluginsEnd(list)
    <3>1. UNCHANGED <<pool, alloc, deAlloc, has>>
      BY <2>5 DEF PluginsEnd, queues
    <3>2. incomePacket \in has[User] \cup {None}
      BY <2>1, <2>5 DEF PluginsEnd, Plugins
    <3>3. GoesTo(User, list.next)
      BY <2>1, <2>5, <3>1, <3>2, Names DEF PluginsEnd, StartLoop, Goto, GoesTo, LocalsTyped
    <3> QED BY <3>1, <3>3, GoesToKeeps, Stay DEF QueuesTyped
  <2> QED BY <2>0, <2>2, <2>3, <2>4, <2>5
<1>10. CASE GiveBackPacket
  <2>1. UNCHANGED <<pool, alloc, deAlloc, has>>
    BY <1>10 DEF GiveBackPacket, ReclaimPacket, queues
  <2>2. PICK e \in has[User] : CallPushTail(User, "deAlloc", Packet, e, TRUE, "idle")
    BY <1>10 DEF GiveBackPacket, ReclaimPacket, Held
  <2>3. e \in AllElements
    BY <2>2, Names DEF QueuesTyped
  <2>4. StartsPush(User, "deAlloc", Packet, e, TRUE, "idle")
    BY <1>10, <2>1, <2>2, <2>3, Names DEF GiveBackPacket, queues, Recv, Packet, Command, StartsPush, Points, PluginPoints, LocalsTyped, ReclaimPacket
  <2> QED BY <2>1, <2>4, StartsPushKeeps, Stay DEF QueuesTyped
<1>11. CASE \E by \in UserCalls : PostCommand(by)
  <2>1. Allocate(User, Command) /\ UNCHANGED <<alloc, deAlloc>>
    BY <1>11 DEF PostCommand
  <2>2. /\ OwnedOnce' /\ QueuesTyped' /\ FirstFree(Command) \in has'[User]
        /\ FirstFree(Command) \in AllElements
        /\ \A u \in Threads : u # User => has'[u] = has[u]
    BY <2>1, Names, Take
  <2>3. StartsPush(User, "alloc", Command, FirstFree(Command), FALSE, "idle")
    BY <1>11, <2>2, Names DEF PostCommand, Packet, Command, StartsPush, Points, PluginPoints, LocalsTyped
  <2> QED BY <2>2, <2>3, StartsPushKeeps
<1> QED BY <1>1, <1>2, <1>3, <1>4, <1>5, <1>6, <1>7, <1>8, <1>9, <1>10, <1>11 DEF UserCycle

----------------------------------------------------------------------------
LEMMA Inductive == DebugLog /\ IInv /\ [Next]_vars => IInv'
<1> SUFFICES ASSUME DebugLog, IInv, [Next]_vars PROVE IInv'
  OBVIOUS
<1>1. CASE NetCycle
  BY <1>1, NetCycleKeeps
<1>2. CASE \E s \in Sockets : RecvCycle(s)
  BY <1>2, RecvCycleKeeps
<1>3. CASE UserCycle \/ GiveBackPacket \/ (\E by \in UserCalls : PostCommand(by))
  BY <1>3, UserKeeps
<1>4. CASE UNCHANGED vars
  <2>1. UNCHANGED <<pool, alloc, deAlloc, at, has, index, push, outter, incomePacket>>
    BY <1>4 DEF vars, queues, locals
  <2>2. OwnedOnce'
    BY <2>1, Stay DEF IInv
  <2> QED BY <2>1, <2>2 DEF IInv, QueuesTyped, LocalsTyped, Calls, Plugins
<1> QED BY <1>1, <1>2, <1>3, <1>4 DEF Next

\* Every element is in one place (OwnedOnce), in the builds with ELPP_DEBUG_LOG:
\* without it the pushes that are arguments of a DCHECK are not there.
THEOREM AlwaysOwnedOnce == DebugLog => (Spec => []OwnedOnce)
<1> SUFFICES ASSUME DebugLog PROVE Spec => []OwnedOnce
  OBVIOUS
<1>1. IInv => OwnedOnce
  BY DEF IInv
<1>2. IInv /\ [Next]_vars => IInv'
  BY Inductive
<1> QED BY <1>1, <1>2, InitHolds, PTL DEF Spec

=============================================================================
