------------------------- MODULE ConnectionRequests -------------------------
(***************************************************************************)
(* The connecting side of JackieApplication: the queue connReqQ of pending *)
(* connection attempts, the user thread that fills it with Connect() and   *)
(* the network thread that sends, retries and ends the attempts, both      *)
(* under connReqQLock, a JackieSimpleMutex.                                *)
(*                                                                         *)
(* In the single-threaded build (USE_SINGLE_THREAD 1) UserThread and       *)
(* NetworkThread are the same thread; otherwise they are two.  A loop body *)
(* run between Lock() and Unlock() is one step; the calls of the lock are  *)
(* the steps of JackieSimpleMutex.  The network may lose, delay, duplicate *)
(* and reorder: any answer a server has been asked for may arrive at any   *)
(* time, any number of times up to MaxDeliveries, or never.                *)
(***************************************************************************)
EXTENDS Integers, Sequences, FiniteSets, SequencesExt

CONSTANTS UserThread, NetworkThread, NoThread,
          Targets,         \* servers the user connects to
          Modes,           \* SecureConnectionModes the user chooses from
          RepeatConnect,   \* whether the user connects to a pending target again
          Times,           \* attemptTimes of Connect()
          ByteMod,         \* requestsMade is an unsigned char
          SendResults,     \* what socket->Send may come back with
          NTSPlugins,      \* pluginListNTS.Size()
          CountMod,        \* m_count of the lock is an unsigned int
          AnswerKinds,     \* answers the servers give
          MaxNesting,      \* bound: nesting of the lock
          MaxPosted,       \* bound: calls of Connect() that get to the queue
          MaxCancels,      \* bound: calls of CancelConnectionRequest()
          MaxDeliveries    \* bound: answers that arrive

mtuSizesCount == 3

ASSUME TimesAssumption == Times \in Nat /\ Times >= mtuSizesCount
ASSUME ModesAssumption == Modes \subseteq {"insecure", "any_key", "two_way", "known_key"}
ASSUME BytesAssumption == ByteMod \in Nat \ {0}
ASSUME PluginsAssumption == NTSPlugins \in Nat
ASSUME ThreadsAssumption == NoThread \notin {UserThread, NetworkThread}
ASSUME CountModAssumption == CountMod \in Nat /\ CountMod > 1
ASSUME AnswersAssumption == AnswerKinds \subseteq {"reply1", "reply2", "refused"}
ASSUME SendAssumption == SendResults \subseteq {"sent", "slow", "too_big"}

Threads == {UserThread, NetworkThread}
SingleThread == UserThread = NetworkThread

VARIABLES connReqQ,        \* pending attempts
          connReqCancelQ,  \* targets of CancelConnectionRequest()
          asked1, asked2,  \* servers sent ID_OPEN_CONNECTION_REQUEST_1, _2
          slots,           \* remote systems Add2RemoteSystemList activated
          requested,       \* those in ConnectMode REQUESTED_CONNECTION
          dontFragment,    \* SetDoNotFragment of the socket
          told,            \* notices the user got since its last Connect()
          userAt, netAt,   \* where the two threads are
          call,            \* the target and mode of the running Connect()
          message,         \* the answer being processed
          index,           \* loop index of the network thread, from 0
          posted, delivered,   \* counted up to their bounds
          m_count, m_threadID, m_mutex, lockPc, depth      \* connReqQLock

Lock == INSTANCE JackieSimpleMutex WITH pc <- lockPc

lockVars == <<m_count, m_threadID, m_mutex, lockPc, depth>>
netVars == <<asked1, asked2, slots, requested, dontFragment, told>>
counters == <<posted, delivered>>
vars == <<connReqQ, connReqCancelQ, netVars, userAt, netAt, call, message, index,
          counters, lockVars>>

Nobody == [addr |-> NoThread, mode |-> "insecure"]
NoMessage == [kind |-> "none", from |-> NoThread, secure |-> FALSE]

Init == /\ connReqQ = << >> /\ connReqCancelQ = << >>
        /\ asked1 = {} /\ asked2 = {} /\ slots = {} /\ requested = {}
        /\ dontFragment = FALSE
        /\ told = [a \in Targets |-> {}]
        /\ userAt = "idle" /\ netAt = "idle"
        /\ call = Nobody /\ message = NoMessage /\ index = 0
        /\ posted = 0 /\ delivered = 0
        /\ Lock!Init

Positions(a) == {i \in DOMAIN connReqQ : connReqQ[i].addr = a}
Pending(a) == Positions(a) # {}
Secure(entry) == entry.mode # "insecure"

Tell(a, notice) == told' = [told EXCEPT ![a] = @ \cup {notice}]

\* A thread runs its program when it is not inside a call of the lock, and, in
\* the single-threaded build, when it is not in the middle of the other program.
UserRuns == /\ lockPc[UserThread] = "idle"
            /\ SingleThread => netAt = "idle"
NetRuns  == /\ lockPc[NetworkThread] = "idle"
            /\ SingleThread => userAt = "idle"

----------------------------------------------------------------------------
\* User thread

\* Connect() up to connReqQLock.Lock(); a target whose slot is active returns
\* ALREADY_CONNECTED_TO_ENDPOINT before.
CallConnect(a, mode) ==
  /\ UserRuns /\ userAt = "idle"
  /\ posted < MaxPosted
  /\ a \notin slots
  /\ RepeatConnect \/ ~Pending(a)
  /\ posted' = posted + 1
  /\ call' = [addr |-> a, mode |-> mode]
  /\ userAt' = "connect"
  /\ Lock!CallLock(UserThread)
  /\ UNCHANGED <<connReqQ, connReqCancelQ, netVars, netAt, message, index, delivered>>

\* Mutant: the request is cleared before it is pushed.
PostAttemptCleared ==
  /\ UserRuns /\ userAt = "connect"
  /\ ~Pending(call.addr)
  /\ call' = Nobody
  /\ connReqQ' = Append(connReqQ, [addr |-> call'.addr, mode |-> call'.mode,
                                   requestsMade |-> 0, due |-> FALSE])
  /\ told' = [told EXCEPT ![call.addr] = {}]
  /\ userAt' = "idle"
  /\ Lock!CallUnlock(UserThread)
  /\ UNCHANGED <<dontFragment, connReqCancelQ, asked1, asked2, slots, requested, netAt, message,
                 index, counters>>

\* connReqQ.PushTail and Unlock(): CONNECTION_ATTEMPT_POSTED.
PostAttempt ==
  /\ UserRuns /\ userAt = "connect"
  /\ ~Pending(call.addr)
  /\ connReqQ' = Append(connReqQ, [addr |-> call.addr, mode |-> call.mode,
                                   requestsMade |-> 0, due |-> FALSE])
  /\ told' = [told EXCEPT ![call.addr] = {}]
  /\ userAt' = "idle" /\ call' = Nobody
  /\ Lock!CallUnlock(UserThread)
  /\ UNCHANGED <<dontFragment, connReqCancelQ, asked1, asked2, slots, requested, netAt, message,
                 index, counters>>

\* return CONNECTION_ATTEMPT_ALREADY_IN_PROGRESS: the Unlock() is commented out.
AlreadyInProgress ==
  /\ UserRuns /\ userAt = "connect"
  /\ Pending(call.addr)
  /\ userAt' = "idle" /\ call' = Nobody
  /\ UNCHANGED <<connReqQ, connReqCancelQ, netVars, netAt, message, index, counters, lockVars>>

\* The queue of cancels has a lock of its own that only guards these pushes and
\* the whole loop of ProcessConnectionRequestCancelQ.
CancelConnectionRequest(a) ==
  /\ UserRuns /\ userAt = "idle"
  /\ netAt \notin {"cancel", "cancel_scan"}
  /\ Len(connReqCancelQ) < MaxCancels
  /\ connReqCancelQ' = Append(connReqCancelQ, a)
  /\ UNCHANGED <<connReqQ, netVars, userAt, netAt, call, message, index, counters, lockVars>>

User == \/ \E a \in Targets, mode \in Modes : CallConnect(a, mode)
        \/ PostAttempt \/ AlreadyInProgress
        \/ \E a \in Targets : CancelConnectionRequest(a)

----------------------------------------------------------------------------
\* Network thread: the answers of the servers

NetSame == UNCHANGED <<connReqCancelQ, userAt, call, posted>>

NetGoto(point) == netAt' = point

\* RunNetworkUpdateCycleOnce
BeginCycle == /\ NetRuns /\ netAt = "idle"
              /\ NetGoto("receive")
              /\ UNCHANGED <<connReqQ, netVars, message, index, delivered, lockVars>>
              /\ NetSame

\* The answers that servers may have sent.
Answers == {m \in [kind : {"reply1"}, from : asked1, secure : BOOLEAN]
                     \cup [kind : {"refused"}, from : asked1, secure : {FALSE}]
                     \cup [kind : {"reply2"}, from : asked2, secure : BOOLEAN] :
              m.kind \in AnswerKinds}

\* Every handler of an answer begins by locking the queue.
Deliver(m) == /\ NetRuns /\ netAt = "receive"
              /\ delivered < MaxDeliveries
              /\ delivered' = delivered + 1
              /\ message' = m
              /\ index' = 0
              /\ NetGoto(m.kind)
              /\ Lock!CallLock(NetworkThread)
              /\ UNCHANGED <<connReqQ, netVars>>
              /\ NetSame

\* Positions, counted from index, of the attempt the answer is about.
Matches == {i \in Positions(message.from) : i > index}
Attempt == connReqQ[CHOOSE i \in Positions(message.from) : TRUE]

\* Mutant: the lock is kept.
NoneMatchesKeepsLock(kind) ==
  /\ NetRuns /\ netAt = kind
  /\ Matches = {}
  /\ NetGoto("receive")
  /\ message' = NoMessage
  /\ UNCHANGED <<connReqQ, netVars, index, delivered, lockVars>>
  /\ NetSame

NoneMatches(kind) ==
  /\ NetRuns /\ netAt = kind
  /\ Matches = {}
  /\ NetGoto("receive")
  /\ message' = NoMessage
  /\ Lock!CallUnlock(NetworkThread)
  /\ UNCHANGED <<connReqQ, netVars, index, delivered>>
  /\ NetSame

\* OnConnectionReply1: "we can unlock now", in the loop ...
Reply1Match ==
  /\ NetRuns /\ netAt = "reply1"
  /\ Matches # {}
  /\ NetGoto("reply1_match")
  /\ Lock!CallUnlock(NetworkThread)
  /\ UNCHANGED <<connReqQ, netVars, message, index, delivered>>
  /\ NetSame

\* ... then ID_OPEN_CONNECTION_REQUEST_2 is sent and the loop goes on where the
\* loop over the plugins, which runs on the same index, has left it.
SendRequest2 ==
  /\ NetRuns /\ netAt = "reply1_match"
  /\ message.secure \/ ~Secure(Attempt)
  /\ asked2' = asked2 \cup {message.from}
  /\ index' = NTSPlugins + 1
  /\ NetGoto("reply1")
  /\ UNCHANGED <<dontFragment, connReqQ, asked1, slots, requested, told, message, delivered, lockVars>>
  /\ NetSame

\* ID_WECLI_SECURE_BUT_SRV_NO, and return.
ServerInsecure ==
  /\ NetRuns /\ netAt = "reply1_match"
  /\ ~message.secure /\ Secure(Attempt)
  /\ Tell(message.from, "WECLI_SECURE_BUT_SRV_NO")
  /\ NetGoto("receive")
  /\ message' = NoMessage
  /\ UNCHANGED <<dontFragment, connReqQ, asked1, asked2, slots, requested, index, delivered, lockVars>>
  /\ NetSame

\* ACCEPT_ANY_PUBLIC_KEY takes the key from a buffer nobody filled: the
\* handshake may reject it, and the handler returns.
BadServerKey ==
  /\ NetRuns /\ netAt = "reply1_match"
  /\ message.secure /\ Attempt.mode = "any_key"
  /\ NetGoto("receive")
  /\ message' = NoMessage
  /\ UNCHANGED <<connReqQ, netVars, index, delivered, lockVars>>
  /\ NetSame

OnConnectionReply1 == \/ NoneMatches("reply1") \/ Reply1Match \/ SendRequest2
                      \/ ServerInsecure \/ BadServerKey

\* OnConnectionReply2: the server wants security, the attempt has none.  The packet's
\* address is not set: what the memory held before names any target, or nobody.
KeyNotPassed ==
  /\ NetRuns /\ netAt = "reply2"
  /\ Matches # {}
  /\ message.secure /\ ~Secure(Attempt)
  /\ \/ \E a \in Targets : Tell(a, "WECLINOTPASS_SRVPUBKEY_WHENCONNECT")
     \/ UNCHANGED told
  /\ NetGoto("receive")
  /\ message' = NoMessage
  /\ Lock!CallUnlock(NetworkThread)
  /\ UNCHANGED <<dontFragment, connReqQ, asked1, asked2, slots, requested, index, delivered>>
  /\ NetSame

Reply2Match ==
  /\ NetRuns /\ netAt = "reply2"
  /\ Matches # {}
  /\ ~message.secure \/ Secure(Attempt)
  /\ NetGoto("reply2_match")
  /\ Lock!CallUnlock(NetworkThread)
  /\ UNCHANGED <<connReqQ, netVars, message, index, delivered>>
  /\ NetSame

\* Invalid answer: the slot Add2RemoteSystemList took and the attempt stay, the
\* lock, already released, is unlocked again, and the user may be told.
InvalidAnswer ==
  /\ NetRuns /\ netAt = "reply2_match"
  /\ Secure(Attempt)
  /\ slots' = slots \cup {message.from}
  /\ IF Attempt.mode = "two_way" THEN UNCHANGED told
                                 ELSE Tell(message.from, "PUBLIC_KEY_MISMATCH")
  /\ NetGoto("receive")
  /\ message' = NoMessage
  /\ Lock!CallUnlock(NetworkThread)
  /\ UNCHANGED <<dontFragment, connReqQ, asked1, asked2, requested, index, delivered>>
  /\ NetSame

\* weInitiateConnection, REQUESTED_CONNECTION, then lock again for the removal.
RequestConnection ==
  /\ NetRuns /\ netAt = "reply2_match"
  /\ slots' = slots \cup {message.from}
  /\ requested' = requested \cup {message.from}
  /\ NetGoto("reply2_remove")
  /\ Lock!CallLock(NetworkThread)
  /\ UNCHANGED <<dontFragment, connReqQ, asked1, asked2, told, message, index, delivered>>
  /\ NetSame

\* Add2RemoteSystemList has no slot left.
NoSlot ==
  /\ NetRuns /\ netAt = "reply2_match"
  /\ message.from \notin slots
  /\ Tell(message.from, "CONNECTION_ATTEMPT_FAILED")
  /\ NetGoto("reply2_remove")
  /\ Lock!CallLock(NetworkThread)
  /\ UNCHANGED <<dontFragment, connReqQ, asked1, asked2, slots, requested, message, index, delivered>>
  /\ NetSame

\* "remove all same connections": RemoveAtIndex(k) and k++, so that of two equal
\* neighbours the second is passed over.  The others close up in their order.
RemovedBy(a) ==
  LET gone[i \in 0 .. Len(connReqQ)] == i \in Positions(a) /\ ~gone[i - 1]
  IN  {i \in Positions(a) : gone[i]}

RemoveAttempt ==
  /\ NetRuns /\ netAt = "reply2_remove"
  /\ LET rest == DOMAIN connReqQ \ RemovedBy(message.from)
     IN  \E kept \in [1 .. Cardinality(rest) -> rest] :
            /\ Range(kept) = rest
            /\ \A i, j \in DOMAIN kept : i < j => kept[i] < kept[j]
            /\ connReqQ' = [i \in DOMAIN kept |-> connReqQ[kept[i]]]
  /\ NetGoto("receive")
  /\ message' = NoMessage
  /\ Lock!CallUnlock(NetworkThread)
  /\ UNCHANGED <<netVars, index, delivered>>
  /\ NetSame

OnConnectionReply2 == \/ NoneMatches("reply2") \/ KeyNotPassed \/ Reply2Match
                      \/ InvalidAnswer \/ RequestConnection \/ NoSlot \/ RemoveAttempt

\* OnConnectionFailed
Refused ==
  /\ NetRuns /\ netAt = "refused"
  /\ \E i \in Matches : /\ \A j \in Matches : i <= j
                       /\ connReqQ' = RemoveAt(connReqQ, i)
  /\ Tell(message.from, "REFUSED")
  /\ NetGoto("receive")
  /\ message' = NoMessage
  /\ Lock!CallUnlock(NetworkThread)
  /\ UNCHANGED <<dontFragment, asked1, asked2, slots, requested, index, delivered>>
  /\ NetSame

OnConnectionFailed == NoneMatches("refused") \/ Refused

----------------------------------------------------------------------------
\* Network thread: ProcessConnectionRequestCancelQ

EndReceive ==
  /\ NetRuns /\ netAt = "receive"
  /\ NetGoto(IF connReqCancelQ = << >> THEN "request" ELSE "cancel")
  /\ index' = 0
  /\ UNCHANGED <<connReqQ, netVars, message, delivered, lockVars>>
  /\ NetSame

\* The loop compares every attempt with connReqCancelAddr, which it never sets:
\* no attempt has the null address.  It does not take the address out either.
CancelOne ==
  /\ NetRuns /\ netAt = "cancel"
  /\ index < Len(connReqCancelQ)
  /\ NetGoto("cancel_scan")
  /\ Lock!CallLock(NetworkThread)
  /\ UNCHANGED <<connReqQ, netVars, message, index, delivered>>
  /\ NetSame

\* Mutant: the index does not rise.
NothingCancelledStays ==
  /\ NetRuns /\ netAt = "cancel_scan"
  /\ NetGoto("cancel")
  /\ Lock!CallUnlock(NetworkThread)
  /\ UNCHANGED <<connReqQ, netVars, message, index, delivered>>
  /\ NetSame

NothingCancelled ==
  /\ NetRuns /\ netAt = "cancel_scan"
  /\ NetGoto("cancel")
  /\ index' = index + 1
  /\ Lock!CallUnlock(NetworkThread)
  /\ UNCHANGED <<connReqQ, netVars, message, delivered>>
  /\ NetSame

EndCancel ==
  /\ NetRuns /\ netAt = "cancel"
  /\ index >= Len(connReqCancelQ)
  /\ NetGoto("request")
  /\ UNCHANGED <<connReqQ, netVars, message, index, delivered, lockVars>>
  /\ NetSame

ProcessConnectionRequestCancelQ == CancelOne \/ NothingCancelled \/ EndCancel

----------------------------------------------------------------------------
\* Network thread: ProcessConnectionRequestQ.  One Lock() before the loop, one
\* Unlock() in every iteration.

LockAttempts ==
  /\ NetRuns /\ netAt = "request"
  /\ connReqQ # << >>
  /\ NetGoto("attempts")
  /\ index' = 0
  /\ Lock!CallLock(NetworkThread)
  /\ UNCHANGED <<connReqQ, netVars, message, delivered>>
  /\ NetSame

EndCycle ==
  /\ NetRuns
  /\ \/ netAt = "request" /\ connReqQ = << >>
     \/ netAt = "attempts" /\ index >= Len(connReqQ)
  /\ NetGoto("idle")
  /\ UNCHANGED <<connReqQ, netVars, message, index, delivered, lockVars>>
  /\ NetSame

NextIteration == /\ index' = index + 1
                 /\ Lock!CallUnlock(NetworkThread)
                 /\ UNCHANGED <<netAt, message, delivered>>
                 /\ NetSame

AtAttempt == /\ NetRuns /\ netAt = "attempts"
             /\ index < Len(connReqQ)

Current == connReqQ[index + 1]

NotYet == /\ AtAttempt
          /\ ~Current.due
          /\ UNCHANGED <<connReqQ, netVars>>
          /\ NextIteration

\* Mutants: the user is not told; the attempt stays.
GiveUpSilently ==
  /\ AtAttempt
  /\ Current.due /\ Current.requestsMade = Times + 1
  /\ connReqQ' = RemoveAt(connReqQ, index + 1)
  /\ UNCHANGED netVars
  /\ NextIteration

GiveUpKeepsAttempt ==
  /\ AtAttempt
  /\ Current.due /\ Current.requestsMade = Times + 1
  /\ Tell(Current.addr, "CONNECTION_ATTEMPT_FAILED")
  /\ UNCHANGED <<connReqQ, dontFragment, asked1, asked2, slots, requested>>
  /\ NextIteration

\* Every try is made: ID_CONNECTION_ATTEMPT_FAILED.
GiveUp == /\ AtAttempt
          /\ Current.due /\ Current.requestsMade = Times + 1
          /\ Tell(Current.addr, "CONNECTION_ATTEMPT_FAILED")
          /\ connReqQ' = RemoveAt(connReqQ, index + 1)
          /\ UNCHANGED <<dontFragment, asked1, asked2, slots, requested>>
          /\ NextIteration

TriesPerSize == Times \div mtuSizesCount
Byte(n) == n % ByteMod

\* Mutant: after the smallest size comes the largest again.
MTUSizeIndexWraps(made) == (made \div TriesPerSize) % mtuSizesCount

\* The more tries are made, the smaller the packet: sizes 0, 1 and 2.
MTUSizeIndex(made) == IF made \div TriesPerSize >= mtuSizesCount
                        THEN mtuSizesCount - 1 ELSE made \div TriesPerSize

LowestMtu == TriesPerSize * (mtuSizesCount - 1)

\* Mutant: a slow send jumps beyond the limit.
MadeAfterBeyond(made, result) ==
  [sent |-> Byte(made + 1),
   too_big |-> Byte((MTUSizeIndex(made) + 1) * TriesPerSize),
   slow |-> IF LowestMtu > made + 1 THEN Byte(LowestMtu) ELSE Byte(Times + 2)][result]

\* What a try leaves in requestsMade.
MadeAfter(made, result) ==
  LET once == Byte(made + 1)
  IN  [sent |-> once,
       too_big |-> Byte((MTUSizeIndex(made) + 1) * TriesPerSize),
       slow |-> IF LowestMtu > once THEN Byte(LowestMtu) ELSE Byte(Times + 1)][result]

\* ID_OPEN_CONNECTION_REQUEST_1 padded to the MTU.  A packet larger than the
\* MTU of the path (error 10040) or a slow send drops to a smaller size; the
\* error leaves before SetDoNotFragment(0).
TryAgain(result) ==
  /\ AtAttempt
  /\ Current.due /\ Current.requestsMade # Times + 1
  /\ connReqQ' = [connReqQ EXCEPT ![index + 1].due = FALSE,
                                  ![index + 1].requestsMade = MadeAfter(@, result)]
  /\ asked1' = IF result = "too_big" THEN asked1 ELSE asked1 \cup {Current.addr}
  /\ dontFragment' = (result = "too_big")
  /\ UNCHANGED <<asked2, slots, requested, told>>
  /\ NextIteration

ProcessConnectionRequestQ == \/ LockAttempts \/ NotYet \/ GiveUp
                             \/ \E result \in SendResults : TryAgain(result)
                             \/ EndCycle

Network == \/ BeginCycle
           \/ \E m \in Answers : Deliver(m)
           \/ OnConnectionReply1 \/ OnConnectionReply2 \/ OnConnectionFailed
           \/ EndReceive
           \/ ProcessConnectionRequestCancelQ
           \/ ProcessConnectionRequestQ

\* nextRequestTime of an attempt passes.  Only ProcessConnectionRequestQ compares
\* it, with the time it takes once, before it locks.
Elapse(i) == /\ i \in DOMAIN connReqQ
             /\ netAt = "request"
             /\ ~connReqQ[i].due
             /\ connReqQ' = [connReqQ EXCEPT ![i].due = TRUE]
             /\ UNCHANGED <<connReqCancelQ, netVars, userAt, netAt, call, message, index,
                            counters, lockVars>>

LockStep == /\ \E t \in Threads : Lock!Inside(t)
            /\ UNCHANGED <<connReqQ, connReqCancelQ, netVars, userAt, netAt, call, message,
                           index, counters>>

Next == User \/ Network \/ LockStep \/ \E i \in DOMAIN connReqQ : Elapse(i)

Spec == Init /\ [][Next]_vars

\* Both threads are scheduled, a call of Connect() that has begun goes on, and
\* time passes.  Nothing makes the user call or an answer arrive.
FairSpec == /\ Spec
            /\ WF_vars(PostAttempt \/ AlreadyInProgress)
            /\ WF_vars(Network)
            /\ \A t \in Threads : WF_vars(LockStep /\ Lock!Inside(t))
            /\ \A i \in 1 .. MaxPosted : SF_vars(Elapse(i))

----------------------------------------------------------------------------
Entries == [addr : Targets, mode : Modes, requestsMade : 0 .. (ByteMod - 1), due : BOOLEAN]

TypeOK == /\ connReqQ \in Seq(Entries)
          /\ connReqCancelQ \in Seq(Targets)
          /\ asked1 \subseteq Targets /\ asked2 \subseteq Targets
          /\ slots \subseteq Targets /\ requested \subseteq Targets
          /\ dontFragment \in BOOLEAN
          /\ told \in [Targets -> SUBSET {"CONNECTION_ATTEMPT_FAILED", "REFUSED",
                         "PUBLIC_KEY_MISMATCH", "WECLI_SECURE_BUT_SRV_NO",
                         "WECLINOTPASS_SRVPUBKEY_WHENCONNECT"}]
          /\ userAt \in {"idle", "connect"}
          /\ netAt \in {"idle", "receive", "reply1", "reply1_match", "reply2", "reply2_match",
                        "reply2_remove", "refused", "cancel", "cancel_scan", "request",
                        "attempts"}
          /\ index \in Nat
          /\ Lock!TypeOK

\* The queue is never in the hands of both threads.  Not so once it holds two attempts:
\* ProcessConnectionRequestQ unlocks in every turn.
QueueGuarded == Lock!MutualExclusion

\* Nested calls on one thread never wait for the lock that thread holds already
\* ("avoid deadlock"), whatever the handlers do with it.
NoSelfWait == Lock!NoSelfDeadlock

\* Between two cycles the pthread mutex of the queue is not the network thread's.
LockGivenBack ==
  netAt = "idle" /\ lockPc[NetworkThread] = "idle" /\ ~SingleThread => m_mutex # NetworkThread

\* requestsMade never jumps over the limit that ends the attempt, which the code
\* tests for equality, although three places set it.
NeverOverLimit == \A i \in DOMAIN connReqQ : connReqQ[i].requestsMade <= Times + 1

\* The notices that say an attempt is over, as opposed to the complaints about an answer.
FinalNotices == {"CONNECTION_ATTEMPT_FAILED", "REFUSED"}
ToldOver(a) == told[a] \cap FinalNotices # {}

\* No attempt disappears in silence: when a cycle is over, every posted attempt is
\* still pending, or its connection is requested, or the user was told it has failed.
EveryEndIsTold ==
  netAt = "idle" =>
    \A a \in asked1 : Pending(a) \/ a \in requested \/ ToldOver(a)

\* A failure is final: no answer that comes late, or again, has the connection
\* requested behind the back of a user who was told that the attempt has failed, and no
\* user is told so of a connection that is requested.
FailureIsFinal == \A a \in Targets : ToldOver(a) => a \notin requested

\* While an attempt lasts, its packets never grow again.
MtuNeverGrows ==
  [][\A i \in DOMAIN connReqQ : \A j \in DOMAIN connReqQ' :
        connReqQ[i].addr = connReqQ'[j].addr =>
           MTUSizeIndex(connReqQ'[j].requestsMade) >= MTUSizeIndex(connReqQ[i].requestsMade)]_vars

\* Every attempt comes to an end.
AttemptEnds == \A a \in Targets : Pending(a) ~> ~Pending(a)

\* The network thread comes back to the beginning of its cycle again and again:
\* no handler loops for ever and no lock keeps it waiting for ever.
NetworkKeepsCycling == []<>(netAt = "idle")

\* A cancelled attempt is not pending when the queue of cancels is processed
\* ("Cancel a pending connection attempt").
CancelTakesEffect ==
  netAt = "request" /\ SingleThread =>
     \A i \in DOMAIN connReqCancelQ : ~Pending(connReqCancelQ[i])

\* A socket may fragment again after the requests of a cycle are sent ("set back
\* the SetDoNotFragment to allowed fragment").
FragmentsAgain == netAt = "idle" => ~dontFragment

\* A user told that an attempt failed need not expect anything more of it
\* ("Attempted a connection and couldn't").
ToldMeansOver == \A a \in Targets : told[a] # {} => ~Pending(a)
=============================================================================
