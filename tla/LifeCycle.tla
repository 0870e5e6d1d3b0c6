----------------------------- MODULE LifeCycle -----------------------------
(***************************************************************************)
(* One life of a JackieApplication in the build with threads: Start binds  *)
(* the sockets, creates a receive thread for each and the network thread,  *)
(* and waits for them; StopRecvThread and StopNetworkUpdateThread end them.*)
(* A receive thread on a blocking socket looks at endThreads only when a   *)
(* datagram comes, so StopRecvThread sends it one.                         *)
(***************************************************************************)
EXTENDS Naturals, FiniteSets

CONSTANTS SocketCount,      \* bindLocalSocketsCount
          Blocking,         \* the sockets that are bound as blocking
          Creations,        \* what JACKIE_Thread::Create may return: TRUE is success
          Tries,            \* resends of StopRecvThread that fit into its second
          MaxLost,          \* bound: of its datagrams that get lost
          MaxInbox          \* datagrams that fit into a socket's buffer

Socket == 1 .. SocketCount

ASSUME LifeAssumption == /\ SocketCount \in Nat \ {0}
                         /\ Blocking \subseteq Socket
                         /\ MaxLost \in Nat /\ Tries \in Nat /\ MaxLost <= Tries
                         /\ MaxInbox \in Nat \ {0}

VARIABLES user,        \* where the user's thread is, and at which socket
          result,      \* what Start returned
          busy,        \* sockets that bind__ refuses: the port is another program's
          unsupported, \* sockets whose family, not AF_INET, is not compiled in
          freed,       \* freed[s]: how often DeallocJIS was called for the socket
          endThreads, isNetworkUpdateThreadActive, isRecvPollingThreadActive,
          receiver,    \* receiver[s]: where the receive thread of s is
          network,     \* where the network thread is
          inbox,       \* inbox[s]: datagrams in the socket
          resends, lost

flags == <<endThreads, isNetworkUpdateThreadActive, isRecvPollingThreadActive>>
threads == <<receiver, network>>
wake == <<inbox, resends, lost>>
given == <<busy, unsupported>>
vars == <<user, result, given, freed, flags, threads, wake>>

Init == /\ user = [at |-> "out", socket |-> 1] /\ result = "none"
        /\ busy \in SUBSET Socket /\ unsupported \in SUBSET Socket
        /\ freed = [s \in Socket |-> 0]
        /\ endThreads = TRUE
        /\ isNetworkUpdateThreadActive = FALSE /\ isRecvPollingThreadActive = 0
        /\ receiver = [s \in Socket |-> "none"] /\ network = "none"
        /\ inbox = [s \in Socket |-> 0] /\ resends = 0 /\ lost = 0

At(place) == user.at = place

Goto(place) == user' = [at |-> place, socket |-> 1]

\* To the next socket of a loop, or to what follows the loop.
Advance(after) == user' = IF user.socket < SocketCount
                            THEN [user EXCEPT !.socket = @ + 1]
                            ELSE [at |-> after, socket |-> 1]

Returns(r) == result' = r /\ Goto("out")

----------------------------------------------------------------------------
\* Start's beginning.  It gets past InitIPAddress once in an object's life: there it
\* asserts that no local address is set yet.
Start == /\ At("out") /\ endThreads /\ result = "none"
         /\ Goto("binding")
         /\ UNCHANGED <<result, given, freed, flags, threads, wake>>

\* Mutant: endThreads is left for later.
FlagsTooLate == UNCHANGED endThreads /\ isNetworkUpdateThreadActive' = FALSE

FlagsForThreads == endThreads' = FALSE /\ isNetworkUpdateThreadActive' = FALSE

\* Bind's test datagram came back and Start goes on to the next socket.  After
\* the last one it sets the threads' flags.  While the port is in use Bind sleeps and tries
\* again, so that no other case is left.
Bind == /\ At("binding")
        /\ user.socket \notin busy \cup unsupported
        /\ Advance("creating")
        /\ IF user.socket < SocketCount
             THEN UNCHANGED <<endThreads, isNetworkUpdateThreadActive>>
             ELSE FlagsForThreads
        /\ UNCHANGED <<result, given, freed, isRecvPollingThreadActive, threads, wake>>

\* DeallocBindedSockets: all that the loop has appended, the current one included.
DeallocBindedSockets == [s \in Socket |-> freed[s] + (IF s <= user.socket THEN 1 ELSE 0)]

\* FAILED_SEND_RECV_TEST: another datagram came first, or none was sent.
BindFailsTest == /\ At("binding") /\ user.socket \notin busy \cup unsupported
                 /\ freed' = DeallocBindedSockets
                 /\ Returns("SOCKET_FAILED_TEST_SEND_RECV")
                 /\ UNCHANGED <<given, flags, threads, wake>>

\* SOCKET_FAMILY_NOT_SUPPORTED: DeallocJIS, then DeallocBindedSockets, the same socket
\* once more.  What that does to the heap is not followed.
BindUnsupported == /\ At("binding") /\ user.socket \in unsupported \ busy
                   /\ freed' = [DeallocBindedSockets EXCEPT ![user.socket] = @ + 1]
                   /\ Returns("SOCKET_FAMILY_NOT_SUPPORTED")
                   /\ UNCHANGED <<given, flags, threads, wake>>

CreateRecvPollingThread ==
  /\ At("creating") /\ TRUE \in Creations
  /\ receiver' = [receiver EXCEPT ![user.socket] = "created"]
  /\ Advance("awaiting receivers")
  /\ UNCHANGED <<result, given, freed, flags, network, wake>>

\* End(0), which does nothing.
CreateRecvFails == /\ At("creating") /\ FALSE \in Creations
                   /\ Returns("FAILED_TO_CREATE_RECV_THREAD")
                   /\ UNCHANGED <<given, freed, flags, threads, wake>>

AwaitReceivers == /\ At("awaiting receivers") /\ isRecvPollingThreadActive > 0
                  /\ Goto("creating network")
                  /\ UNCHANGED <<result, given, freed, flags, threads, wake>>

\* Mutant: the creator announces the thread, as the build without threads does.
CreatedIsActive ==
  /\ At("creating network") /\ TRUE \in Creations
  /\ network' = "created" /\ isNetworkUpdateThreadActive' = TRUE
  /\ Goto("awaiting network")
  /\ UNCHANGED <<result, given, freed, endThreads, isRecvPollingThreadActive, receiver, wake>>

CreateNetworkUpdateThread ==
  /\ At("creating network") /\ TRUE \in Creations
  /\ network' = "created"
  /\ Goto("awaiting network")
  /\ UNCHANGED <<result, given, freed, flags, receiver, wake>>

CreateNetworkFails == /\ At("creating network") /\ FALSE \in Creations
                      /\ Returns("FAILED_TO_CREATE_NETWORK_UPDATE_THREAD")
                      /\ UNCHANGED <<given, freed, flags, threads, wake>>

AwaitNetwork == /\ At("awaiting network") /\ isNetworkUpdateThreadActive
                /\ Returns("START_SUCCEED")
                /\ UNCHANGED <<given, freed, flags, threads, wake>>

----------------------------------------------------------------------------
\* What Start returned when there is no socket and no thread left to stop.
NothingToStop == {"none", "SOCKET_FAILED_TEST_SEND_RECV", "SOCKET_FAMILY_NOT_SUPPORTED"}

StopRecvThread == /\ At("out") /\ result \notin NothingToStop
                  /\ endThreads' = TRUE
                  /\ resends' = 0
                  /\ Goto("waking")
                  /\ UNCHANGED <<result, given, freed, isNetworkUpdateThreadActive,
                                 isRecvPollingThreadActive, threads, inbox, lost>>

\* Mutant: one datagram, whether it arrives or not.
WakeOnce == resends = 0

\* The first datagram for a socket, and those after it while a thread is counted, for
\* a second.
WakeMore == resends = 0 \/ (isRecvPollingThreadActive > 0 /\ resends <= Tries)

\* A datagram that does not fit into the buffer is dropped.
Delivered(s) == [inbox EXCEPT ![s] = IF @ < MaxInbox THEN @ + 1 ELSE @]

Wake == /\ At("waking") /\ user.socket \in Blocking
        /\ WakeMore
        /\ resends' = resends + 1
        /\ \/ inbox' = Delivered(user.socket) /\ UNCHANGED lost
           \/ lost < MaxLost /\ lost' = lost + 1 /\ UNCHANGED inbox
        /\ UNCHANGED <<user, result, given, freed, flags, threads>>

WakeNext == /\ At("waking") /\ (user.socket \in Blocking => ~WakeMore)
            /\ Advance("out")
            /\ resends' = 0
            /\ UNCHANGED <<result, given, freed, flags, threads, inbox, lost>>

StopNetworkUpdateThread ==
  /\ At("out") /\ result \notin NothingToStop
  /\ endThreads' = TRUE /\ isNetworkUpdateThreadActive' = FALSE
  /\ UNCHANGED <<user, result, given, freed, isRecvPollingThreadActive, threads, wake>>

----------------------------------------------------------------------------
\* RunRecvCycleLoop on the thread of socket s.
BeginReceiver(s) ==
  /\ receiver[s] = "created"
  /\ receiver' = [receiver EXCEPT ![s] = "looping"]
  /\ isRecvPollingThreadActive' = isRecvPollingThreadActive + 1
  /\ UNCHANGED <<user, result, given, freed, endThreads, isNetworkUpdateThreadActive,
                 network, wake>>

RunRecvCycleOnce(s) ==
  /\ receiver[s] = "looping" /\ ~endThreads
  /\ receiver' = [receiver EXCEPT ![s] = "receiving"]
  /\ UNCHANGED <<user, result, given, freed, flags, network, wake>>

RecvFrom(s) ==
  /\ receiver[s] = "receiving"
  /\ s \in Blocking => inbox[s] > 0
  /\ inbox' = [inbox EXCEPT ![s] = IF @ > 0 THEN @ - 1 ELSE 0]
  /\ receiver' = [receiver EXCEPT ![s] = "looping"]
  /\ UNCHANGED <<user, result, given, freed, flags, network, resends, lost>>

EndReceiver(s) ==
  /\ receiver[s] = "looping" /\ endThreads
  /\ receiver' = [receiver EXCEPT ![s] = "ended"]
  /\ isRecvPollingThreadActive' = isRecvPollingThreadActive - 1
  /\ UNCHANGED <<user, result, given, freed, endThreads, isNetworkUpdateThreadActive,
                 network, wake>>

\* RunNetworkUpdateCycleLoop.
BeginNetwork == /\ network = "created"
                /\ network' = "looping"
                /\ isNetworkUpdateThreadActive' = TRUE
                /\ UNCHANGED <<user, result, given, freed, endThreads,
                               isRecvPollingThreadActive, receiver, wake>>

RunNetworkUpdateCycleOnce == /\ network = "looping" /\ ~endThreads
                             /\ network' = "waiting"
                             /\ UNCHANGED <<user, result, given, freed, flags, receiver, wake>>

\* WaitEvent(10): triggered, or ten milliseconds over.
WaitEvent == /\ network = "waiting"
             /\ network' = "looping"
             /\ UNCHANGED <<user, result, given, freed, flags, receiver, wake>>

EndNetwork == /\ network = "looping" /\ endThreads
              /\ network' = "ended"
              /\ isNetworkUpdateThreadActive' = FALSE
              /\ UNCHANGED <<user, result, given, freed, endThreads,
                             isRecvPollingThreadActive, receiver, wake>>

\* Peers, and the programs that hold the ports.
Arrive(s) == /\ receiver[s] # "none" /\ inbox[s] < MaxInbox
             /\ inbox' = Delivered(s)
             /\ UNCHANGED <<user, result, given, freed, flags, threads, resends, lost>>

ReleasePort(s) == /\ s \in busy
                  /\ busy' = busy \ {s}
                  /\ UNCHANGED <<user, result, unsupported, freed, flags, threads, wake>>

----------------------------------------------------------------------------
\* The user's thread inside a call of Start or StopRecvThread.
InCall == \/ Bind \/ BindFailsTest \/ BindUnsupported
          \/ CreateRecvPollingThread \/ CreateRecvFails \/ AwaitReceivers
          \/ CreateNetworkUpdateThread \/ CreateNetworkFails \/ AwaitNetwork
          \/ Wake \/ WakeNext

Receiver(s) == BeginReceiver(s) \/ RunRecvCycleOnce(s) \/ RecvFrom(s) \/ EndReceiver(s)

Network == BeginNetwork \/ RunNetworkUpdateCycleOnce \/ WaitEvent \/ EndNetwork

Next == \/ Start \/ StopRecvThread \/ StopNetworkUpdateThread \/ InCall
        \/ (\E s \in Socket : Receiver(s) \/ Arrive(s) \/ ReleasePort(s))
        \/ Network

Spec == Init /\ [][Next]_vars

\* Every thread of the process runs; when the user calls, what peers send and when other
\* programs release a port is left open.
FairSpec == /\ Spec
            /\ WF_vars(InCall) /\ WF_vars(Network)
            /\ \A s \in Socket : WF_vars(Receiver(s))

----------------------------------------------------------------------------
Starting == user.at \notin {"out", "waking"}

\* Start comes back, with or without success, once no other program uses the ports:
\* the threads it waits for do say that they run, however fast or slow they are, and
\* none of them ends before it has been seen.
StartReturns == (<>(busy = {})) => (Starting ~> ~Starting)

\* After StopRecvThread every receive thread ends, also one that is on its way into
\* a blocking RecvFrom when endThreads is set or whose first datagrams are lost, and so
\* does the network thread.
ThreadsEnd == At("waking") ~> /\ \A s \in Socket : receiver[s] \in {"none", "ended"}
                              /\ network \in {"none", "ended"}

\* Once Start has said START_SUCCEED and until a Stop call, the network thread is
\* inside its loop, and so is a receive thread: the announcements Start waits for are
\* neither missed, nor left over, nor those of a thread that has ended again.
StartMeansRunning == result = "START_SUCCEED" /\ ~endThreads =>
                       /\ network \in {"looping", "waiting"}
                       /\ \E s \in Socket : receiver[s] \in {"looping", "receiving"}

\* What comments, names and callers rely on, and the code does not keep: see the README.
\* "true if the send thread is active."
FlagSaysActive == network \in {"looping", "waiting"} => isNetworkUpdateThreadActive

\* A socket object is deleted at most once on the way out of a Start that fails.
DeletedOnce == \A s \in Socket : freed[s] <= 1

\* An application whose Start failed is not active().
FailedIsInactive == At("out") /\ result # "START_SUCCEED" => endThreads

\* The calls after which the samples delete the application: no thread uses it.
Stopped == At("out") /\ endThreads /\ result = "START_SUCCEED" /\ ~isNetworkUpdateThreadActive
StoppedIsAlone == Stopped /\ isRecvPollingThreadActive = 0 =>
                    /\ \A s \in Socket : receiver[s] = "ended"
                    /\ network = "ended"
=============================================================================
