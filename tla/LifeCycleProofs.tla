-------------------------- MODULE LifeCycleProofs --------------------------
(***************************************************************************)
(* Start and the two Stop calls for every number of sockets, blocking or   *)
(* not, and whatever becomes of the threads and the datagrams.  The count  *)
(* of receive threads is exact (ReceiverInv), so that what Start has seen  *)
(* of it and of the network thread's flag stays true until a Stop call     *)
(* (RunningInv): no thread leaves its loop before endThreads is set.       *)
(***************************************************************************)
EXTENDS LifeCycle, FiniteSetTheorems, TLAPS

\* Start is called once in an object's life, and its return value says how far it came.
Places == {"out", "binding", "creating", "awaiting receivers", "creating network",
           "awaiting network", "waking"}

UserInv ==
  /\ user \in [at : Places, socket : Socket]
  /\ user.at \notin {"out", "waking"} => result = "none"
  /\ user.at = "waking" => result \notin NothingToStop

\* The threads that isRecvPollingThreadActive is to count.
Polling == {s \in Socket : receiver[s] \in {"looping", "receiving"}}

\* The sockets that have no thread yet: Start creates one for each, in order, once.
Uncreated == {s \in Socket : (user.at = "creating" /\ s >= user.socket)
                             \/ user.at = "binding"
                             \/ (user.at = "out" /\ result = "none")}

ReceiverInv ==
  /\ \A s \in Uncreated : receiver[s] = "none"
  /\ receiver \in [Socket -> {"none", "created", "looping", "receiving", "ended"}]
  /\ isRecvPollingThreadActive = Cardinality(Polling)

\* The network thread is created once, after which Start only waits for it.
CreatedInv == network # "none" => user.at = "awaiting network" \/ result # "none"

\* Start goes on when it has seen a receive thread, and says START_SUCCEED when it has
\* seen the network thread.
RunningInv ==
  /\ isNetworkUpdateThreadActive => network \in {"looping", "waiting"}
  /\ user.at \in {"creating network", "awaiting network"} /\ ~endThreads => Polling # {}
  /\ result = "START_SUCCEED" /\ ~endThreads => /\ network \in {"looping", "waiting"}
                                                /\ Polling # {}

Inv == UserInv /\ ReceiverInv /\ CreatedInv /\ RunningInv

LEMMA InitInv == Init => Inv
<1> SUFFICES ASSUME Init PROVE Inv
  OBVIOUS
<1>1. 1 \in Socket
  BY LifeAssumption DEF Socket
<1>2. UserInv
  BY <1>1 DEF Init, UserInv, Places, NothingToStop
<1>3. Polling = {}
  BY DEF Init, Polling
<1>4. \A s \in Uncreated : receiver[s] = "none"
  BY DEF Init, Uncreated
<1>5. ReceiverInv
  BY <1>3, <1>4, FS_EmptySet DEF Init, ReceiverInv
<1>6. CreatedInv /\ RunningInv
  BY DEF Init, CreatedInv, RunningInv
<1> QED
  BY <1>2, <1>5, <1>6 DEF Inv

\* Where the user's thread goes.
LEMMA Moves ==
  ASSUME UserInv, NEW place \in Places
  PROVE  /\ Goto(place) => /\ user' \in [at : Places, socket : Socket]
                           /\ user'.at = place
         /\ Advance(place) => /\ user' \in [at : Places, socket : Socket]
                              /\ user'.at \in {user.at, place}
<1> USE LifeAssumption DEF Socket
<1>1. user \in [at : Places, socket : Socket]
  BY DEF UserInv
<1>2. ASSUME Goto(place) PROVE user' \in [at : Places, socket : Socket] /\ user'.at = place
  BY <1>2 DEF Goto
<1>3. ASSUME Advance(place)
      PROVE  user' \in [at : Places, socket : Socket] /\ user'.at \in {user.at, place}
  <2>1. CASE user.socket < SocketCount
    <3>1. user' = [user EXCEPT !.socket = user.socket + 1] /\ user.socket + 1 \in Socket
      BY <1>1, <1>3, <2>1 DEF Advance
    <3> QED BY <1>1, <3>1
  <2>2. CASE ~(user.socket < SocketCount)
    BY <1>3, <2>2 DEF Advance
  <2> QED BY <2>1, <2>2
<1> QED
  BY <1>2, <1>3

LEMMA UserStep == UserInv /\ [Next]_vars => UserInv'
<1> SUFFICES ASSUME UserInv, [Next]_vars PROVE UserInv'
  OBVIOUS
<1>1. /\ user \in [at : Places, socket : Socket]
      /\ user.at \notin {"out", "waking"} => result = "none"
      /\ user.at = "waking" => result \notin NothingToStop
  BY DEF UserInv
<1>2. ASSUME UNCHANGED <<user, result>> PROVE UserInv'
  BY <1>1, <1>2 DEF UserInv
<1>3. ASSUME NEW place \in Places, Goto(place) \/ Advance(place), At("binding") \/ At("creating")
                 \/ At("awaiting receivers") \/ At("creating network"),
             place \notin {"out", "waking"}, UNCHANGED result
      PROVE  UserInv'
  <2>1. user' \in [at : Places, socket : Socket] /\ user'.at \in {user.at, place}
    BY <1>3, Moves
  <2>2. user'.at \notin {"out", "waking"} /\ result = "none"
    BY <1>1, <1>3, <2>1 DEF At
  <2> QED BY <1>1, <1>3, <2>1, <2>2 DEF UserInv
<1>4. ASSUME NEW r, Returns(r)
      PROVE  UserInv'
  <2>1. user' \in [at : Places, socket : Socket] /\ user'.at = "out"
    BY <1>4, Moves, "out" \in Places DEF Returns, Places
  <2> QED BY <2>1 DEF UserInv
<1>5. CASE Start
  <2>1. /\ result = "none" /\ result' = "none"
        /\ user' \in [at : Places, socket : Socket] /\ user'.at = "binding"
    BY <1>5, Moves, "binding" \in Places DEF Start, Places
  <2> QED BY <1>1, <2>1 DEF UserInv
<1>6. CASE Bind
  BY <1>3, <1>6 DEF Bind, Places
<1>7. CASE BindFailsTest \/ BindUnsupported \/ CreateRecvFails \/ CreateNetworkFails
           \/ AwaitNetwork
  BY <1>4, <1>7 DEF BindFailsTest, BindUnsupported, CreateRecvFails, CreateNetworkFails,
                    AwaitNetwork
<1>8. CASE CreateRecvPollingThread
  BY <1>3, <1>8 DEF CreateRecvPollingThread, Places
<1>9. CASE AwaitReceivers
  BY <1>3, <1>9 DEF AwaitReceivers, Places
<1>10. CASE CreateNetworkUpdateThread
  BY <1>3, <1>10 DEF CreateNetworkUpdateThread, Places
<1>11. CASE StopRecvThread
  <2>1. /\ result \notin NothingToStop /\ result' = result
        /\ user' \in [at : Places, socket : Socket] /\ user'.at = "waking"
    BY <1>11, Moves, "waking" \in Places DEF StopRecvThread, Places
  <2> QED BY <1>1, <2>1 DEF UserInv
<1>12. CASE WakeNext
  <2>1. /\ user.at = "waking" /\ result' = result
        /\ user' \in [at : Places, socket : Socket] /\ user'.at \in {user.at, "out"}
    BY <1>12, Moves, "out" \in Places DEF WakeNext, At, Places
  <2> QED BY <1>1, <2>1 DEF UserInv
<1>13. CASE Wake \/ StopNetworkUpdateThread \/ Network
  BY <1>2, <1>13 DEF Wake, StopNetworkUpdateThread, Network, BeginNetwork,
                     RunNetworkUpdateCycleOnce, WaitEvent, EndNetwork
<1>14. CASE \E s \in Socket : Receiver(s) \/ Arrive(s) \/ ReleasePort(s)
  BY <1>2, <1>14 DEF Receiver, BeginReceiver, RunRecvCycleOnce, RecvFrom, EndReceiver, Arrive,
                     ReleasePort
<1>15. CASE UNCHANGED vars
  BY <1>2, <1>15 DEF vars
<1> QED
  BY <1>5, <1>6, <1>7, <1>8, <1>9, <1>10, <1>11, <1>12, <1>13, <1>14, <1>15 DEF Next, InCall

LEMMA UncreatedShrinks ==
  ASSUME UserInv, [Next]_vars
  PROVE  Uncreated' \subseteq Uncreated
<1> USE LifeAssumption
<1>1. user \in [at : Places, socket : Socket]
  BY DEF UserInv
<1>2. ASSUME UNCHANGED <<user, result>> PROVE Uncreated' \subseteq Uncreated
  BY <1>2 DEF Uncreated
<1>3. ASSUME user' = [at |-> "out", socket |-> 1], result' # "none"
      PROVE  Uncreated' \subseteq Uncreated
  BY <1>3 DEF Uncreated
<1>4. CASE Start
  BY <1>4 DEF Start, At, Goto, Uncreated
<1>5. CASE Bind
  <2>1. user.at = "binding"
    BY <1>5 DEF Bind, At
  <2>2. Socket \subseteq Uncreated
    BY <2>1 DEF Uncreated
  <2> QED BY <2>2 DEF Uncreated
<1>6. CASE CreateRecvPollingThread
  <2>1. user.at = "creating" /\ Advance("awaiting receivers") /\ result' = result
    BY <1>6 DEF CreateRecvPollingThread, At
  <2>2. CASE user.socket < SocketCount
    <3>1. user'.at = "creating" /\ user'.socket = user.socket + 1
      BY <1>1, <2>1, <2>2 DEF Advance
    <3>2. user.socket \in Nat /\ Socket \subseteq Nat
      BY <1>1 DEF Socket
    <3>3. ASSUME NEW s \in Uncreated' PROVE s \in Uncreated
      <4>1. s \in Nat /\ s \in Socket
        BY <3>2, <3>3 DEF Uncreated
      <4>2. s >= user'.socket
        BY <3>1, <3>3 DEF Uncreated
      <4>3. s >= user.socket
        BY ONLY <3>1, <3>2, <4>1, <4>2
      <4> QED BY <2>1, <4>1, <4>3 DEF Uncreated
    <3> QED BY <3>3
  <2>3. CASE ~(user.socket < SocketCount)
    <3>1. user'.at = "awaiting receivers"
      BY <2>1, <2>3 DEF Advance
    <3> QED BY <3>1 DEF Uncreated
  <2> QED BY <2>2, <2>3
<1>7. CASE BindFailsTest \/ BindUnsupported \/ CreateRecvFails \/ CreateNetworkFails
           \/ AwaitNetwork
  BY <1>3, <1>7 DEF BindFailsTest, BindUnsupported, CreateRecvFails, CreateNetworkFails, AwaitNetwork,
                    Returns, Goto
<1>8. CASE AwaitReceivers \/ CreateNetworkUpdateThread
  <2>1. CASE AwaitReceivers
    <3>1. user'.at = "creating network"
      BY <2>1 DEF AwaitReceivers, Goto
    <3> QED BY <3>1 DEF Uncreated
  <2>2. CASE CreateNetworkUpdateThread
    <3>1. user'.at = "awaiting network"
      BY <2>2 DEF CreateNetworkUpdateThread, Goto
    <3> QED BY <3>1 DEF Uncreated
  <2> QED BY <1>8, <2>1, <2>2
<1>9. CASE StopRecvThread
  BY <1>9 DEF StopRecvThread, Goto, Uncreated
<1>10. CASE WakeNext
  <2>1. user.at = "waking" /\ result' = result /\ result # "none"
    BY <1>10 DEF WakeNext, At, UserInv, NothingToStop
  <2>2. user'.at \in {"waking", "out"}
    BY <1>1, <1>10, <2>1 DEF WakeNext, Advance
  <2> QED BY <2>1, <2>2 DEF Uncreated
<1>11. CASE Wake \/ StopNetworkUpdateThread \/ Network
  BY <1>2, <1>11 DEF Wake, StopNetworkUpdateThread, Network, BeginNetwork,
                     RunNetworkUpdateCycleOnce, WaitEvent, EndNetwork
<1>12. CASE \E s \in Socket : Receiver(s) \/ Arrive(s) \/ ReleasePort(s)
  BY <1>2, <1>12 DEF Receiver, BeginReceiver, RunRecvCycleOnce, RecvFrom, EndReceiver, Arrive,
                     ReleasePort
<1>13. CASE UNCHANGED vars
  BY <1>2, <1>13 DEF vars
<1> QED
  BY <1>4, <1>5, <1>6, <1>7, <1>8, <1>9, <1>10, <1>11, <1>12, <1>13 DEF Next, InCall

\* A receive thread begins or ends, or does neither.
LEMMA ReceiverStep == Inv /\ [Next]_vars => ReceiverInv'
<1> SUFFICES ASSUME Inv, [Next]_vars PROVE ReceiverInv'
  OBVIOUS
<1> DEFINE States == {"none", "created", "looping", "receiving", "ended"}
<1>1. /\ receiver \in [Socket -> States]
      /\ isRecvPollingThreadActive = Cardinality(Polling)
      /\ \A s \in Uncreated : receiver[s] = "none"
  BY DEF Inv, ReceiverInv
<1>2. Uncreated' \subseteq Uncreated /\ Uncreated \subseteq Socket
  BY UncreatedShrinks DEF Inv, Uncreated
<1>3. IsFiniteSet(Polling) /\ Cardinality(Polling) \in Nat
  <2>1. IsFiniteSet(Socket)
    BY LifeAssumption, FS_Interval DEF Socket
  <2>2. Polling \in SUBSET Socket
    BY DEF Polling
  <2> QED BY <2>1, <2>2, FS_Subset, FS_CardinalityType
<1>4. ASSUME UNCHANGED <<receiver, isRecvPollingThreadActive>> PROVE ReceiverInv'
  BY <1>1, <1>2, <1>4 DEF ReceiverInv, Polling
<1>5. ASSUME NEW s \in Socket, NEW state \in States, receiver[s] # "none",
             receiver' = [receiver EXCEPT ![s] = state]
      PROVE  /\ receiver' \in [Socket -> States]
             /\ \A u \in Uncreated' : receiver'[u] = "none"
  BY <1>1, <1>2, <1>5
<1>6. CASE \E s \in Socket : BeginReceiver(s)
  <2>1. PICK s \in Socket : BeginReceiver(s)
    BY <1>6
  <2>2. /\ receiver[s] = "created" /\ receiver' = [receiver EXCEPT ![s] = "looping"]
        /\ isRecvPollingThreadActive' = isRecvPollingThreadActive + 1
    BY <2>1 DEF BeginReceiver
  <2>3. Polling' = Polling \cup {s} /\ s \notin Polling
    BY <1>1, <2>2 DEF Polling
  <2>4. Cardinality(Polling') = Cardinality(Polling) + 1
    BY <1>3, <2>3, FS_AddElement
  <2>5. receiver' \in [Socket -> States] /\ \A u \in Uncreated' : receiver'[u] = "none"
    BY <1>5, <2>2
  <2> QED BY <1>1, <2>2, <2>4, <2>5 DEF ReceiverInv
<1>7. CASE \E s \in Socket : EndReceiver(s)
  <2>1. PICK s \in Socket : EndReceiver(s)
    BY <1>7
  <2>2. /\ receiver[s] = "looping" /\ receiver' = [receiver EXCEPT ![s] = "ended"]
        /\ isRecvPollingThreadActive' = isRecvPollingThreadActive - 1
    BY <2>1 DEF EndReceiver
  <2>3. Polling' = Polling \ {s} /\ s \in Polling
    BY <1>1, <2>2 DEF Polling
  <2>4. Cardinality(Polling') = Cardinality(Polling) - 1
    BY <1>3, <2>3, FS_RemoveElement
  <2>5. receiver' \in [Socket -> States] /\ \A u \in Uncreated' : receiver'[u] = "none"
    BY <1>5, <2>2
  <2> QED BY <1>1, <2>2, <2>4, <2>5 DEF ReceiverInv
<1>8. CASE \E s \in Socket : RunRecvCycleOnce(s) \/ RecvFrom(s)
  <2>1. PICK s \in Socket : RunRecvCycleOnce(s) \/ RecvFrom(s)
    BY <1>8
  <2>2. PICK state \in {"looping", "receiving"} :
           /\ receiver[s] \in {"looping", "receiving"}
           /\ receiver' = [receiver EXCEPT ![s] = state]
           /\ isRecvPollingThreadActive' = isRecvPollingThreadActive
    BY <2>1 DEF RunRecvCycleOnce, RecvFrom, flags
  <2>3. Polling' = Polling
    BY <1>1, <2>2 DEF Polling
  <2>4. receiver' \in [Socket -> States] /\ \A u \in Uncreated' : receiver'[u] = "none"
    BY <1>5, <2>2
  <2> QED BY <1>1, <2>2, <2>3, <2>4 DEF ReceiverInv
<1>9. CASE CreateRecvPollingThread
  <2>1. /\ user.at = "creating" /\ Advance("awaiting receivers")
        /\ receiver' = [receiver EXCEPT ![user.socket] = "created"]
        /\ isRecvPollingThreadActive' = isRecvPollingThreadActive
    BY <1>9 DEF CreateRecvPollingThread, At, flags
  <2>2. /\ user \in [at : Places, socket : Socket] /\ user.socket \in Socket
        /\ user.socket \in Nat
    BY LifeAssumption DEF Inv, UserInv, Socket
  <2>3. user.socket \in Uncreated
    <3>1. user.socket >= user.socket
      BY ONLY <2>2
    <3> QED BY <2>1, <2>2, <3>1 DEF Uncreated
  <2>4. user.socket \notin Uncreated'
    <3>1. CASE user.socket < SocketCount
      <4>1. user'.at = "creating" /\ user'.socket = user.socket + 1
        BY <2>1, <2>2, <3>1 DEF Advance
      <4> QED BY <2>2, <4>1 DEF Uncreated
    <3>2. CASE ~(user.socket < SocketCount)
      <4>1. user'.at = "awaiting receivers"
        BY <2>1, <3>2 DEF Advance
      <4> QED BY <4>1 DEF Uncreated
    <3> QED BY <3>1, <3>2
  <2>5. Polling' = Polling
    BY <1>1, <2>1, <2>2, <2>3 DEF Polling
  <2>6. receiver' \in [Socket -> States] /\ \A u \in Uncreated' : receiver'[u] = "none"
    BY <1>1, <1>2, <2>1, <2>2, <2>4
  <2> QED BY <1>1, <2>1, <2>5, <2>6 DEF ReceiverInv
<1>10. CASE Start \/ Bind \/ BindFailsTest \/ BindUnsupported \/ CreateRecvFails
              \/ AwaitReceivers \/ CreateNetworkUpdateThread \/ CreateNetworkFails \/ AwaitNetwork
  BY <1>4, <1>10 DEF Start, Bind, BindFailsTest, BindUnsupported, CreateRecvFails, AwaitReceivers,
       CreateNetworkUpdateThread, CreateNetworkFails, AwaitNetwork, threads, flags
<1>11. CASE StopRecvThread \/ Wake \/ WakeNext \/ StopNetworkUpdateThread \/ Network
  BY <1>4, <1>11 DEF StopRecvThread, Wake, WakeNext, StopNetworkUpdateThread, Network,
       BeginNetwork, RunNetworkUpdateCycleOnce, WaitEvent, EndNetwork, threads, flags
<1>12. CASE \E s \in Socket : Arrive(s) \/ ReleasePort(s)
  BY <1>4, <1>12 DEF Arrive, ReleasePort, threads, flags
<1>13. CASE UNCHANGED vars
  BY <1>4, <1>13 DEF vars, threads, flags
<1> QED
  BY <1>6, <1>7, <1>8, <1>9, <1>10, <1>11, <1>12, <1>13 DEF Next, InCall, Receiver

\* A receive thread stays in its loop until endThreads is set.
LEMMA PollingStays ==
  ASSUME Inv, [Next]_vars, ~endThreads
  PROVE  Polling \subseteq Polling'
<1>1. /\ user \in [at : Places, socket : Socket]
      /\ receiver \in [Socket -> {"none", "created", "looping", "receiving", "ended"}]
      /\ \A s \in Uncreated : receiver[s] = "none"
  BY DEF Inv, UserInv, ReceiverInv
<1>2. ASSUME UNCHANGED receiver PROVE Polling \subseteq Polling'
  BY <1>2 DEF Polling
<1>3. CASE \E s \in Socket : Receiver(s)
  <2>1. PICK s \in Socket, state \in {"looping", "receiving"} :
           receiver' = [receiver EXCEPT ![s] = state]
    BY <1>3 DEF Receiver, BeginReceiver, RunRecvCycleOnce, RecvFrom, EndReceiver
  <2> QED BY <1>1, <2>1 DEF Polling
<1>4. CASE CreateRecvPollingThread
  <2>1. user.at = "creating" /\ receiver' = [receiver EXCEPT ![user.socket] = "created"]
    BY <1>4 DEF CreateRecvPollingThread, At
  <2>2. user.socket \in Socket /\ user.socket \in Nat
    BY <1>1, LifeAssumption DEF Socket
  <2>3. user.socket >= user.socket
    BY ONLY <2>2
  <2>4. receiver[user.socket] = "none"
    BY <1>1, <2>1, <2>2, <2>3 DEF Uncreated
  <2> QED BY <1>1, <2>1, <2>2, <2>4 DEF Polling
<1>5. CASE Start \/ Bind \/ BindFailsTest \/ BindUnsupported \/ CreateRecvFails
             \/ AwaitReceivers \/ CreateNetworkUpdateThread \/ CreateNetworkFails
             \/ AwaitNetwork
  BY <1>2, <1>5 DEF Start, Bind, BindFailsTest, BindUnsupported, CreateRecvFails, AwaitReceivers,
       CreateNetworkUpdateThread, CreateNetworkFails, AwaitNetwork, threads
<1>6. CASE StopRecvThread \/ Wake \/ WakeNext \/ StopNetworkUpdateThread \/ Network
  BY <1>2, <1>6 DEF StopRecvThread, Wake, WakeNext, StopNetworkUpdateThread, Network,
       BeginNetwork, RunNetworkUpdateCycleOnce, WaitEvent, EndNetwork, threads
<1>7. CASE \E s \in Socket : Arrive(s) \/ ReleasePort(s)
  BY <1>2, <1>7 DEF Arrive, ReleasePort, threads
<1>8. CASE UNCHANGED vars
  BY <1>2, <1>8 DEF vars, threads
<1> QED
  BY <1>3, <1>4, <1>5, <1>6, <1>7, <1>8 DEF Next, InCall

LEMMA CreatedStep == Inv /\ [Next]_vars => CreatedInv'
<1> SUFFICES ASSUME Inv, [Next]_vars PROVE CreatedInv'
  OBVIOUS
<1>1. /\ network # "none" => user.at = "awaiting network" \/ result # "none"
      /\ user \in [at : Places, socket : Socket]
  BY DEF Inv, CreatedInv, UserInv
<1>2. ASSUME network' = network, result' = result, user.at # "awaiting network"
      PROVE  CreatedInv'
  BY <1>1, <1>2 DEF CreatedInv
<1>3. ASSUME NEW r, Returns(r), r # "none" PROVE CreatedInv'
  BY <1>3 DEF CreatedInv, Returns
<1>4. CASE Start \/ Bind \/ CreateRecvPollingThread \/ AwaitReceivers \/ StopRecvThread
           \/ Wake \/ WakeNext \/ StopNetworkUpdateThread
  BY <1>2, <1>4 DEF Start, Bind, CreateRecvPollingThread, AwaitReceivers, StopRecvThread,
       Wake, WakeNext, StopNetworkUpdateThread, At, threads
<1>5. CASE BindFailsTest \/ BindUnsupported \/ CreateRecvFails \/ CreateNetworkFails
           \/ AwaitNetwork
  BY <1>3, <1>5 DEF BindFailsTest, BindUnsupported, CreateRecvFails, CreateNetworkFails,
       AwaitNetwork
<1>6. CASE CreateNetworkUpdateThread
  BY <1>6 DEF CreateNetworkUpdateThread, Goto, CreatedInv
<1>7. CASE Network
  BY <1>1, <1>7 DEF Network, BeginNetwork, RunNetworkUpdateCycleOnce, WaitEvent, EndNetwork,
       CreatedInv
<1>8. CASE \E s \in Socket : Receiver(s) \/ Arrive(s) \/ ReleasePort(s)
  BY <1>1, <1>8 DEF Receiver, BeginReceiver, RunRecvCycleOnce, RecvFrom, EndReceiver, Arrive,
       ReleasePort, threads, CreatedInv
<1>9. CASE UNCHANGED vars
  BY <1>1, <1>9 DEF vars, threads, CreatedInv
<1> QED
  BY <1>4, <1>5, <1>6, <1>7, <1>8, <1>9 DEF Next, InCall

LEMMA RunningStep == Inv /\ [Next]_vars => RunningInv'
<1> SUFFICES ASSUME Inv, [Next]_vars PROVE RunningInv'
  OBVIOUS
<1> DEFINE Running == network \in {"looping", "waiting"}
           Seen == user.at \in {"creating network", "awaiting network"}
           Succeeded == result = "START_SUCCEED"
<1>1. /\ isNetworkUpdateThreadActive => Running
      /\ Seen /\ ~endThreads => Polling # {}
      /\ Succeeded /\ ~endThreads => Running /\ Polling # {}
  BY DEF Inv, RunningInv
<1>2. ~endThreads /\ Polling # {} => Polling' # {}
  BY PollingStays
<1>3. user \in [at : Places, socket : Socket]
  BY DEF Inv, UserInv
<1>4. ASSUME Seen' => Seen, Succeeded' => Succeeded, endThreads \/ endThreads' = endThreads,
             endThreads => endThreads' \/ ~(Seen' \/ Succeeded'), Running => Running',
             isNetworkUpdateThreadActive' => isNetworkUpdateThreadActive \/ Running'
      PROVE  RunningInv'
  BY <1>1, <1>2, <1>4 DEF RunningInv
<1>5. CASE Start \/ BindFailsTest \/ BindUnsupported \/ CreateRecvFails \/ CreateNetworkFails
  <2>1. UNCHANGED <<flags, threads>>
    BY <1>5 DEF Start, BindFailsTest, BindUnsupported, CreateRecvFails, CreateNetworkFails
  <2>2. ASSUME NEW r, Returns(r), r # "START_SUCCEED" PROVE ~Seen' /\ ~Succeeded'
    BY <2>2 DEF Returns, Goto
  <2>3. CASE Start
    <3>1. ~Seen' /\ result' = result
      BY <2>3 DEF Start, Goto
    <3> QED BY <1>4, <2>1, <3>1 DEF flags, threads
  <2>4. CASE BindFailsTest \/ BindUnsupported \/ CreateRecvFails \/ CreateNetworkFails
    <3>1. ~Seen' /\ ~Succeeded'
      BY <2>2, <2>4 DEF BindFailsTest, BindUnsupported, CreateRecvFails, CreateNetworkFails
    <3> QED BY <1>4, <2>1, <3>1 DEF flags, threads
  <2> QED BY <1>5, <2>3, <2>4
<1>6. CASE Bind
  <2>1. user.at = "binding" /\ user'.at \in {"binding", "creating"} /\ result' = "none"
    BY <1>3, <1>6 DEF Bind, At, Advance, Inv, UserInv
  <2>2. /\ network' = network
        /\ isNetworkUpdateThreadActive' => isNetworkUpdateThreadActive
    BY <1>6 DEF Bind, FlagsForThreads, threads
  <2> QED BY <1>1, <2>1, <2>2 DEF RunningInv
<1>7. CASE CreateRecvPollingThread
  <2>1. user.at = "creating" /\ user'.at \in {"creating", "awaiting receivers"}
    BY <1>3, <1>7 DEF CreateRecvPollingThread, At, Advance
  <2> QED BY <1>4, <1>7, <2>1 DEF CreateRecvPollingThread, flags
<1>8. CASE AwaitReceivers
  <2>1. /\ Cardinality(Polling) > 0 /\ UNCHANGED <<result, flags, threads>>
    BY <1>8 DEF AwaitReceivers, Inv, ReceiverInv
  <2>2. Polling # {}
    BY <2>1, FS_EmptySet
  <2>3. Polling' # {}
    BY <2>1, <2>2 DEF Polling, threads
  <2> QED BY <1>1, <2>1, <2>3 DEF RunningInv, threads, flags
<1>9. CASE CreateNetworkUpdateThread
  <2>1. /\ Seen /\ network' = "created" /\ UNCHANGED <<result, flags, receiver>>
        /\ result = "none"
    BY <1>9 DEF CreateNetworkUpdateThread, At, Inv, UserInv
  <2>2. user.at = "creating network" /\ network = "none" /\ ~isNetworkUpdateThreadActive
    BY <1>1, <1>9, <2>1 DEF CreateNetworkUpdateThread, At, Inv, CreatedInv
  <2> QED BY <1>1, <1>2, <2>1, <2>2 DEF RunningInv, flags
<1>10. CASE AwaitNetwork
  <2>1. /\ Seen /\ isNetworkUpdateThreadActive /\ user'.at = "out"
        /\ UNCHANGED <<flags, threads>>
    BY <1>10 DEF AwaitNetwork, At, Returns, Goto
  <2> QED BY <1>1, <1>2, <2>1 DEF RunningInv, flags, threads
<1>11. CASE StopRecvThread \/ StopNetworkUpdateThread
  <2>1. /\ endThreads' /\ network' = network
        /\ isNetworkUpdateThreadActive' => isNetworkUpdateThreadActive
    BY <1>11 DEF StopRecvThread, StopNetworkUpdateThread, threads
  <2> QED BY <1>1, <2>1 DEF RunningInv
<1>12. CASE Wake
  BY <1>4, <1>12 DEF Wake, threads, flags
<1>13. CASE WakeNext
  <2>1. user.at = "waking" /\ user'.at \in {"waking", "out"}
    BY <1>3, <1>13 DEF WakeNext, At, Advance
  <2> QED BY <1>4, <1>13, <2>1 DEF WakeNext, threads, flags
<1>14. CASE BeginNetwork \/ RunNetworkUpdateCycleOnce \/ WaitEvent
  BY <1>4, <1>14 DEF BeginNetwork, RunNetworkUpdateCycleOnce, WaitEvent, flags
<1>15. CASE EndNetwork
  <2>1. endThreads /\ endThreads' /\ ~isNetworkUpdateThreadActive'
    BY <1>15 DEF EndNetwork
  <2> QED BY <2>1 DEF RunningInv
<1>16. CASE \E s \in Socket : Receiver(s) \/ Arrive(s) \/ ReleasePort(s)
  <2>1. UNCHANGED <<user, result, endThreads, isNetworkUpdateThreadActive, network>>
    BY <1>16 DEF Receiver, BeginReceiver, RunRecvCycleOnce, RecvFrom, EndReceiver, Arrive,
         ReleasePort, threads, flags
  <2> QED BY <1>4, <2>1
<1>17. CASE UNCHANGED vars
  BY <1>4, <1>17 DEF vars, threads, flags
<1> QED
  BY <1>5, <1>6, <1>7, <1>8, <1>9, <1>10, <1>11, <1>12, <1>13, <1>14, <1>15, <1>16, <1>17
     DEF Next, InCall, Network

LEMMA StepInv == Inv /\ [Next]_vars => Inv'
  BY UserStep, ReceiverStep, CreatedStep, RunningStep DEF Inv

\* From START_SUCCEED to a Stop call the network thread and a receive thread are in
\* their loops (StartMeansRunning), however many sockets there are and however late
\* the threads come up.
THEOREM SuccessMeansRunning == Spec => []StartMeansRunning
<1>1. Inv => StartMeansRunning
  BY DEF Inv, RunningInv, StartMeansRunning, Polling
<1> QED
  BY <1>1, InitInv, StepInv, PTL DEF Spec

\* isRecvPollingThreadActive is the number of receive threads inside their loop, however
\* they start and end: what Start waits for and StopRecvThread resends on.
Counted == isRecvPollingThreadActive = Cardinality(Polling)

THEOREM CountIsExact == Spec => []Counted
<1>1. Inv => Counted
  BY DEF Inv, ReceiverInv, Counted
<1> QED
  BY <1>1, InitInv, StepInv, PTL DEF Spec
=============================================================================
