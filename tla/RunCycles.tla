----------------------------- MODULE RunCycles ------------------------------
(***************************************************************************)
(* The three cycles of a JackieApplication and the elements that go round  *)
(* between them.  A receiving cycle hands every datagram to the network    *)
(* cycle in a JISRecvParams; the network cycle hands packets to the user;  *)
(* the user hands commands to the network cycle.  Each kind of element has *)
(* a circuit of its own: its owner takes it from the pool and pushes it to *)
(* the alloc queue, the other side pops it and pushes it to the deAlloc    *)
(* queue, from where the owner puts it back into the pool.                 *)
(*                                                                         *)
(* In the single-threaded build GetPacketOnce runs a receiving cycle, for  *)
(* socket 0, then a network cycle, then the user's.  Otherwise every cycle *)
(* has a thread and the queues are JackieSPSCQueues, whose PushTail waits. *)
(* What a queue and a pool do inside is modelled in JackieSPSCQueue and    *)
(* JackieArraryQueue; here an operation is one step.                       *)
(***************************************************************************)
EXTENDS Integers, Sequences, FiniteSets, SequencesExt

CONSTANTS SocketCount,    \* bindedSockets.Size()
          SingleThread,   \* USE_SINGLE_THREAD
          DebugLog,       \* ELPP_DEBUG_LOG: DCHECK_EQ evaluates its arguments
          PluginsTS, PluginsNTS,   \* sizes of pluginListTS and pluginListNTS
          UserCalls,      \* API functions this program calls
          QueueSize,      \* elements at which PushTail of a JackieSPSCQueue waits
          PoolSizes       \* bound: datagram buffers, packets and commands

ASSUME SocketsAssumption == SocketCount \in Nat \ {0}
ASSUME UserCallsAssumption == UserCalls \subseteq {"PostComand", "Connect_"}
ASSUME BoundsAssumption ==
          /\ QueueSize \in Nat \ {0}
          /\ DOMAIN PoolSizes = {"recvParams", "packet", "command"}
          /\ \A kind \in DOMAIN PoolSizes : PoolSizes[kind] \in Nat

Sockets == 0 .. (SocketCount - 1)
Recv(s) == <<"recvParams", s>>
Packet == <<"packet", 0>>
Command == <<"command", 0>>
Circuits == {Recv(s) : s \in Sockets} \cup {Packet, Command}

Net == <<"net", 0>>
User == <<"user", 0>>
RecvThread(s) == <<"recv", s>>
Threads == {RecvThread(s) : s \in Sockets} \cup {Net, User}

None == [home |-> <<"null", 0>>, number |-> 0]
Elements(c) == {[home |-> c, number |-> k] : k \in 1 .. PoolSizes[c[1]]}
AllElements == UNION {Elements(c) : c \in Circuits}

VARIABLES pool,          \* free elements of each circuit
          alloc,         \* allocRecvParamQ[s], allocPacketQ, allocCommandQ
          deAlloc,       \* deAllocRecvParamQ[s], deAllocPacketQ, deAllocCommandQ
          at,            \* where each thread is
          has,           \* the elements it holds
          index,         \* its loop index
          push,          \* the PushTail it is in
          outter,        \* socket index of ProcessAllocJISRecvParamsQ
          incomePacket,  \* what PacketGoThroughPlugins works on
          connects,      \* commands that are BCS_CONEECT
          turn           \* single-threaded: whose cycle it is

queues == <<pool, alloc, deAlloc>>
locals == <<at, has, index, push, outter, incomePacket>>
vars == <<queues, locals, connects, turn>>

NoPush == [queue |-> "none", circuit |-> Packet, item |-> None,
           checked |-> FALSE, then |-> "idle"]

Init == /\ pool = [c \in Circuits |-> Elements(c)]
        /\ alloc = [c \in Circuits |-> << >>]
        /\ deAlloc = [c \in Circuits |-> << >>]
        /\ at = [t \in Threads |-> "idle"]
        /\ has = [t \in Threads |-> {}]
        /\ index = [t \in Threads |-> 0]
        /\ push = [t \in Threads |-> NoPush]
        /\ outter = 0
        /\ incomePacket = None
        /\ connects = {}
        /\ turn = User

----------------------------------------------------------------------------
Goto(t, point) == at' = [at EXCEPT ![t] = point]
StartLoop(t, point) == Goto(t, point) /\ index' = [index EXCEPT ![t] = 0]
Held(t, c) == has[t] \cap Elements(c)

\* Single-threaded the cycles take turns, otherwise each runs when it can.
MayRun(t) == SingleThread => turn = t
HandOver(t) == turn' = IF SingleThread THEN t ELSE turn

\* JackieMemoryPool::Allocate: which free cell it is does not matter here.
FirstFree(c) == CHOOSE e \in pool[c] : TRUE

\* queue.PushTail(item) is called here and done in PushTail below; checked says
\* that the call is an argument of a DCHECK.
CallPushTail(t, queue, circuit, item, checked, then) ==
  /\ push' = [push EXCEPT ![t] = [queue |-> queue, circuit |-> circuit, item |-> item,
                                  checked |-> checked, then |-> then]]
  /\ Goto(t, "push")

HasRoom(queue) == SingleThread \/ Len(queue) < QueueSize

\* A deAlloc queue beyond the last socket's is outside the array: the program is
\* taken to end there.  A DCHECK that is compiled out pushes nothing.
PushTail(t) ==
  /\ at[t] = "push"
  /\ LET call == push[t]
         Done(queue) == [queue EXCEPT ![call.circuit] = Append(@, call.item)]
     IN IF call.checked /\ ~DebugLog
          THEN /\ Goto(t, call.then)
               /\ push' = [push EXCEPT ![t] = NoPush]
               /\ has' = [has EXCEPT ![t] = @ \ {call.item}]
               /\ UNCHANGED <<alloc, deAlloc>>
        ELSE IF call.circuit \notin Circuits
          THEN Goto(t, "crashed") /\ UNCHANGED <<alloc, deAlloc, push, has>>
        ELSE /\ HasRoom((IF call.queue = "alloc" THEN alloc ELSE deAlloc)[call.circuit])
             /\ IF call.queue = "alloc" THEN alloc' = Done(alloc) /\ UNCHANGED deAlloc
                                        ELSE deAlloc' = Done(deAlloc) /\ UNCHANGED alloc
             /\ Goto(t, call.then)
             /\ push' = [push EXCEPT ![t] = NoPush]
             /\ has' = [has EXCEPT ![t] = @ \ {call.item}]
  /\ UNCHANGED <<pool, index, outter, incomePacket, connects, turn>>

\* ReclaimAllJISRecvParams, ReclaimAllPackets and ReclaimAllCommands: one element
\* is popped and put back, and the index rises while the queue gets shorter.
\* Without a pop the pool is given whatever the pointer held, and so it is when
\* the element popped is null.
ReclaimOne(t, c) ==
  /\ at[t] = "reclaim"
  /\ index[t] < Len(deAlloc[c])
  /\ LET e == Head(deAlloc[c]) IN
     IF ~DebugLog \/ e = None
       THEN Goto(t, "crashed") /\ UNCHANGED <<pool, deAlloc, index, connects>>
       ELSE /\ pool' = [pool EXCEPT ![c] = @ \cup {e}]
            /\ deAlloc' = [deAlloc EXCEPT ![c] = Tail(@)]
            /\ index' = [index EXCEPT ![t] = @ + 1]
            /\ connects' = connects \ {e}
            /\ UNCHANGED at
  /\ UNCHANGED <<alloc, has, push, outter, incomePacket, turn>>

ReclaimAllEnds(t, c, then) ==
  /\ at[t] = "reclaim"
  /\ index[t] >= Len(deAlloc[c])
  /\ StartLoop(t, then)
  /\ UNCHANGED <<queues, has, push, outter, incomePacket, connects, turn>>

\* do { ptr = Allocate(); } while (ptr == 0)
Allocate(t, c) ==
  /\ pool[c] # {}
  /\ pool' = [pool EXCEPT ![c] = @ \ {FirstFree(c)}]
  /\ has' = [has EXCEPT ![t] = @ \cup {FirstFree(c)}]

----------------------------------------------------------------------------
\* RunRecvCycleOnce

BeginRecv(s) == /\ at[RecvThread(s)] = "idle"
                /\ MayRun(RecvThread(s))
                /\ StartLoop(RecvThread(s), "reclaim")
                /\ UNCHANGED <<queues, has, push, outter, incomePacket, connects, turn>>

AllocJISRecvParams(s) ==
  /\ at[RecvThread(s)] = "alloc"
  /\ Allocate(RecvThread(s), Recv(s))
  /\ Goto(RecvThread(s), "receive")
  /\ UNCHANGED <<alloc, deAlloc, index, push, outter, incomePacket, connects, turn>>

\* RecvFrom: a datagram came.
Receive(s) ==
  /\ at[RecvThread(s)] = "receive"
  /\ \E e \in has[RecvThread(s)] :
        CallPushTail(RecvThread(s), "alloc", Recv(s), e, TRUE, "end")
  /\ UNCHANGED <<queues, has, index, outter, incomePacket, connects, turn>>

\* Mutant of ReceiveNothing: the buffer is not put back into the pool.
ReceiveNothingLeaks(s) ==
  /\ at[RecvThread(s)] = "receive"
  /\ has' = [has EXCEPT ![RecvThread(s)] = {}]
  /\ Goto(RecvThread(s), "end")
  /\ UNCHANGED <<queues, index, push, outter, incomePacket, connects, turn>>

\* RecvFrom: nothing there, or an error.
ReceiveNothing(s) ==
  /\ at[RecvThread(s)] = "receive"
  /\ pool' = [pool EXCEPT ![Recv(s)] = @ \cup has[RecvThread(s)]]
  /\ has' = [has EXCEPT ![RecvThread(s)] = {}]
  /\ Goto(RecvThread(s), "end")
  /\ UNCHANGED <<alloc, deAlloc, index, push, outter, incomePacket, connects, turn>>

\* Mutant of EndRecv: the user's cycle follows the receiving cycle.
EndRecvToUser(s) == /\ at[RecvThread(s)] = "end"
                    /\ Goto(RecvThread(s), "idle")
                    /\ HandOver(User)
                    /\ UNCHANGED <<queues, has, index, push, outter, incomePacket, connects>>

EndRecv(s) == /\ at[RecvThread(s)] = "end"
              /\ Goto(RecvThread(s), "idle")
              /\ HandOver(Net)
              /\ UNCHANGED <<queues, has, index, push, outter, incomePacket, connects>>

\* What a receiving thread does without waiting for a datagram.
RecvSteps(s) ==
  \/ BeginRecv(s)
  \/ ReclaimOne(RecvThread(s), Recv(s)) \/ ReclaimAllEnds(RecvThread(s), Recv(s), "alloc")
  \/ AllocJISRecvParams(s) \/ PushTail(RecvThread(s)) \/ EndRecv(s)

RecvCycle(s) == RecvSteps(s) \/ Receive(s) \/ ReceiveNothing(s)

----------------------------------------------------------------------------
\* RunNetworkUpdateCycleOnce

BeginNet == /\ at[Net] = "idle"
            /\ MayRun(Net)
            /\ StartLoop(Net, "reclaim")
            /\ UNCHANGED <<queues, has, push, outter, incomePacket, connects, turn>>

\* ProcessAllocCommandQ.  A pop that is compiled out leaves cmd null.
PopCommand ==
  /\ at[Net] = "commands"
  /\ index[Net] < Len(alloc[Command])
  /\ LET cmd == Head(alloc[Command]) IN
     IF ~DebugLog
       THEN Goto(Net, "crashed") /\ UNCHANGED <<alloc, has>>
       ELSE /\ alloc' = [alloc EXCEPT ![Command] = Tail(@)]
            /\ has' = [has EXCEPT ![Net] = @ \cup {cmd}]
            /\ Goto(Net, IF cmd \in connects THEN "connect" ELSE "commandDone")
  /\ UNCHANGED <<pool, deAlloc, index, push, outter, incomePacket, connects, turn>>

\* BCS_CONEECT: the network thread calls Connect_ itself.
ProcessConnectCommand ==
  /\ at[Net] = "connect"
  /\ Allocate(Net, Command)
  /\ connects' = connects \cup {FirstFree(Command)}
  /\ CallPushTail(Net, "alloc", Command, FirstFree(Command), FALSE, "commandDone")
  /\ UNCHANGED <<alloc, deAlloc, index, outter, incomePacket, turn>>

ReclaimCommand ==
  /\ at[Net] = "commandDone"
  /\ \E cmd \in Held(Net, Command) :
        CallPushTail(Net, "deAlloc", Command, cmd, TRUE, "commands")
  /\ index' = [index EXCEPT ![Net] = @ + 1]
  /\ UNCHANGED <<queues, has, outter, incomePacket, connects, turn>>

CommandsEnd ==
  /\ at[Net] = "commands"
  /\ index[Net] >= Len(alloc[Command])
  /\ StartLoop(Net, "recvParams")
  /\ outter' = 0
  /\ UNCHANGED <<queues, has, push, incomePacket, connects, turn>>

\* ProcessAllocJISRecvParamsQ; index[Net] is inner.
PopRecvParams ==
  /\ at[Net] = "recvParams"
  /\ index[Net] < Len(alloc[Recv(outter)])
  /\ alloc' = [alloc EXCEPT ![Recv(outter)] = Tail(@)]
  /\ has' = [has EXCEPT ![Net] = @ \cup {Head(alloc[Recv(outter)])}]
  /\ Goto(Net, "process")
  /\ UNCHANGED <<pool, deAlloc, index, push, outter, incomePacket, connects, turn>>

\* AllocPacket and allocPacketQ.PushTail, from a handler that then goes to next.
\* Bound: no packet is made once PoolSizes.packet of them are in use.
SendPacketToUser(next) ==
  /\ Allocate(Net, Packet)
  /\ CallPushTail(Net, "alloc", Packet, FirstFree(Packet), TRUE, next)
  /\ UNCHANGED <<alloc, deAlloc, index, outter, incomePacket, connects, turn>>

\* ProcessOneRecvParam: the user is told something, or is not.
ProcessOneRecvParam ==
  /\ at[Net] = "process"
  /\ \/ SendPacketToUser("recvDone")
     \/ /\ Goto(Net, "recvDone")
        /\ UNCHANGED <<queues, has, index, push, outter, incomePacket, connects, turn>>

\* ReclaimOneJISRecvParams(recvParams, inner): the inner index chooses the queue.
ReclaimOneJISRecvParams ==
  /\ at[Net] = "recvDone"
  /\ \E e \in has[Net] : CallPushTail(Net, "deAlloc", Recv(index[Net]), e, TRUE, "recvParams")
  /\ index' = [index EXCEPT ![Net] = @ + 1]
  /\ UNCHANGED <<queues, has, outter, incomePacket, connects, turn>>

NextSocket ==
  /\ at[Net] = "recvParams"
  /\ index[Net] >= Len(alloc[Recv(outter)])
  /\ LET more == outter + 1 < SocketCount IN
       /\ outter' = IF more THEN outter + 1 ELSE 0
       /\ StartLoop(Net, IF more THEN "recvParams" ELSE "requests")
  /\ UNCHANGED <<queues, has, push, incomePacket, connects, turn>>

\* ProcessConnectionRequestQ: the user is told of every attempt that is over.
GiveUp == at[Net] = "requests" /\ SendPacketToUser("requests")

EndNet == /\ at[Net] = "requests"
          /\ Goto(Net, "idle")
          /\ HandOver(User)
          /\ UNCHANGED <<queues, has, index, push, outter, incomePacket, connects>>

NetCycle ==
  \/ BeginNet \/ ReclaimOne(Net, Packet) \/ ReclaimAllEnds(Net, Packet, "commands")
  \/ PopCommand \/ ProcessConnectCommand \/ ReclaimCommand \/ CommandsEnd
  \/ PopRecvParams \/ ProcessOneRecvParam \/ ReclaimOneJISRecvParams \/ NextSocket
  \/ GiveUp \/ EndNet \/ PushTail(Net)

----------------------------------------------------------------------------
\* The user's thread

UserIsFree == at[User] = "idle" /\ MayRun(User)

\* cmd = AllocCommand(); ...; PostComand(cmd), by the user or by Connect_.
\* Bounds: the user calls Connect_ when no command of Connect_ is under way, and
\* leaves one free command to the Connect_ of the network cycle.
PostCommand(by) ==
  /\ UserIsFree
  /\ by \in UserCalls
  /\ by = "Connect_" => connects = {}
  /\ "Connect_" \in UserCalls => Cardinality(pool[Command]) > 1
  /\ Allocate(User, Command)
  /\ connects' = IF by = "Connect_" THEN connects \cup {FirstFree(Command)} ELSE connects
  /\ CallPushTail(User, "alloc", Command, FirstFree(Command), FALSE, "idle")
  /\ UNCHANGED <<alloc, deAlloc, index, outter, incomePacket, turn>>

ReclaimPacket(packet) ==
  /\ UserIsFree
  /\ packet \in has[User]
  /\ CallPushTail(User, "deAlloc", Packet, packet, TRUE, "idle")
  /\ UNCHANGED <<queues, has, index, outter, incomePacket, connects, turn>>

GetPacketOnce == /\ UserIsFree
                 /\ Goto(User, "called")
                 /\ HandOver(RecvThread(0))
                 /\ UNCHANGED <<queues, has, index, push, outter, incomePacket, connects>>

RunGetPacketCycleOnce ==
  /\ at[User] = "called"
  /\ MayRun(User)
  /\ StartLoop(User, "reclaim")
  /\ UNCHANGED <<queues, has, push, outter, incomePacket, connects, turn>>

\* Mutant of PopPacket: Size() > 1 instead of Size() > 0.
PopPacketKeepsOne ==
  /\ at[User] = "pop"
  /\ IF Len(alloc[Packet]) <= 1
       THEN /\ Goto(User, "idle")
            /\ UNCHANGED <<alloc, has, index, incomePacket>>
       ELSE /\ incomePacket' = Head(alloc[Packet])
            /\ alloc' = [alloc EXCEPT ![Packet] = Tail(@)]
            /\ has' = [has EXCEPT ![User] = @ \cup {incomePacket'}]
            /\ StartLoop(User, "pluginsTS")
  /\ UNCHANGED <<pool, deAlloc, push, outter, connects, turn>>

PopPacket ==
  /\ at[User] = "pop"
  /\ IF alloc[Packet] = << >>
       THEN /\ Goto(User, "idle")
            /\ UNCHANGED <<alloc, has, index, incomePacket>>
       ELSE /\ incomePacket' = Head(alloc[Packet])
            /\ alloc' = [alloc EXCEPT ![Packet] = Tail(@)]
            /\ has' = [has EXCEPT ![User] = @ \cup {incomePacket'}]
            /\ StartLoop(User, "pluginsTS")
  /\ UNCHANGED <<pool, deAlloc, push, outter, connects, turn>>

\* PacketGoThroughPlugins: one list after the other; a plugin that takes the
\* packet ends its list and leaves a null packet to what follows.
PluginLists == {[name |-> "pluginsTS", size |-> PluginsTS, next |-> "pluginsNTS"],
                [name |-> "pluginsNTS", size |-> PluginsNTS, next |-> "return"]}

PluginLetsPass(list) ==
  /\ at[User] = list.name
  /\ index[User] < list.size
  /\ index' = [index EXCEPT ![User] = @ + 1]
  /\ UNCHANGED <<queues, at, has, push, outter, incomePacket, connects, turn>>

\* PROCESSED_BY_ME_THEN_DEALLOC
PluginDeallocs(list) ==
  /\ at[User] = list.name
  /\ index[User] < list.size
  /\ CallPushTail(User, "deAlloc", Packet, incomePacket, TRUE, list.next)
  /\ index' = [index EXCEPT ![User] = 0]
  /\ incomePacket' = None
  /\ UNCHANGED <<queues, has, outter, connects, turn>>

\* HOLD_ON_BY_ME_NOT_DEALLOC: the plugin gives the packet back later.
PluginHolds(list) ==
  /\ at[User] = list.name
  /\ index[User] < list.size
  /\ StartLoop(User, list.next)
  /\ incomePacket' = None
  /\ UNCHANGED <<queues, has, push, outter, connects, turn>>

PluginsEnd(list) ==
  /\ at[User] = list.name
  /\ index[User] >= list.size
  /\ StartLoop(User, list.next)
  /\ UNCHANGED <<queues, has, push, outter, incomePacket, connects, turn>>

ReturnPacket == /\ at[User] = "return"
                /\ Goto(User, "idle")
                /\ incomePacket' = None
                /\ UNCHANGED <<queues, has, index, push, outter, connects, turn>>

GiveBackPacket == \E packet \in Held(User, Packet) : ReclaimPacket(packet)

UserCycle ==
  \/ GetPacketOnce \/ RunGetPacketCycleOnce
  \/ ReclaimOne(User, Command) \/ ReclaimAllEnds(User, Command, "pop")
  \/ PopPacket \/ ReturnPacket \/ PushTail(User)
  \/ \E list \in PluginLists : \/ PluginLetsPass(list) \/ PluginDeallocs(list)
                               \/ PluginHolds(list) \/ PluginsEnd(list)

----------------------------------------------------------------------------
Running == \A t \in Threads : at[t] # "crashed"

Next == /\ Running
        /\ \/ NetCycle
           \/ UserCycle
           \/ GiveBackPacket
           \/ \E by \in UserCalls : PostCommand(by)
           \/ \E s \in Sockets : RecvCycle(s)

Spec == Init /\ [][Next]_vars

\* Every thread is scheduled, and the user calls GetPacketOnce in a loop and
\* gives every packet back (the loop of test_ServerApplication_funcs).  A
\* datagram need not come: a blocking socket leaves its thread in RecvFrom, the
\* non-blocking one of the single-threaded build never does.
FairSpec == /\ Spec
            /\ WF_vars(Running /\ NetCycle)
            /\ WF_vars(Running /\ UserCycle)
            /\ \A packet \in Elements(Packet) : SF_vars(Running /\ ReclaimPacket(packet))
            /\ \A s \in Sockets : WF_vars(Running /\ RecvSteps(s))
            /\ SingleThread => WF_vars(Running /\ RecvCycle(0))

----------------------------------------------------------------------------
TypeOK == /\ pool \in [Circuits -> SUBSET AllElements]
          /\ alloc \in [Circuits -> Seq(AllElements)]
          /\ deAlloc \in [Circuits -> Seq(AllElements \cup {None})]
          /\ has \in [Threads -> SUBSET AllElements]
          /\ index \in [Threads -> Nat]
          /\ outter \in Sockets
          /\ connects \subseteq Elements(Command)
          /\ incomePacket \in Elements(Packet) \cup {None}
          /\ turn \in Threads

Boxes == ({"pool", "alloc", "deAlloc"} \X Circuits) \cup ({"thread"} \X Threads)

Inside == [b \in Boxes |-> CASE b[1] = "pool"    -> pool[b[2]]
                             [] b[1] = "alloc"   -> ToSet(alloc[b[2]])
                             [] b[1] = "deAlloc" -> ToSet(deAlloc[b[2]])
                             [] b[1] = "thread"  -> has[b[2]]]

OncePerQueue(queue) ==
  \A c \in Circuits : \A i, k \in DOMAIN queue[c] :
     queue[c][i] = queue[c][k] /\ queue[c][i] # None => i = k

\* Every element is in exactly one place: no two sides ever write to one buffer,
\* packet or command, and none is forgotten, although pools and queues are shared
\* without a lock.
OwnedOnce ==
  /\ \A e \in AllElements : \E b \in Boxes : \A other \in Boxes : e \in Inside[other] <=> other = b
  /\ OncePerQueue(alloc)
  /\ OncePerQueue(deAlloc)

\* Every element comes back to its pool again and again, although each of the loops that empty a
\* queue goes only half-way.
AllComeHome == \A e \in AllElements : []<>(e \in pool[e.home])

\* The network cycle comes to the connection requests again and again, whatever
\* the user posts and whether or not datagrams come.
NetworkKeepsCycling == []<>(at[Net] = "requests")

\* What comments and names of the code say and the code does not keep: see the README.
\* "who allocates, deallocates": an element goes back to the pool it came from.
WhoAllocsDeallocs ==
  \A c \in Circuits : /\ pool[c] \subseteq Elements(c)
                      /\ ToSet(deAlloc[c]) \subseteq Elements(c) \cup {None}

\* No null pointer is pushed to a queue, on which every pop relies.
NeverPushNull == \A c \in Circuits : None \notin ToSet(alloc[c]) \cup ToSet(deAlloc[c])

\* The pool of the commands belongs to the user's thread: the network thread is
\* not about to allocate from it while the user's thread puts a command back.
PoolHasOneThread ==
  ~ /\ at[Net] = "connect"
    /\ at[User] = "reclaim" /\ index[User] < Len(deAlloc[Command])

\* A connection asked for with Connect_ does not stay a command for ever.
ConnectCommandsEnd == []<>(connects = {})
=============================================================================
