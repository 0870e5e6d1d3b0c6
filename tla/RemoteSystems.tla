---------------------------- MODULE RemoteSystems ----------------------------
(***************************************************************************)
(* The table of remote systems of a JackieApplication: remoteSystemList,   *)
(* the hash table remoteSystemLookup that finds a slot by address, and     *)
(* activeSystemList, with the handlers that fill and change them:          *)
(* ID_OPEN_CONNECTION_REQUEST_2 of a client, the slot a connecting peer    *)
(* takes in OnConnectionReply2, and the commands of the user thread.  All  *)
(* of them run on the network update thread, each as one step.             *)
(***************************************************************************)
EXTENDS Integers, Sequences, FiniteSets, SequencesExt

CONSTANTS Addresses, Guids,
          NullAddress, NullGuid,
          maxConnections,        \* slots of remoteSystemList
          Bucket,                \* ToHashCode modulo the table size
          Ip,                    \* an address without its port
          SecureIncoming,        \* secureIncomingConnectionEnabled
          BadChallenges,         \* whether clients send challenges that fail
          LimitFrequency,        \* limitConnFrequencyOfSameClient
          ConnectsOut,           \* whether this peer connects to others too
          Reroutes               \* addresses BCS_CHANGE_SYSTEM_ADDRESS may give

ASSUME SlotsAssumption == maxConnections \in Nat \ {0}
ASSUME NullAssumption == NullAddress \notin Addresses /\ NullGuid \notin Guids
ASSUME ReroutesAssumption == Reroutes \subseteq Addresses

Slots == 0 .. (maxConnections - 1)
Buckets == {Bucket[a] : a \in Addresses}

VARIABLES remoteSystemList,     \* the slots; of connectionTime, whether it is fresh:
                                \* less than 100 ms ago
          remoteSystemLookup,   \* the chain of slots of each bucket
          activeSystemList,     \* slots in the order they became active
          reply,                \* what the last REQUEST_2 was answered with
          admitted              \* clients sent REPLY_2 while a slot was free

vars == <<remoteSystemList, remoteSystemLookup, activeSystemList, reply, admitted>>
table == <<remoteSystemList, remoteSystemLookup, activeSystemList>>

Unused == [systemAddress |-> NullAddress, guid |-> NullGuid, isActive |-> FALSE,
           connectMode |-> "NO_ACTION", weInitiateConnection |-> FALSE, fresh |-> FALSE]
NoReply == [to |-> NullAddress, guid |-> NullGuid, ids |-> {}, hasty |-> FALSE]

Init == /\ remoteSystemList = [i \in Slots |-> Unused]
        /\ remoteSystemLookup = [b \in Buckets |-> << >>]
        /\ activeSystemList = << >>
        /\ reply = NoReply
        /\ admitted = {}

----------------------------------------------------------------------------
\* The hash table.  list and lookup are the two tables as an operation sees them.

\* Places of the chain of sa's bucket whose slot has the address sa.
Found(list, lookup, sa) ==
  {k \in DOMAIN lookup[Bucket[sa]] : list[lookup[Bucket[sa]][k]].systemAddress = sa}

First(places) == CHOOSE k \in places : \A j \in places : k <= j

\* GetRemoteSystemIndex
GetRemoteSystemIndex(list, lookup, sa) ==
  IF Found(list, lookup, sa) = {} THEN -1
  ELSE lookup[Bucket[sa]][First(Found(list, lookup, sa))]

\* DeRefRemoteSystem unlinks the slot; the slot keeps its address.
DeRefRemoteSystem(list, lookup, sa) ==
  IF Found(list, lookup, sa) = {} THEN lookup
  ELSE [lookup EXCEPT ![Bucket[sa]] = RemoveAt(@, First(Found(list, lookup, sa)))]

\* Mutants: the new link replaces the chain; the old address stays linked.
RefRemoteEndPointAlone(sa, i) ==
  LET old == remoteSystemList[i].systemAddress
      unlinked == IF /\ old # NullAddress
                     /\ GetRemoteSystemIndex(remoteSystemList, remoteSystemLookup, old) = i
                    THEN DeRefRemoteSystem(remoteSystemList, remoteSystemLookup, old)
                    ELSE remoteSystemLookup
  IN  [unlinked EXCEPT ![Bucket[sa]] = <<i>>]

RefRemoteEndPointKeepsOld(sa, i) ==
  [DeRefRemoteSystem(remoteSystemList, remoteSystemLookup, sa)
     EXCEPT ![Bucket[sa]] = Append(@, i)]

\* The lookup table RefRemoteEndPoint leaves: what the slot's old address and
\* the new address were linked to is unlinked, the slot is linked last.
RefRemoteEndPoint(sa, i) ==
  LET old == remoteSystemList[i].systemAddress
      unlinked == IF /\ old # NullAddress
                     /\ GetRemoteSystemIndex(remoteSystemList, remoteSystemLookup, old) = i
                    THEN DeRefRemoteSystem(remoteSystemList, remoteSystemLookup, old)
                    ELSE remoteSystemLookup
  IN  [DeRefRemoteSystem(remoteSystemList, unlinked, sa)
         EXCEPT ![Bucket[sa]] = Append(@, i)]

\* GetRemoteSystem(sa, true, true): the active slot the lookup table gives.
BySystemAddress(sa) ==
  {i \in Slots : /\ GetRemoteSystemIndex(remoteSystemList, remoteSystemLookup, sa) = i
                 /\ remoteSystemList[i].isActive}

\* GetRemoteSystem(guid, true): the first active slot with the guid.
ByGuid(guid) ==
  LET same == {i \in Slots : remoteSystemList[i].guid = guid /\ remoteSystemList[i].isActive}
  IN  {i \in same : \A j \in same : i <= j}

----------------------------------------------------------------------------
\* Mutant: isActive is not looked at.
FreeAny == Slots

Free == {i \in Slots : ~remoteSystemList[i].isActive}

\* Somebody of the same IP took a slot within the last 100 ms ...
ConnectedLately(from) ==
  \E i \in Slots : /\ remoteSystemList[i].isActive
                   /\ Ip[remoteSystemList[i].systemAddress] = Ip[from]
                   /\ remoteSystemList[i].fresh

\* ... which is looked at only if limitConnFrequencyOfSameClient says so.
Floods(from) == LimitFrequency /\ ConnectedLately(from)

\* Mutant: the address is stored where the guid belongs.
ActivateSwapped(i, from, guid, mode, weInitiate) ==
  /\ remoteSystemLookup' = RefRemoteEndPoint(from, i)
  /\ remoteSystemList' = [remoteSystemList EXCEPT ![i] =
       [systemAddress |-> from, guid |-> from, isActive |-> TRUE, connectMode |-> mode,
        weInitiateConnection |-> weInitiate, fresh |-> TRUE]]
  /\ activeSystemList' = Append(activeSystemList, i)

\* Add2RemoteSystemList on the first free slot i, with what the caller sets next.
Activate(i, from, guid, mode, weInitiate) ==
  /\ remoteSystemLookup' = RefRemoteEndPoint(from, i)
  /\ remoteSystemList' = [remoteSystemList EXCEPT ![i] =
       [systemAddress |-> from, guid |-> guid, isActive |-> TRUE, connectMode |-> mode,
        weInitiateConnection |-> weInitiate, fresh |-> TRUE]]
  /\ activeSystemList' = Append(activeSystemList, i)

Incoming == {i \in Slots : /\ i \in ToSet(activeSystemList)
                           /\ remoteSystemList[i].isActive
                           /\ remoteSystemList[i].connectMode = "CONNECTED"
                           /\ ~remoteSystemList[i].weInitiateConnection}

CanAcceptIncomingConnection == Cardinality(Incoming) < maxConnections

\* hasty: this is a new client of a machine that took a slot within 100 ms.
Answer(from, guid, ids) ==
  /\ reply' = [to |-> from, guid |-> guid, ids |-> ids,
               hasty |-> ConnectedLately(from) /\ BySystemAddress(from) \cup ByGuid(guid) = {}]
  /\ admitted' = admitted \cup {c \in {[from |-> from, guid |-> guid]} :
                                   "REPLY_2" \in ids /\ Free # {}}

NoAnswer == reply' = NoReply /\ UNCHANGED admitted

\* OnConnectionRequest2.  A wrong cookie and a client without security at a
\* server that wants it are ignored; the actions below are for the others.
IgnoreRequest2(from, guid) ==
  /\ SecureIncoming
  /\ Answer(from, guid, {})
  /\ UNCHANGED table

\* Mutant: only the address is compared.
AnswerAgainByAddress(from, guid) ==
  /\ \E i \in BySystemAddress(from) :
        remoteSystemList[i].connectMode = "UNVERIFIED_SENDER"
  /\ Answer(from, guid, {"REPLY_2"})
  /\ UNCHANGED table

\* Outcome 1: the same client again, e.g. because REPLY_2 was lost.
AnswerAgain(from, guid) ==
  /\ \E i \in BySystemAddress(from) \cap ByGuid(guid) :
        remoteSystemList[i].connectMode = "UNVERIFIED_SENDER"
  /\ Answer(from, guid, {"REPLY_2"})
  /\ UNCHANGED table

\* Outcomes 2, 3 and 4: the address or the guid belongs to an active slot.
AlreadyConnected(from, guid) ==
  /\ BySystemAddress(from) \cup ByGuid(guid) # {}
  /\ ~\E i \in BySystemAddress(from) \cap ByGuid(guid) :
         remoteSystemList[i].connectMode = "UNVERIFIED_SENDER"
  /\ Answer(from, guid, {"ALREADY_CONNECTED"})
  /\ UNCHANGED table

\* Mutant: the guid is not looked up.
NewClientByAddress(from, guid) == BySystemAddress(from) = {}

NewClient(from, guid) == BySystemAddress(from) \cup ByGuid(guid) = {}

CannotAccept(from, guid) ==
  /\ NewClient(from, guid)
  /\ ~CanAcceptIncomingConnection
  /\ Answer(from, guid, {"CANNOT_ACCEPT_INCOMING_CONNECTIONS"})
  /\ UNCHANGED table

TooOften(from) == IF Floods(from) THEN {"YOU_CONNECT_TOO_OFTEN"} ELSE {}

\* Add2RemoteSystemList looks for a slot whether or not the client floods.
Accept(from, guid) ==
  /\ NewClient(from, guid)
  /\ CanAcceptIncomingConnection
  /\ Free # {}
  /\ Activate(First(Free), from, guid, "UNVERIFIED_SENDER", FALSE)
  /\ Answer(from, guid, TooOften(from) \cup {"REPLY_2"})

\* "Challenge is BAD! Unassign this remote system": DeRefRemoteSystem, and return.
RejectChallenge(from, guid) ==
  /\ SecureIncoming /\ BadChallenges
  /\ NewClient(from, guid)
  /\ CanAcceptIncomingConnection
  /\ Free # {}
  /\ LET i == First(Free)
         list == [remoteSystemList EXCEPT ![i] =
                    [systemAddress |-> from, guid |-> guid, isActive |-> TRUE,
                     connectMode |-> "UNVERIFIED_SENDER", weInitiateConnection |-> FALSE,
                     fresh |-> TRUE]]
     IN  /\ remoteSystemList' = list
         /\ remoteSystemLookup' = DeRefRemoteSystem(list, RefRemoteEndPoint(from, i), from)
         /\ activeSystemList' = Append(activeSystemList, i)
  /\ Answer(from, guid, TooOften(from))

\* No slot is free, although CanAcceptIncomingConnection() says there is: it
\* counts CONNECTED systems only.  REPLY_2 goes out all the same.  A secure server
\* processes the challenge through free_rs, which nobody has set: it may come to
\* call it bad too.  What that writes over elsewhere is not followed.
NoFreeSlot(from, guid) ==
  /\ NewClient(from, guid)
  /\ CanAcceptIncomingConnection
  /\ Free = {}
  /\ \/ /\ Answer(from, guid, TooOften(from) \cup {"REPLY_2"})
        /\ UNCHANGED remoteSystemLookup
     \/ /\ SecureIncoming
        /\ Answer(from, guid, TooOften(from))
        /\ remoteSystemLookup' = DeRefRemoteSystem(remoteSystemList, remoteSystemLookup, from)
  /\ UNCHANGED <<remoteSystemList, activeSystemList>>

OnConnectionRequest2(from, guid) ==
  \/ IgnoreRequest2(from, guid) \/ AnswerAgain(from, guid) \/ AlreadyConnected(from, guid)
  \/ CannotAccept(from, guid) \/ Accept(from, guid) \/ RejectChallenge(from, guid)
  \/ NoFreeSlot(from, guid)

----------------------------------------------------------------------------
\* OnConnectionReply2 of a peer that connects out: a slot is taken for a server
\* that has none yet; the server's guid is not looked up.  After a connection of
\* the same IP, or with an answer that is not valid, the slot is taken and no
\* connection is requested.
ConnectOut(from, guid) ==
  /\ ConnectsOut
  /\ NoAnswer
  /\ \/ /\ BySystemAddress(from) = {} /\ Free # {}
        /\ \E valid \in BOOLEAN :
              LET requested == valid /\ ~Floods(from)
              IN  Activate(First(Free), from, guid,
                           IF requested THEN "REQUESTED_CONNECTION" ELSE "UNVERIFIED_SENDER",
                           requested)
     \/ \E i \in BySystemAddress(from) :
          /\ remoteSystemList' = [remoteSystemList EXCEPT
                                    ![i].connectMode = "REQUESTED_CONNECTION",
                                    ![i].weInitiateConnection = TRUE]
          /\ UNCHANGED <<remoteSystemLookup, activeSystemList>>

\* BCS_SEND with a repStatus sets the mode of the system it names.
SetConnectMode(guid, mode) ==
  /\ NoAnswer
  /\ \E i \in ByGuid(guid) :
        remoteSystemList' = [remoteSystemList EXCEPT ![i].connectMode = mode]
  /\ UNCHANGED <<remoteSystemLookup, activeSystemList>>

\* Mutant: the slot becomes active once more.
ChangeSystemAddressActivates(guid, sa) ==
  /\ NoAnswer
  /\ \E i \in ByGuid(guid) :
        LET at == GetRemoteSystemIndex(remoteSystemList, remoteSystemLookup,
                                       remoteSystemList[i].systemAddress)
        IN  /\ at \in Slots
            /\ remoteSystemLookup' = RefRemoteEndPoint(sa, at)
            /\ remoteSystemList' = [remoteSystemList EXCEPT ![at].systemAddress = sa]
            /\ activeSystemList' = Append(activeSystemList, at)

\* BCS_CHANGE_SYSTEM_ADDRESS: the system named by the guid moves to a new address.
\* A system the lookup table does not find has index -1; that the code goes on
\* with it, outside the list, is undefined and not followed here.
ChangeSystemAddress(guid, sa) ==
  /\ NoAnswer
  /\ \E i \in ByGuid(guid) :
        LET at == GetRemoteSystemIndex(remoteSystemList, remoteSystemLookup,
                                       remoteSystemList[i].systemAddress)
        IN  /\ at \in Slots
            /\ remoteSystemLookup' = RefRemoteEndPoint(sa, at)
            /\ remoteSystemList' = [remoteSystemList EXCEPT ![at].systemAddress = sa]
  /\ UNCHANGED activeSystemList

\* More than 100 ms pass after a slot was taken.
Age(i) == /\ remoteSystemList[i].fresh
          /\ remoteSystemList' = [remoteSystemList EXCEPT ![i].fresh = FALSE]
          /\ NoAnswer
          /\ UNCHANGED <<remoteSystemLookup, activeSystemList>>

Next == \/ \E from \in Addresses, guid \in Guids : OnConnectionRequest2(from, guid)
        \/ \E from \in Addresses, guid \in Guids : ConnectOut(from, guid)
        \/ \E guid \in Guids : SetConnectMode(guid, "CONNECTED")
        \/ \E guid \in Guids, sa \in Reroutes : ChangeSystemAddress(guid, sa)
        \/ \E i \in Slots : Age(i)

Spec == Init /\ [][Next]_vars

----------------------------------------------------------------------------
Systems == [systemAddress : Addresses \cup {NullAddress}, guid : Guids \cup {NullGuid},
            isActive : BOOLEAN, weInitiateConnection : BOOLEAN, fresh : BOOLEAN,
            connectMode : {"NO_ACTION", "UNVERIFIED_SENDER", "REQUESTED_CONNECTION",
                           "CONNECTED"}]

TypeOK == /\ remoteSystemList \in [Slots -> Systems]
          /\ remoteSystemLookup \in [Buckets -> Seq(Slots)]
          /\ activeSystemList \in Seq(Slots)
          /\ reply.to \in Addresses \cup {NullAddress}
          /\ admitted \subseteq [from : Addresses, guid : Guids]

Active(i) == remoteSystemList[i].isActive

\* The lookup table finds every active system by its address: the loop of
\* assertions RefRemoteEndPoint begins with in debug builds.
ActiveIsFound ==
  \A i \in Slots : Active(i) =>
     GetRemoteSystemIndex(remoteSystemList, remoteSystemLookup,
                          remoteSystemList[i].systemAddress) = i

\* Every link of every chain leads to an active system with an address of that
\* bucket, and no system is linked twice: unlinking never leaves a stale link.
ChainsExact ==
  /\ \A b \in Buckets : \A k \in DOMAIN remoteSystemLookup[b] :
        LET i == remoteSystemLookup[b][k]
        IN  Active(i) /\ Bucket[remoteSystemList[i].systemAddress] = b
  /\ \A b \in Buckets : IsInjective(remoteSystemLookup[b])

\* activeSystemList has each active slot once, and never more than its length
\* of maxConnections, which AddToActiveSystemList does not check.
ActiveListExact == /\ IsInjective(activeSystemList)
                   /\ ToSet(activeSystemList) = {i \in Slots : Active(i)}

\* No two systems that connected to us share a guid: a client that comes back
\* from another address or restarts does not take a second slot.
GuidsDistinct ==
  \A i, j \in Slots : Active(i) /\ Active(j) /\ i # j =>
     remoteSystemList[i].guid # remoteSystemList[j].guid

\* A slot in use is not given to another client or address; only a reroute moves it.
NoSlotTakenOver ==
  [][\A i \in Slots : Active(i) =>
        /\ remoteSystemList'[i].isActive /\ remoteSystemList'[i].guid = remoteSystemList[i].guid
        /\ remoteSystemList'[i].systemAddress \in {remoteSystemList[i].systemAddress} \cup Reroutes]_vars

SlotOf(from, guid) == BySystemAddress(from) \cap ByGuid(guid)

\* A client sent REPLY_2 has a slot, found by its address and by its guid, and keeps it
\* whatever others ask for later.  Only when every slot is in use and one of them not
\* CONNECTED yet is a client told to go on that has none.
AnsweredHasSlot ==
  /\ \A c \in admitted : SlotOf(c.from, c.guid) # {}
  /\ "REPLY_2" \in reply.ids /\ SlotOf(reply.to, reply.guid) = {} => Free = {} /\ Incoming # Slots

\* What the code does not keep, see the README: nobody is told to go on who has no slot.
NobodyIsSentAway == "REPLY_2" \in reply.ids => SlotOf(reply.to, reply.guid) # {}

\* A new client is let in without a warning only if nobody of its machine took a
\* slot within the last 100 ms ("if this client connects within 100ms since last
\* connect, we regard it as connecion flooding and send msg to notify client").
HastyIsWarned == "REPLY_2" \in reply.ids /\ reply.hasty =>
                    "YOU_CONNECT_TOO_OFTEN" \in reply.ids
=============================================================================
