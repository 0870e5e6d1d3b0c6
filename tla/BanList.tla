------------------------------ MODULE BanList ------------------------------
(***************************************************************************)
(* How JackieApplication's network thread sorts a datagram: ProcessOneRecv-*)
(* Param walks the ban list (IsBanned), refuses what comes from a banned   *)
(* address, and lets IsOfflineRecvParams decide whether the rest belongs   *)
(* to a connected system.  The user's bans arrive as commands.             *)
(***************************************************************************)
EXTENDS Naturals, Sequences, SequencesExt

CONSTANTS Pattern,           \* addresses to ban, a '*' in them or not
          Sender,            \* addresses that datagrams come from
          Covers(_, _),      \* the character loop: a pattern matches a sender
          Terms,             \* milliseconds a ban is posted with, 0 for ever
          MaxTime, MaxBans   \* bounds: of the clock, of the bans posted

\* Datagrams by what IsOfflineRecvParams can tell: at most two bytes; an
\* offline message; one that only begins like it, but is long enough to be compared;
\* one too short for that; anything else.
Datagram == {"tiny", "offline", "lookalike", "short", "other"}

NoScan == [sender |-> CHOOSE s \in Sender : TRUE, datagram |-> "tiny", state |-> "none"]

VARIABLES banList, posted, time,
          index,                      \* the member, counted from 1
          scan,                       \* the datagram in hand
          isUnconnectedRecvPrrams

vars == <<banList, posted, time, index, scan, isUnconnectedRecvPrrams>>

Init == /\ banList = << >> /\ posted = << >> /\ time = 1
        /\ index = 1 /\ scan = NoScan
        /\ isUnconnectedRecvPrrams = FALSE

Scanning == scan.state = "scanning"

\* SetBannedRemoteSystem, on the user's thread.
SetBannedRemoteSystem(ip, milliseconds) ==
  /\ Len(banList) + Len(posted) < MaxBans
  /\ posted' = Append(posted, [IP |-> ip, milliseconds |-> milliseconds])
  /\ UNCHANGED <<banList, time, index, scan, isUnconnectedRecvPrrams>>

Tick == /\ time < MaxTime
        /\ time' = time + 1
        /\ UNCHANGED <<banList, posted, index, scan, isUnconnectedRecvPrrams>>

----------------------------------------------------------------------------
TimeoutOf(milliseconds) == IF milliseconds = 0 THEN 0 ELSE time + milliseconds

Banned(ip) == {i \in DOMAIN banList : banList[i].IP = ip}

\* Between two datagrams: a new entry, or a new term for the one there is.
AddToBanList ==
  /\ ~Scanning /\ posted # << >>
  /\ posted' = Tail(posted)
  /\ LET ban == [IP |-> Head(posted).IP,
                 timeout |-> TimeoutOf(Head(posted).milliseconds)]
     IN  banList' = IF Banned(ban.IP) = {} THEN Append(banList, ban)
                    ELSE [i \in DOMAIN banList |->
                            IF i \in Banned(ban.IP) THEN ban ELSE banList[i]]
  /\ UNCHANGED <<time, index, scan, isUnconnectedRecvPrrams>>

Receive(sender, datagram) ==
  /\ ~Scanning
  /\ scan' = [sender |-> sender, datagram |-> datagram, state |-> "scanning"]
  /\ index' = IF banList = << >> THEN index ELSE 1
  /\ UNCHANGED <<banList, posted, time, isUnconnectedRecvPrrams>>

More == /\ Scanning /\ index <= Len(banList)

Expired(ban) == ban.timeout > 0 /\ ban.timeout <= time

\* RemoveAtIndexFast: the last entry takes the place of the one removed.
RemovedFast(s, i) == Front([s EXCEPT ![i] = Last(s)])

\* The entry that takes the place is not looked at, as the loop counts on.
RemoveExpired ==
  /\ More /\ Expired(banList[index])
  /\ banList' = RemovedFast(banList, index)
  /\ index' = index + 1
  /\ UNCHANGED <<posted, time, scan, isUnconnectedRecvPrrams>>

\* No match: the body counts, and so does the loop.
PassEntry ==
  /\ More /\ ~Expired(banList[index])
  /\ ~Covers(banList[index].IP, scan.sender)
  /\ index' = index + 2
  /\ UNCHANGED <<banList, posted, time, scan, isUnconnectedRecvPrrams>>

\* ID_CONNECTION_BANNED goes out; index is left where a plugin loop ends.
Refuse ==
  /\ More /\ ~Expired(banList[index])
  /\ Covers(banList[index].IP, scan.sender)
  /\ scan' = [scan EXCEPT !.state = "refused"]
  /\ index' = 1
  /\ UNCHANGED <<banList, posted, time, isUnconnectedRecvPrrams>>

\* What IsOfflineRecvParams leaves in the member: a short datagram does not touch it.
OfflineFlag(datagram) == CASE datagram \in {"tiny", "offline"} -> TRUE
                           [] datagram \in {"lookalike", "other"} -> FALSE
                           [] datagram = "short" -> isUnconnectedRecvPrrams

\* No entry matched: to an offline handler, or to the reliability layer of the
\* sender's system.
Dispatch ==
  /\ Scanning /\ ~More
  /\ isUnconnectedRecvPrrams' = OfflineFlag(scan.datagram)
  /\ scan' = [scan EXCEPT !.state = IF isUnconnectedRecvPrrams' THEN "offline"
                                                                ELSE "connected"]
  /\ UNCHANGED <<banList, posted, time, index>>

Next == \/ \E ip \in Pattern, ms \in Terms : SetBannedRemoteSystem(ip, ms)
        \/ \E s \in Sender, d \in Datagram : Receive(s, d)
        \/ Tick \/ AddToBanList
        \/ RemoveExpired \/ PassEntry \/ Refuse \/ Dispatch

Spec == Init /\ [][Next]_vars

----------------------------------------------------------------------------
\* "Bans an IP from connecting ... Use 0 for a permanent ban": when the walk ends
\* without a match, and the datagram goes on, no entry without a timeout covers its
\* sender, whatever other entries came before it or expired during the walk.
BannedStaysOut ==
  Scanning /\ ~More => \A ban \in Range(banList) :
                         ban.timeout = 0 => ~Covers(ban.IP, scan.sender)

\* A datagram is sorted by its own bytes: only an offline message is kept from the
\* reliability layer, whatever the datagram before it was.
FlagIsOwn == scan.state = "offline" => scan.datagram \in {"tiny", "offline"}
=============================================================================
