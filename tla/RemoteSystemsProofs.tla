------------------------ MODULE RemoteSystemsProofs ------------------------
(***************************************************************************)
(* The tables of remote systems for any number of slots, addresses and     *)
(* guids and any hash function: types, the list of active systems, the     *)
(* hash chains, and, for a server that accepts only, that every system is  *)
(* found and every client that is answered has its slot, or comes when all *)
(* slots are in use.                                                       *)
(***************************************************************************)
EXTENDS RemoteSystems, FiniteSetTheorems, SequenceTheorems, WellFoundedInduction, TLAPS

\* A nonempty set of naturals has a least member: the first of a set of places or
\* slots exists.
LEMMA LeastNatural ==
  ASSUME NEW T \in SUBSET Nat, T # {}
  PROVE  \E k \in T : \A j \in T : k <= j
<1> DEFINE R == OpToRel(<, Nat)
<1>1. IsWellFoundedOn(R, Nat)
  BY NatLessThanWellFounded
<1>2. \E x \in T : \A y \in T : <<y, x>> \notin R
  <2> HIDE DEF R
  <2> QED BY <1>1, WFMin
<1>3. ASSUME NEW x \in T, NEW y \in T, <<y, x>> \notin R PROVE x <= y
  BY <1>3 DEF OpToRel
<1> QED
  BY <1>2, <1>3

\* So First, the loops that stop at the first match, gives the least place.
LEMMA FirstIsLeast ==
  ASSUME NEW T \in SUBSET Nat, T # {}
  PROVE  First(T) \in T /\ \A j \in T : First(T) <= j
  BY LeastNatural DEF First

\* Length and members of a chain after one link is removed.
LEMMA RemoveAtProperties ==
  ASSUME NEW S, NEW s \in Seq(S), NEW i \in 1 .. Len(s)
  PROVE  /\ RemoveAt(s, i) \in Seq(S)
         /\ Len(RemoveAt(s, i)) = Len(s) - 1
         /\ \A k \in 1 .. (Len(s) - 1) :
               RemoveAt(s, i)[k] = IF k < i THEN s[k] ELSE s[k + 1]
<1> DEFINE a == SubSeq(s, 1, i - 1)
           b == SubSeq(s, i + 1, Len(s))
<1>1. a \in Seq(S) /\ Len(a) = i - 1 /\ \A k \in 1 .. (i - 1) : a[k] = s[k]
  OBVIOUS
<1>2. b \in Seq(S) /\ Len(b) = Len(s) - i /\ \A k \in 1 .. (Len(s) - i) : b[k] = s[i + k]
  OBVIOUS
<1>3. RemoveAt(s, i) = a \o b
  BY DEF RemoveAt
<1> HIDE DEF a, b
<1>4. /\ a \o b \in Seq(S)
      /\ Len(a \o b) = Len(a) + Len(b)
      /\ \A k \in 1 .. (Len(a) + Len(b)) :
            (a \o b)[k] = IF k <= Len(a) THEN a[k] ELSE b[k - Len(a)]
  BY <1>1, <1>2, ConcatProperties
<1>5. Len(s) \in Nat /\ i \in 1 .. Len(s)
  OBVIOUS
<1>6. Len(a \o b) = Len(s) - 1
  BY <1>1, <1>2, <1>4, <1>5
<1>7. ASSUME NEW k \in 1 .. (Len(s) - 1)
      PROVE  (a \o b)[k] = IF k < i THEN s[k] ELSE s[k + 1]
  <2>1. (a \o b)[k] = IF k <= i - 1 THEN a[k] ELSE b[k - (i - 1)]
    BY <1>1, <1>2, <1>4, <1>5
  <2>2. CASE k < i
    BY <2>1, <2>2, <1>1, <1>5
  <2>3. CASE ~(k < i)
    <3>1. k - (i - 1) \in 1 .. (Len(s) - i) /\ i + (k - (i - 1)) = k + 1
      BY <2>3, <1>5
    <3> QED
      BY <3>1, <2>1, <2>3, <1>2, <1>5
  <2> QED
    BY <2>2, <2>3
<1> QED
  BY <1>3, <1>4, <1>6, <1>7

\* What a chain links, whatever the order.
Links(lookup, b) == ToSet(lookup[b])

LookupType == [Buckets -> Seq(Slots)]
NoDoubleLink(lookup) == \A b \in Buckets : IsInjective(lookup[b])

\* new is a lookup table with the links of lookup, without the slot n or with the
\* slot i in the chain of sa.
Unlinked(new, lookup, sa, n) ==
  /\ new \in LookupType /\ NoDoubleLink(new)
  /\ \A b \in Buckets : Links(new, b) = IF b = Bucket[sa] THEN Links(lookup, b) \ {n}
                                                           ELSE Links(lookup, b)
Linked(new, lookup, sa, i) ==
  /\ new \in LookupType /\ NoDoubleLink(new)
  /\ \A b \in Buckets : Links(new, b) = IF b = Bucket[sa] THEN Links(lookup, b) \cup {i}
                                                           ELSE Links(lookup, b)

\* Removing one place of a chain without double links removes one slot from it.
LEMMA RemoveAtLinks ==
  ASSUME NEW s \in Seq(Slots), IsInjective(s), NEW i \in 1 .. Len(s)
  PROVE  /\ IsInjective(RemoveAt(s, i))
         /\ ToSet(RemoveAt(s, i)) = ToSet(s) \ {s[i]}
<1> DEFINE r == RemoveAt(s, i)
<1>1. /\ r \in Seq(Slots) /\ Len(r) = Len(s) - 1 /\ Len(s) \in Nat
      /\ \A k \in 1 .. (Len(s) - 1) : r[k] = IF k < i THEN s[k] ELSE s[k + 1]
  <2>1. Len(s) \in Nat
    OBVIOUS
  <2> QED
    BY <2>1, RemoveAtProperties, Zenon
<1>2. DOMAIN r = 1 .. (Len(s) - 1) /\ DOMAIN s = 1 .. Len(s)
  BY <1>1
<1> HIDE DEF r
<1>3. ASSUME NEW j \in DOMAIN r, NEW k \in DOMAIN r, r[j] = r[k] PROVE j = k
  <2> DEFINE place(p) == IF p < i THEN p ELSE p + 1
  <2>1. ASSUME NEW p \in DOMAIN r PROVE place(p) \in DOMAIN s /\ r[p] = s[place(p)]
    BY <1>1, <1>2
  <2>2. place(j) = place(k)
    <3> HIDE DEF place
    <3> QED BY <2>1, <1>3 DEF IsInjective
  <2> QED
    BY <2>2, <1>1, <1>2
<1>4. ASSUME NEW j \in DOMAIN r PROVE r[j] \in ToSet(s) \ {s[i]}
  BY <1>1, <1>2 DEF IsInjective, ToSet
<1>5. ASSUME NEW x \in ToSet(s), x # s[i] PROVE x \in ToSet(r)
  <2>1. PICK k \in 1 .. Len(s) : x = s[k] /\ k # i
    BY <1>2, <1>5 DEF ToSet
  <2>2. CASE k < i
    BY <2>1, <2>2, <1>1, <1>2 DEF ToSet
  <2>3. CASE ~(k < i)
    <3>1. k - 1 \in 1 .. (Len(s) - 1) /\ ~(k - 1 < i) /\ (k - 1) + 1 = k
      BY <2>1, <2>3, <1>1
    <3>2. r[k - 1] = s[k]
      BY <3>1, <1>1
    <3> QED
      BY <3>1, <3>2, <2>1, <1>2 DEF ToSet
  <2> QED
    BY <2>2, <2>3
<1> QED
  BY <1>3, <1>4, <1>5 DEF r, IsInjective, ToSet

\* Appending a slot that is not in the chain adds it.
LEMMA AppendLinks ==
  ASSUME NEW s \in Seq(Slots), IsInjective(s), NEW i \in Slots, i \notin ToSet(s)
  PROVE  /\ Append(s, i) \in Seq(Slots)
         /\ IsInjective(Append(s, i))
         /\ ToSet(Append(s, i)) = ToSet(s) \cup {i}
<1> DEFINE r == Append(s, i)
<1>1. /\ r \in Seq(Slots) /\ Len(s) \in Nat
      /\ DOMAIN r = 1 .. (Len(s) + 1) /\ DOMAIN s = 1 .. Len(s)
      /\ r[Len(s) + 1] = i /\ \A k \in 1 .. Len(s) : r[k] = s[k]
  OBVIOUS
<1> HIDE DEF r
<1>2. IsInjective(r)
  BY <1>1 DEF IsInjective, ToSet
<1>3. ToSet(r) = ToSet(s) \cup {i}
  BY <1>1 DEF ToSet
<1> QED
  BY <1>1, <1>2, <1>3 DEF r

\* GetRemoteSystemIndex gives a linked slot of the address, if there is one.
LEMMA IndexIsLinked ==
  ASSUME NEW list, NEW lookup \in LookupType, NEW sa \in Addresses
  PROVE  LET n == GetRemoteSystemIndex(list, lookup, sa)
         IN  \/ /\ n = -1 /\ Found(list, lookup, sa) = {}
                /\ \A i \in Links(lookup, Bucket[sa]) : list[i].systemAddress # sa
             \/ /\ Found(list, lookup, sa) # {}
                /\ First(Found(list, lookup, sa)) \in 1 .. Len(lookup[Bucket[sa]])
                /\ n = lookup[Bucket[sa]][First(Found(list, lookup, sa))]
                /\ n \in Links(lookup, Bucket[sa]) /\ n \in Slots
                /\ list[n].systemAddress = sa
<1> DEFINE chain == lookup[Bucket[sa]]
           F == Found(list, lookup, sa)
<1>1. chain \in Seq(Slots) /\ DOMAIN chain = 1 .. Len(chain) /\ Len(chain) \in Nat
  BY DEF LookupType, Buckets
<1>2. F \subseteq DOMAIN chain /\ \A k \in F : list[chain[k]].systemAddress = sa
  BY DEF Found
<1>3. CASE F = {}
  BY <1>3 DEF GetRemoteSystemIndex, Links, ToSet, Found
<1>4. CASE F # {}
  <2>1. F \in SUBSET Nat
    BY <1>1, <1>2
  <2>2. First(F) \in F
    BY <2>1, <1>4, FirstIsLeast
  <2> QED
    BY <2>2, <1>1, <1>2, <1>4 DEF GetRemoteSystemIndex, Links, ToSet
<1> QED
  BY <1>3, <1>4

\* DeRefRemoteSystem takes the slot of that index, and no other, out of its chain.
LEMMA DeRefUnlinks ==
  ASSUME NEW list, NEW lookup \in LookupType, NoDoubleLink(lookup), NEW sa \in Addresses
  PROVE  Unlinked(DeRefRemoteSystem(list, lookup, sa), lookup, sa,
                  GetRemoteSystemIndex(list, lookup, sa))
<1> DEFINE chain == lookup[Bucket[sa]]
           F == Found(list, lookup, sa)
           n == GetRemoteSystemIndex(list, lookup, sa)
           new == DeRefRemoteSystem(list, lookup, sa)
<1>0. Bucket[sa] \in Buckets /\ chain \in Seq(Slots)
  BY DEF LookupType, Buckets
<1>1. CASE F = {}
  <2>1. new = lookup /\ n = -1
    BY <1>1 DEF DeRefRemoteSystem, GetRemoteSystemIndex
  <2>2. \A b \in Buckets : -1 \notin Links(lookup, b)
    <3> SUFFICES ASSUME NEW b \in Buckets, NEW k \in DOMAIN lookup[b] PROVE lookup[b][k] # -1
      BY DEF Links, ToSet
    <3>1. lookup[b] \in Seq(Slots)
      BY DEF LookupType
    <3>2. lookup[b][k] \in Slots
      BY <3>1
    <3> QED
      BY <3>2, SlotsAssumption DEF Slots
  <2> QED
    BY <2>1, <2>2 DEF Unlinked
<1>2. CASE F # {}
  <2>1. First(F) \in 1 .. Len(chain) /\ n = chain[First(F)]
    BY <1>2, IndexIsLinked
  <2>2. new = [lookup EXCEPT ![Bucket[sa]] = RemoveAt(chain, First(F))]
    BY <1>2 DEF DeRefRemoteSystem
  <2>3. IsInjective(chain)
    BY <1>0 DEF NoDoubleLink
  <2>4. /\ RemoveAt(chain, First(F)) \in Seq(Slots)
        /\ IsInjective(RemoveAt(chain, First(F)))
        /\ ToSet(RemoveAt(chain, First(F))) = ToSet(chain) \ {n}
    <3> HIDE DEF chain, n, F
    <3> QED BY <2>1, <2>3, <1>0, RemoveAtLinks, RemoveAtProperties
  <2> HIDE DEF chain, n, F, new
  <2>5. /\ new \in LookupType
        /\ new[Bucket[sa]] = RemoveAt(chain, First(F))
        /\ \A b \in Buckets \ {Bucket[sa]} : new[b] = lookup[b]
    BY <2>2, <2>4, <1>0 DEF LookupType
  <2>6. NoDoubleLink(new)
    BY <2>5, <2>4 DEF NoDoubleLink
  <2>7. ASSUME NEW b \in Buckets
        PROVE  Links(new, b) = IF b = Bucket[sa] THEN Links(lookup, b) \ {n} ELSE Links(lookup, b)
    BY <2>4, <2>5 DEF Links, chain
  <2> QED
    BY <2>5, <2>6, <2>7 DEF Unlinked, new, n
<1> QED
  BY <1>1, <1>2

\* Linking a slot last.
LEMMA LinkLast ==
  ASSUME NEW lookup \in LookupType, NoDoubleLink(lookup), NEW sa \in Addresses,
         NEW i \in Slots, i \notin Links(lookup, Bucket[sa])
  PROVE  Linked([lookup EXCEPT ![Bucket[sa]] = Append(@, i)], lookup, sa, i)
<1> DEFINE chain == lookup[Bucket[sa]]
           new == [lookup EXCEPT ![Bucket[sa]] = Append(@, i)]
<1>1. Bucket[sa] \in Buckets /\ chain \in Seq(Slots) /\ IsInjective(chain)
  BY DEF LookupType, Buckets, NoDoubleLink
<1>2. i \notin ToSet(chain)
  BY DEF Links
<1>3. /\ Append(chain, i) \in Seq(Slots) /\ IsInjective(Append(chain, i))
      /\ ToSet(Append(chain, i)) = ToSet(chain) \cup {i}
  <2> HIDE DEF chain
  <2> QED BY <1>1, <1>2, AppendLinks
<1>4. /\ new \in LookupType
      /\ new[Bucket[sa]] = Append(chain, i)
      /\ \A b \in Buckets \ {Bucket[sa]} : new[b] = lookup[b]
  BY <1>1, <1>3 DEF LookupType
<1> HIDE DEF new, chain
<1>5. NoDoubleLink(new)
  BY <1>3, <1>4 DEF NoDoubleLink
<1>6. ASSUME NEW b \in Buckets
      PROVE  Links(new, b) = IF b = Bucket[sa] THEN Links(lookup, b) \cup {i}
                                               ELSE Links(lookup, b)
  BY <1>3, <1>4 DEF Links, chain
<1> QED
  BY <1>4, <1>5, <1>6 DEF Linked, new

----------------------------------------------------------------------------
\* The links of the chains lead to active systems of the right bucket: ChainsExact
\* in terms of sets.
Exact(list, lookup) ==
  \A b \in Buckets : \A i \in Links(lookup, b) :
     list[i].isActive /\ Bucket[list[i].systemAddress] = b

\* ChainsExact is Exact without double links.
LEMMA ExactChains ==
  ASSUME remoteSystemLookup \in LookupType
  PROVE  ChainsExact <=> /\ Exact(remoteSystemList, remoteSystemLookup)
                         /\ NoDoubleLink(remoteSystemLookup)
  BY DEF ChainsExact, Exact, NoDoubleLink, Links, ToSet, Active

TableType == /\ remoteSystemList \in [Slots -> Systems]
             /\ remoteSystemLookup \in LookupType
             /\ activeSystemList \in Seq(Slots)

\* The strengthening.  No handler frees a slot: one that is not active has never
\* been used.
TableInv == /\ TableType
            /\ ActiveListExact
            /\ Exact(remoteSystemList, remoteSystemLookup)
            /\ NoDoubleLink(remoteSystemLookup)
            /\ \A i \in Slots : Active(i) => remoteSystemList[i].systemAddress \in Addresses
            /\ \A i \in Slots : ~Active(i) => remoteSystemList[i].systemAddress = NullAddress

\* A link to an address is a link to an active system that BySystemAddress finds.
LEMMA NotFoundNotLinked ==
  ASSUME TableInv, NEW sa \in Addresses, BySystemAddress(sa) = {}
  PROVE  /\ GetRemoteSystemIndex(remoteSystemList, remoteSystemLookup, sa) = -1
         /\ \A i \in Links(remoteSystemLookup, Bucket[sa]) :
               remoteSystemList[i].systemAddress # sa
<1> DEFINE n == GetRemoteSystemIndex(remoteSystemList, remoteSystemLookup, sa)
<1>1. ASSUME n \in Links(remoteSystemLookup, Bucket[sa]), n \in Slots PROVE FALSE
  <2>1. remoteSystemList[n].isActive
    BY <1>1 DEF TableInv, Exact, Buckets
  <2> QED
    BY <2>1, <1>1 DEF BySystemAddress
<1> QED
  BY <1>1, IndexIsLinked DEF TableInv, TableType

\* What RefRemoteEndPoint does to the chains for a slot never used and an address
\* not found.
LEMMA RefLinksNewSlot ==
  ASSUME TableInv, NEW sa \in Addresses, BySystemAddress(sa) = {},
         NEW i \in Slots, ~Active(i)
  PROVE  /\ Linked(RefRemoteEndPoint(sa, i), remoteSystemLookup, sa, i)
         /\ RefRemoteEndPoint(sa, i) =
               [remoteSystemLookup EXCEPT ![Bucket[sa]] = Append(@, i)]
<1>1. remoteSystemList[i].systemAddress = NullAddress
  BY DEF TableInv
<1>2. DeRefRemoteSystem(remoteSystemList, remoteSystemLookup, sa) = remoteSystemLookup
  <2>1. Found(remoteSystemList, remoteSystemLookup, sa) = {}
    <3>1. GetRemoteSystemIndex(remoteSystemList, remoteSystemLookup, sa) = -1
      BY NotFoundNotLinked
    <3>2. -1 \notin Slots
      BY SlotsAssumption DEF Slots
    <3> QED
      BY <3>1, <3>2, IndexIsLinked DEF TableInv, TableType
  <2> QED
    BY <2>1 DEF DeRefRemoteSystem
<1>3. RefRemoteEndPoint(sa, i) = [remoteSystemLookup EXCEPT ![Bucket[sa]] = Append(@, i)]
  BY <1>1, <1>2 DEF RefRemoteEndPoint
<1>4. i \notin Links(remoteSystemLookup, Bucket[sa])
  BY DEF TableInv, Exact, Active, Buckets
<1>5. remoteSystemLookup \in LookupType /\ NoDoubleLink(remoteSystemLookup)
  BY DEF TableInv, TableType
<1>6. Linked([remoteSystemLookup EXCEPT ![Bucket[sa]] = Append(@, i)],
             remoteSystemLookup, sa, i)
  BY <1>4, <1>5, LinkLast
<1> QED
  BY <1>3, <1>6

----------------------------------------------------------------------------
\* The steps on the table

\* A slot that was not active becomes so and is listed.
LEMMA ActiveListGrows ==
  ASSUME TableInv, NEW i \in Slots, ~Active(i),
         activeSystemList' = Append(activeSystemList, i),
         \A j \in Slots : Active(j)' <=> Active(j) \/ j = i
  PROVE  ActiveListExact' /\ (activeSystemList \in Seq(Slots))'
<1>1. activeSystemList \in Seq(Slots) /\ IsInjective(activeSystemList)
  BY DEF TableInv, TableType, ActiveListExact
<1>2. ToSet(activeSystemList) = {j \in Slots : Active(j)}
  BY DEF TableInv, ActiveListExact
<1>3. i \notin ToSet(activeSystemList)
  BY <1>2
<1>4. /\ activeSystemList' \in Seq(Slots) /\ IsInjective(activeSystemList')
      /\ ToSet(activeSystemList') = ToSet(activeSystemList) \cup {i}
  BY <1>1, <1>3, AppendLinks
<1>5. ToSet(activeSystemList') = {j \in Slots : Active(j)'}
  BY <1>2, <1>4
<1> QED
  BY <1>4, <1>5 DEF ActiveListExact

\* Taking a slot never used, for an address not found.
LEMMA ActivateKeepsTable ==
  ASSUME TableInv, NEW i \in Slots, ~Active(i), NEW from \in Addresses, NEW guid \in Guids,
         NEW mode \in {"UNVERIFIED_SENDER", "REQUESTED_CONNECTION"}, NEW we \in BOOLEAN,
         BySystemAddress(from) = {}, Activate(i, from, guid, mode, we)
  PROVE  TableInv'
<1> DEFINE system == [systemAddress |-> from, guid |-> guid, isActive |-> TRUE,
                      connectMode |-> mode, weInitiateConnection |-> we, fresh |-> TRUE]
<1>1. /\ remoteSystemList' = [remoteSystemList EXCEPT ![i] = system]
      /\ remoteSystemLookup' = RefRemoteEndPoint(from, i)
      /\ activeSystemList' = Append(activeSystemList, i)
  BY DEF Activate
<1>2. system \in Systems /\ system.isActive /\ system.systemAddress = from
  BY DEF Systems
<1> HIDE DEF system
<1>3. /\ remoteSystemList' \in [Slots -> Systems]
      /\ remoteSystemList'[i] = system
      /\ \A j \in Slots \ {i} : remoteSystemList'[j] = remoteSystemList[j]
  BY <1>1, <1>2 DEF TableInv, TableType
<1>4. /\ remoteSystemLookup' \in LookupType /\ NoDoubleLink(remoteSystemLookup')
      /\ \A b \in Buckets :
            Links(remoteSystemLookup', b)
              = IF b = Bucket[from] THEN Links(remoteSystemLookup, b) \cup {i}
                                    ELSE Links(remoteSystemLookup, b)
  BY <1>1, RefLinksNewSlot DEF Linked
<1>5. \A j \in Slots : Active(j)' <=> Active(j) \/ j = i
  BY <1>2, <1>3 DEF Active
<1>6. ActiveListExact' /\ activeSystemList' \in Seq(Slots)
  BY <1>1, <1>5, ActiveListGrows
<1>7. Exact(remoteSystemList', remoteSystemLookup')
  <2> SUFFICES ASSUME NEW b \in Buckets, NEW j \in Links(remoteSystemLookup', b)
               PROVE  remoteSystemList'[j].isActive
                      /\ Bucket[remoteSystemList'[j].systemAddress] = b
    BY DEF Exact
  <2>1. CASE j = i
    <3>1. i \notin Links(remoteSystemLookup, b)
      BY DEF TableInv, Exact, Active
    <3> QED
      BY <2>1, <3>1, <1>2, <1>3, <1>4
  <2>2. CASE j # i
    <3>1. j \in Links(remoteSystemLookup, b)
      BY <2>2, <1>4
    <3>2. j \in Slots
      BY <3>1 DEF TableInv, TableType, LookupType, Links, ToSet
    <3> QED
      BY <3>1, <3>2, <2>2, <1>3 DEF TableInv, Exact
  <2> QED
    BY <2>1, <2>2
<1>8. /\ \A j \in Slots : Active(j)' => remoteSystemList'[j].systemAddress \in Addresses
      /\ \A j \in Slots : ~Active(j)' => remoteSystemList'[j].systemAddress = NullAddress
  BY <1>2, <1>3, <1>5 DEF TableInv
<1> QED
  BY <1>3, <1>4, <1>6, <1>7, <1>8 DEF TableInv, TableType

\* Nothing but modes, the initiative or the freshness changes.
SameSystems ==
  /\ remoteSystemList' \in [Slots -> Systems]
  /\ \A i \in Slots : /\ remoteSystemList'[i].isActive = remoteSystemList[i].isActive
                       /\ remoteSystemList'[i].systemAddress = remoteSystemList[i].systemAddress
                       /\ remoteSystemList'[i].guid = remoteSystemList[i].guid
  /\ UNCHANGED <<remoteSystemLookup, activeSystemList>>

\* Such a step keeps the tables exact.
LEMMA SameSystemsKeepTable ==
  ASSUME TableInv, SameSystems
  PROVE  TableInv'
<1>1. TableType'
  BY DEF TableInv, TableType, SameSystems
<1>2. \A i \in Slots : Active(i)' <=> Active(i)
  BY DEF SameSystems, Active
<1>3. ActiveListExact'
  BY <1>2 DEF TableInv, ActiveListExact, SameSystems
<1>4. Exact(remoteSystemList', remoteSystemLookup') /\ NoDoubleLink(remoteSystemLookup')
  <2>1. \A b \in Buckets : Links(remoteSystemLookup, b) \subseteq Slots
    BY DEF TableInv, TableType, LookupType, Links, ToSet
  <2> QED
    BY <2>1 DEF TableInv, Exact, SameSystems, NoDoubleLink
<1>5. /\ \A i \in Slots : Active(i)' => remoteSystemList'[i].systemAddress \in Addresses
      /\ \A i \in Slots : ~Active(i)' => remoteSystemList'[i].systemAddress = NullAddress
  BY <1>2 DEF TableInv, SameSystems
<1> QED
  BY <1>1, <1>3, <1>4, <1>5 DEF TableInv

\* A rejected challenge takes the slot and unlinks it again: the chains are what
\* they were.
LEMMA RejectKeepsTable ==
  ASSUME TableInv, NEW from \in Addresses, NEW guid \in Guids, Free # {},
         BySystemAddress(from) = {}, RejectChallenge(from, guid)
  PROVE  TableInv' /\ First(Free) \in Free
<1> DEFINE i == First(Free)
           system == [systemAddress |-> from, guid |-> guid, isActive |-> TRUE,
                      connectMode |-> "UNVERIFIED_SENDER", weInitiateConnection |-> FALSE,
                      fresh |-> TRUE]
           list == [remoteSystemList EXCEPT ![i] = system]
           linked == RefRemoteEndPoint(from, i)
<1>0. i \in Slots /\ ~Active(i) /\ i \in Free
  <2>1. Free \in SUBSET Nat
    BY SlotsAssumption DEF Free, Slots
  <2>2. i \in Free
    BY <2>1, FirstIsLeast
  <2> QED
    BY <2>2 DEF Free, Active
<1>1. /\ remoteSystemList' = list
      /\ remoteSystemLookup' = DeRefRemoteSystem(list, linked, from)
      /\ activeSystemList' = Append(activeSystemList, i)
  BY DEF RejectChallenge
<1>2. system \in Systems /\ system.isActive /\ system.systemAddress = from
  BY DEF Systems
<1> HIDE DEF system
<1>3. /\ list \in [Slots -> Systems] /\ list[i] = system
      /\ \A j \in Slots \ {i} : list[j] = remoteSystemList[j]
  BY <1>0, <1>2 DEF TableInv, TableType
<1>4. /\ linked \in LookupType /\ NoDoubleLink(linked)
      /\ \A b \in Buckets :
            Links(linked, b) = IF b = Bucket[from] THEN Links(remoteSystemLookup, b) \cup {i}
                                                   ELSE Links(remoteSystemLookup, b)
  BY <1>0, RefLinksNewSlot DEF Linked
<1> HIDE DEF list, linked, i
<1>5. i \notin Links(remoteSystemLookup, Bucket[from])
  BY <1>0 DEF TableInv, Exact, Active, Buckets
<1>6. GetRemoteSystemIndex(list, linked, from) = i
  <2>1. i \in Links(linked, Bucket[from])
    BY <1>4 DEF Buckets
  <2>2. \A j \in Links(linked, Bucket[from]) : list[j].systemAddress = from => j = i
    <3>1. \A j \in Links(remoteSystemLookup, Bucket[from]) :
             j \in Slots /\ remoteSystemList[j].systemAddress # from
      BY NotFoundNotLinked DEF TableInv, TableType, LookupType, Links, ToSet, Buckets
    <3> QED
      BY <3>1, <1>3, <1>4 DEF Buckets
  <2>3. list[i].systemAddress = from
    BY <1>2, <1>3
  <2> DEFINE n == GetRemoteSystemIndex(list, linked, from)
  <2>4. n \in Links(linked, Bucket[from]) /\ list[n].systemAddress = from
    BY <2>1, <2>3, <1>4, IndexIsLinked
  <2> QED
    BY <2>2, <2>4
<1>7. /\ remoteSystemLookup' \in LookupType /\ NoDoubleLink(remoteSystemLookup')
      /\ \A b \in Buckets : Links(remoteSystemLookup', b) = Links(remoteSystemLookup, b)
  <2>1. /\ remoteSystemLookup' \in LookupType /\ NoDoubleLink(remoteSystemLookup')
        /\ \A b \in Buckets :
              Links(remoteSystemLookup', b) = IF b = Bucket[from] THEN Links(linked, b) \ {i}
                                                                  ELSE Links(linked, b)
    <3>1. Unlinked(DeRefRemoteSystem(list, linked, from), linked, from,
                   GetRemoteSystemIndex(list, linked, from))
      BY <1>4, DeRefUnlinks
    <3>2. Unlinked(remoteSystemLookup', linked, from, i)
      BY <3>1, <1>1, <1>6
    <3> QED
      BY <3>2 DEF Unlinked
  <2> QED
    BY <2>1, <1>4, <1>5
<1>8. \A j \in Slots : Active(j)' <=> Active(j) \/ j = i
  BY <1>0, <1>1, <1>2, <1>3 DEF Active
<1>9. ActiveListExact' /\ activeSystemList' \in Seq(Slots)
  BY <1>0, <1>1, <1>8, ActiveListGrows
<1>10. Exact(remoteSystemList', remoteSystemLookup')
  <2> SUFFICES ASSUME NEW b \in Buckets, NEW j \in Links(remoteSystemLookup, b)
               PROVE  list[j].isActive /\ Bucket[list[j].systemAddress] = b
    BY <1>1, <1>7 DEF Exact
  <2>1. remoteSystemList[j].isActive /\ Bucket[remoteSystemList[j].systemAddress] = b
    BY DEF TableInv, Exact
  <2>2. j \in Slots
    BY DEF TableInv, TableType, LookupType, Links, ToSet
  <2>3. j # i
    BY <2>1, <1>0 DEF Active
  <2> QED
    BY <2>1, <2>2, <2>3, <1>3
<1>11. /\ \A j \in Slots : Active(j)' => remoteSystemList'[j].systemAddress \in Addresses
       /\ \A j \in Slots : ~Active(j)' => remoteSystemList'[j].systemAddress = NullAddress
  BY <1>1, <1>2, <1>3, <1>8 DEF TableInv
<1> QED
  BY <1>0, <1>1, <1>3, <1>7, <1>9, <1>10, <1>11 DEF TableInv, TableType, i

\* A reroute moves a system that was found to the chain of its new address.
LEMMA RerouteKeepsTable ==
  ASSUME TableInv, NEW guid \in Guids, NEW sa \in Addresses, ChangeSystemAddress(guid, sa)
  PROVE  /\ TableInv'
         /\ \A j \in Slots :
               Active(j) => /\ remoteSystemList'[j].isActive
                            /\ remoteSystemList'[j].guid = remoteSystemList[j].guid
                            /\ remoteSystemList'[j].systemAddress
                                  \in {remoteSystemList[j].systemAddress, sa}
<1>1. PICK i \in ByGuid(guid) :
        LET at == GetRemoteSystemIndex(remoteSystemList, remoteSystemLookup,
                                       remoteSystemList[i].systemAddress)
        IN  /\ at \in Slots
            /\ remoteSystemLookup' = RefRemoteEndPoint(sa, at)
            /\ remoteSystemList' = [remoteSystemList EXCEPT ![at].systemAddress = sa]
  BY DEF ChangeSystemAddress
<1> DEFINE old == remoteSystemList[i].systemAddress
           at == GetRemoteSystemIndex(remoteSystemList, remoteSystemLookup, old)
           unlinked == DeRefRemoteSystem(remoteSystemList, remoteSystemLookup, old)
           freed == DeRefRemoteSystem(remoteSystemList, unlinked, sa)
<1>2. /\ at \in Slots /\ remoteSystemLookup' = RefRemoteEndPoint(sa, at)
      /\ remoteSystemList' = [remoteSystemList EXCEPT ![at].systemAddress = sa]
      /\ UNCHANGED activeSystemList
  BY <1>1 DEF ChangeSystemAddress
<1>3. i \in Slots /\ old \in Addresses /\ old # NullAddress
  BY NullAssumption DEF ByGuid, TableInv, Active
<1>4. remoteSystemLookup \in LookupType /\ NoDoubleLink(remoteSystemLookup)
      /\ remoteSystemList \in [Slots -> Systems]
  BY DEF TableInv, TableType
<1> HIDE DEF old
<1>5. at \in Links(remoteSystemLookup, Bucket[old]) /\ remoteSystemList[at].systemAddress = old
  <2>1. -1 \notin Slots
    BY SlotsAssumption DEF Slots
  <2> QED
    BY <2>1, <1>2, <1>3, <1>4, IndexIsLinked
<1>6. remoteSystemList[at].isActive
  BY <1>3, <1>5 DEF TableInv, Exact, Buckets
<1>7. remoteSystemLookup' = [freed EXCEPT ![Bucket[sa]] = Append(@, at)]
  BY <1>2, <1>3, <1>5 DEF RefRemoteEndPoint
<1>8. /\ unlinked \in LookupType /\ NoDoubleLink(unlinked)
      /\ \A b \in Buckets : Links(unlinked, b) = IF b = Bucket[old]
                                THEN Links(remoteSystemLookup, b) \ {at}
                                ELSE Links(remoteSystemLookup, b)
  <2>1. Unlinked(unlinked, remoteSystemLookup, old, at)
    BY <1>3, <1>4, DeRefUnlinks
  <2> QED
    BY <2>1 DEF Unlinked
<1> HIDE DEF unlinked, at
<1>9. \A b \in Buckets : Links(unlinked, b) \subseteq Links(remoteSystemLookup, b) \ {at}
  BY <1>5, <1>8 DEF TableInv, Exact
<1>10. /\ freed \in LookupType /\ NoDoubleLink(freed)
       /\ \A b \in Buckets : Links(freed, b) \subseteq Links(unlinked, b)
  <2>1. Unlinked(freed, unlinked, sa, GetRemoteSystemIndex(remoteSystemList, unlinked, sa))
    BY <1>8, DeRefUnlinks
  <2> QED
    BY <2>1 DEF Unlinked
<1> HIDE DEF freed
<1>11. at \notin Links(freed, Bucket[sa])
  BY <1>9, <1>10 DEF Buckets
<1>12. /\ remoteSystemLookup' \in LookupType /\ NoDoubleLink(remoteSystemLookup')
       /\ \A b \in Buckets : Links(remoteSystemLookup', b)
             = IF b = Bucket[sa] THEN Links(freed, b) \cup {at} ELSE Links(freed, b)
  <2>1. at \in Slots
    BY <1>2 DEF at
  <2>2. Linked([freed EXCEPT ![Bucket[sa]] = Append(@, at)], freed, sa, at)
    BY <2>1, <1>10, <1>11, LinkLast
  <2>3. Linked(remoteSystemLookup', freed, sa, at)
    BY <2>2, <1>7
  <2> QED
    BY <2>3 DEF Linked
<1>13. /\ remoteSystemList' \in [Slots -> Systems]
       /\ remoteSystemList'[at].isActive /\ remoteSystemList'[at].systemAddress = sa
       /\ remoteSystemList'[at].guid = remoteSystemList[at].guid
       /\ \A j \in Slots \ {at} : remoteSystemList'[j] = remoteSystemList[j]
  <2>1. at \in Slots /\ remoteSystemList' = [remoteSystemList EXCEPT ![at].systemAddress = sa]
    BY <1>2 DEF at
  <2> QED
    BY <2>1, <1>4, <1>6 DEF Systems
<1>14. Exact(remoteSystemList', remoteSystemLookup')
  <2> SUFFICES ASSUME NEW b \in Buckets, NEW j \in Links(remoteSystemLookup', b)
               PROVE  remoteSystemList'[j].isActive
                      /\ Bucket[remoteSystemList'[j].systemAddress] = b
    BY DEF Exact
  <2>1. CASE j = at
    BY <2>1, <1>9, <1>10, <1>12, <1>13
  <2>2. CASE j # at
    <3>1. j \in Links(remoteSystemLookup, b)
      BY <2>2, <1>9, <1>10, <1>12
    <3>2. j \in Slots
      BY <3>1 DEF TableInv, TableType, LookupType, Links, ToSet
    <3> QED
      BY <3>1, <3>2, <2>2, <1>13 DEF TableInv, Exact
  <2> QED
    BY <2>1, <2>2
<1>15. \A j \in Slots : Active(j)' <=> Active(j)
  BY <1>6, <1>13 DEF Active
<1>16. ActiveListExact' /\ activeSystemList' \in Seq(Slots)
  BY <1>2, <1>15 DEF TableInv, TableType, ActiveListExact
<1>17. /\ \A j \in Slots : Active(j)' => remoteSystemList'[j].systemAddress \in Addresses
       /\ \A j \in Slots : ~Active(j)' => remoteSystemList'[j].systemAddress = NullAddress
  BY <1>6, <1>13, <1>15 DEF TableInv, Active
<1>18. TableInv'
  BY <1>12, <1>13, <1>14, <1>16, <1>17 DEF TableInv, TableType
<1> QED
  BY <1>18, <1>13, <1>15 DEF Active

----------------------------------------------------------------------------
\* The invariant

IInv == /\ TableInv /\ reply.to \in Addresses \cup {NullAddress}
        /\ admitted \subseteq [from : Addresses, guid : Guids]

\* What a step does to the slots in use.
Kept == \A i \in Slots : Active(i) =>
          /\ remoteSystemList'[i].isActive
          /\ remoteSystemList'[i].guid = remoteSystemList[i].guid
          /\ remoteSystemList'[i].systemAddress \in {remoteSystemList[i].systemAddress} \cup Reroutes

\* The slot Add2RemoteSystemList stops at is one not in use.
LEMMA FirstFree ==
  ASSUME Free # {}
  PROVE  First(Free) \in Slots /\ ~Active(First(Free))
<1>1. Free \in SUBSET Nat
  BY SlotsAssumption DEF Free, Slots
<1>2. First(Free) \in Free
  BY <1>1, FirstIsLeast
<1> QED
  BY <1>2 DEF Free, Active

\* A table nobody has connected to satisfies the strengthening.
LEMMA InitIInv == Init => IInv
<1> SUFFICES ASSUME Init PROVE IInv
  OBVIOUS
<1>1. TableType
  BY DEF Init, TableType, LookupType, Systems, Unused
<1>2. \A i \in Slots : ~Active(i) /\ remoteSystemList[i].systemAddress = NullAddress
  BY DEF Init, Active, Unused
<1>3. ActiveListExact
  BY <1>2 DEF Init, ActiveListExact, IsInjective, ToSet
<1>4. \A b \in Buckets : Links(remoteSystemLookup, b) = {} /\ IsInjective(remoteSystemLookup[b])
  BY DEF Init, Links, ToSet, IsInjective
<1>5. reply.to \in Addresses \cup {NullAddress} /\ admitted = {}
  BY DEF Init, NoReply
<1> QED
  BY <1>1, <1>2, <1>3, <1>4, <1>5 DEF IInv, TableInv, Exact, NoDoubleLink

\* The kinds of steps: nothing but modes changes, a client or server gets a slot, a
\* challenge is rejected, a system is rerouted.
Modes == {"UNVERIFIED_SENDER", "REQUESTED_CONNECTION"}
TakesSlot(from, guid, mode, we) ==
  /\ Free # {} /\ BySystemAddress(from) = {} /\ (ConnectsOut \/ ByGuid(guid) = {})
  /\ Activate(First(Free), from, guid, mode, we)
SomeSlotTaken ==
  \E from \in Addresses, guid \in Guids, mode \in Modes, we \in BOOLEAN :
     TakesSlot(from, guid, mode, we)
SomeChallengeRejected == \E from \in Addresses, guid \in Guids : RejectChallenge(from, guid)
SomeSystemRerouted == \E guid \in Guids, sa \in Reroutes : ChangeSystemAddress(guid, sa)

\* A client the lookup table does not find is not unlinked either.
LEMMA NoFreeSlotKeepsTable ==
  ASSUME TableInv, NEW from \in Addresses, NEW guid \in Guids, NoFreeSlot(from, guid)
  PROVE  UNCHANGED table
<1>1. \A i \in Links(remoteSystemLookup, Bucket[from]) : remoteSystemList[i].systemAddress # from
  BY NotFoundNotLinked DEF NoFreeSlot, NewClient
<1>2. Found(remoteSystemList, remoteSystemLookup, from) = {}
  BY <1>1 DEF Found, Links, ToSet
<1> QED
  BY <1>2 DEF NoFreeSlot, DeRefRemoteSystem, table

\* There are no others.
LEMMA StepKinds ==
  ASSUME TableInv, [Next]_vars
  PROVE  SameSystems \/ SomeSlotTaken \/ SomeChallengeRejected \/ SomeSystemRerouted
<1>0. UNCHANGED table => SameSystems
  BY DEF table, SameSystems, TableInv, TableType
<1>1. CASE UNCHANGED vars
  BY <1>0, <1>1 DEF vars, table
<1>2. ASSUME NEW from \in Addresses, NEW guid \in Guids, OnConnectionRequest2(from, guid)
      PROVE  SameSystems \/ SomeSlotTaken \/ SomeChallengeRejected
  <2>1. CASE Accept(from, guid)
    <3>1. TakesSlot(from, guid, "UNVERIFIED_SENDER", FALSE)
      BY <2>1 DEF Accept, NewClient, TakesSlot
    <3> QED
      BY <3>1 DEF SomeSlotTaken, Modes
  <2>2. CASE RejectChallenge(from, guid)
    BY <2>2 DEF SomeChallengeRejected
  <2>3. CASE \/ IgnoreRequest2(from, guid) \/ AnswerAgain(from, guid)
             \/ AlreadyConnected(from, guid) \/ CannotAccept(from, guid)
    BY <1>0, <2>3 DEF IgnoreRequest2, AnswerAgain, AlreadyConnected, CannotAccept
  <2>4. CASE NoFreeSlot(from, guid)
    BY <1>0, <2>4, NoFreeSlotKeepsTable
  <2> QED
    BY <1>2, <2>1, <2>2, <2>3, <2>4 DEF OnConnectionRequest2
<1>3. ASSUME NEW from \in Addresses, NEW guid \in Guids, ConnectOut(from, guid)
      PROVE  SameSystems \/ SomeSlotTaken
  <2>1. ASSUME BySystemAddress(from) = {}, Free # {}, NEW valid \in BOOLEAN,
               LET requested == valid /\ ~Floods(from)
               IN  Activate(First(Free), from, guid,
                            IF requested THEN "REQUESTED_CONNECTION" ELSE "UNVERIFIED_SENDER",
                            requested)
        PROVE  SomeSlotTaken
    <3>1. CASE valid /\ ~Floods(from)
      <4>1. TakesSlot(from, guid, "REQUESTED_CONNECTION", TRUE)
        BY <2>1, <3>1, <1>3 DEF TakesSlot, Activate, ConnectOut
      <4> QED
        BY <4>1 DEF SomeSlotTaken, Modes
    <3>2. CASE ~(valid /\ ~Floods(from))
      <4>1. TakesSlot(from, guid, "UNVERIFIED_SENDER", FALSE)
        BY <2>1, <3>2, <1>3 DEF TakesSlot, Activate, ConnectOut
      <4> QED
        BY <4>1 DEF SomeSlotTaken, Modes
    <3> QED
      BY <3>1, <3>2
  <2>2. ASSUME NEW i \in BySystemAddress(from),
               remoteSystemList' = [remoteSystemList EXCEPT
                                      ![i].connectMode = "REQUESTED_CONNECTION",
                                      ![i].weInitiateConnection = TRUE],
               UNCHANGED <<remoteSystemLookup, activeSystemList>>
        PROVE  SameSystems
    BY <2>2 DEF SameSystems, TableInv, TableType, Systems, BySystemAddress
  <2> QED
    BY <1>3, <2>1, <2>2 DEF ConnectOut
<1>4. ASSUME NEW guid \in Guids, SetConnectMode(guid, "CONNECTED") PROVE SameSystems
  BY <1>4 DEF SetConnectMode, SameSystems, TableInv, TableType, Systems, ByGuid
<1>5. ASSUME NEW i \in Slots, Age(i) PROVE SameSystems
  BY <1>5 DEF Age, SameSystems, TableInv, TableType, Systems
<1> QED
  BY <1>1, <1>2, <1>3, <1>4, <1>5 DEF Next, SomeSystemRerouted

\* Answers go to the client that asked, and it alone is admitted.
LEMMA ReplyType ==
  ASSUME IInv, [Next]_vars
  PROVE  /\ reply'.to \in Addresses \cup {NullAddress}
         /\ admitted' \subseteq [from : Addresses, guid : Guids]
<1>1. ASSUME NEW from \in Addresses, NEW guid \in Guids, OnConnectionRequest2(from, guid)
      PROVE  reply'.to = from /\ admitted' \subseteq admitted \cup {[from |-> from, guid |-> guid]}
  <2>1. ASSUME NEW ids, Answer(from, guid, ids)
        PROVE  /\ reply'.to = from
               /\ admitted' \subseteq admitted \cup {[from |-> from, guid |-> guid]}
    BY <2>1 DEF Answer
  <2>2. CASE IgnoreRequest2(from, guid)
    BY <2>1, <2>2 DEF IgnoreRequest2
  <2>3. CASE AnswerAgain(from, guid)
    BY <2>1, <2>3 DEF AnswerAgain
  <2>4. CASE AlreadyConnected(from, guid)
    BY <2>1, <2>4 DEF AlreadyConnected
  <2>5. CASE CannotAccept(from, guid)
    BY <2>1, <2>5 DEF CannotAccept
  <2>6. CASE Accept(from, guid)
    BY <2>1, <2>6 DEF Accept
  <2>7. CASE RejectChallenge(from, guid)
    BY <2>1, <2>7 DEF RejectChallenge
  <2>8. CASE NoFreeSlot(from, guid)
    BY <2>1, <2>8 DEF NoFreeSlot
  <2> QED
    BY <1>1, <2>2, <2>3, <2>4, <2>5, <2>6, <2>7, <2>8 DEF OnConnectionRequest2
<1>2. CASE NoAnswer
  BY <1>2 DEF NoAnswer, NoReply, IInv
<1>3. CASE UNCHANGED vars
  BY <1>3 DEF vars, IInv
<1>4. ASSUME NEW from \in Addresses, NEW guid \in Guids, OnConnectionRequest2(from, guid)
      PROVE  /\ reply'.to \in Addresses \cup {NullAddress}
             /\ admitted' \subseteq [from : Addresses, guid : Guids]
  <2>1. [from |-> from, guid |-> guid] \in [from : Addresses, guid : Guids]
    OBVIOUS
  <2> QED
    BY <1>1, <1>4, <2>1 DEF IInv
<1> QED
  BY <1>2, <1>3, <1>4 DEF Next, ConnectOut, SetConnectMode, ChangeSystemAddress, Age

\* Every step keeps the invariant and the slots in use.
LEMMA NextIInv == IInv /\ [Next]_vars => IInv' /\ Kept
<1> SUFFICES ASSUME IInv, [Next]_vars PROVE IInv' /\ Kept
  OBVIOUS
<1> USE DEF IInv
<1>1. CASE SameSystems
  <2>1. Kept
    BY <1>1 DEF Kept, Active, SameSystems
  <2> QED
    BY <1>1, <2>1, SameSystemsKeepTable, ReplyType
<1>2. ASSUME NEW from \in Addresses, NEW guid \in Guids, NEW mode \in Modes,
             NEW we \in BOOLEAN, TakesSlot(from, guid, mode, we)
      PROVE  TableInv' /\ Kept
  <2>1. First(Free) \in Slots /\ ~Active(First(Free))
    BY <1>2, FirstFree DEF TakesSlot
  <2>2. TableInv'
    BY <1>2, <2>1, ActivateKeepsTable DEF TakesSlot, Modes
  <2>3. Kept
    BY <1>2, <2>1 DEF TakesSlot, Activate, Kept, Active, TableInv, TableType
  <2> QED
    BY <2>2, <2>3
<1>3. ASSUME NEW from \in Addresses, NEW guid \in Guids, RejectChallenge(from, guid)
      PROVE  TableInv' /\ Kept
  <2>1. Free # {} /\ BySystemAddress(from) = {}
    BY <1>3 DEF RejectChallenge, NewClient
  <2>2. First(Free) \in Slots /\ ~Active(First(Free))
    BY <2>1, FirstFree
  <2>3. TableInv'
    BY <1>3, <2>1, RejectKeepsTable
  <2>4. Kept
    BY <1>3, <2>2 DEF RejectChallenge, Kept, Active, TableInv, TableType
  <2> QED
    BY <2>3, <2>4
<1>4. ASSUME NEW guid \in Guids, NEW sa \in Reroutes, ChangeSystemAddress(guid, sa)
      PROVE  TableInv' /\ Kept
  <2>1. sa \in Addresses
    BY ReroutesAssumption
  <2>2. /\ TableInv'
        /\ \A j \in Slots :
              Active(j) => /\ remoteSystemList'[j].isActive
                           /\ remoteSystemList'[j].guid = remoteSystemList[j].guid
                           /\ remoteSystemList'[j].systemAddress
                                 \in {remoteSystemList[j].systemAddress, sa}
    BY <1>4, <2>1, RerouteKeepsTable
  <2> QED
    BY <2>2 DEF Kept
<1> QED
  BY <1>1, <1>2, <1>3, <1>4, StepKinds, ReplyType
     DEF SomeSlotTaken, SomeChallengeRejected, SomeSystemRerouted

\* So it holds at every moment.
LEMMA InductiveInvariant == Spec => []IInv
  BY InitIInv, NextIInv, PTL DEF Spec

\* The tables keep their types: no handler writes anything but a slot of
\* remoteSystemList into a chain or into activeSystemList.
THEOREM TypeCorrect == Spec => []TypeOK
<1>1. IInv => TypeOK
  BY DEF IInv, TableInv, TableType, LookupType, TypeOK
<1> QED
  BY <1>1, InductiveInvariant, PTL

\* activeSystemList lists each active slot once, so that it never outgrows the
\* maxConnections places AddToActiveSystemList writes to without looking.
THEOREM ActiveListStaysExact == Spec => []ActiveListExact
<1>1. IInv => ActiveListExact
  BY DEF IInv, TableInv
<1> QED
  BY <1>1, InductiveInvariant, PTL

\* RefRemoteEndPoint and DeRefRemoteSystem never leave a stale or a double link.
THEOREM ChainsStayExact == Spec => []ChainsExact
<1>1. IInv => ChainsExact
  BY ExactChains DEF IInv, TableInv, TableType
<1> QED
  BY <1>1, InductiveInvariant, PTL

\* No request, answer or command takes a slot in use away from its client.
THEOREM SlotsAreKept == Spec => NoSlotTakenOver
<1>1. IInv /\ [Next]_vars =>
        [\A i \in Slots : Active(i) =>
           /\ remoteSystemList'[i].isActive /\ remoteSystemList'[i].guid = remoteSystemList[i].guid
           /\ remoteSystemList'[i].systemAddress
                 \in {remoteSystemList[i].systemAddress} \cup Reroutes]_vars
  BY NextIInv DEF Kept
<1> QED
  BY <1>1, InductiveInvariant, PTL DEF Spec, NoSlotTakenOver

----------------------------------------------------------------------------
\* A peer that only accepts looks every guid up before it gives a slot away.

\* ByGuid finds the guid if any active slot has it.
LEMMA NoGuidFound ==
  ASSUME NEW guid \in Guids, ByGuid(guid) = {}
  PROVE  \A i \in Slots : Active(i) => remoteSystemList[i].guid # guid
<1> DEFINE same == {i \in Slots : remoteSystemList[i].guid = guid /\ remoteSystemList[i].isActive}
<1>1. same \in SUBSET Nat
  BY SlotsAssumption DEF Slots
<1>2. ByGuid(guid) = {i \in same : \A j \in same : i <= j}
  BY DEF ByGuid
<1> HIDE DEF same
<1>3. same = {}
  BY <1>1, <1>2, LeastNatural
<1> QED
  BY <1>3 DEF same, Active

\* What a step does to one slot when the guid goes to no second one.
NewGuid(i, guid) ==
  /\ i \in Slots /\ remoteSystemList'[i].guid = guid
  /\ \A j \in Slots : Active(j) => remoteSystemList[j].guid # guid
  /\ \A j \in Slots \ {i} : remoteSystemList'[j] = remoteSystemList[j]

\* A guid that was looked up and not found is given to one slot only.
LEMMA NextGuidsDistinct ==
  ASSUME ~ConnectsOut, IInv, GuidsDistinct, [Next]_vars
  PROVE  GuidsDistinct'
<1> USE DEF IInv
<1>1. CASE SameSystems
  BY <1>1 DEF SameSystems, GuidsDistinct, Active
<1>2. ASSUME NEW i, NEW guid, NewGuid(i, guid) PROVE GuidsDistinct'
  BY <1>2 DEF NewGuid, GuidsDistinct, Active
<1>3. ASSUME NEW from \in Addresses, NEW guid \in Guids, NEW mode \in Modes,
             NEW we \in BOOLEAN, TakesSlot(from, guid, mode, we)
      PROVE  NewGuid(First(Free), guid)
  <2>1. First(Free) \in Slots
    BY <1>3, FirstFree DEF TakesSlot
  <2>2. \A j \in Slots : Active(j) => remoteSystemList[j].guid # guid
    BY <1>3, NoGuidFound DEF TakesSlot
  <2> QED
    BY <1>3, <2>1, <2>2 DEF TakesSlot, Activate, NewGuid, TableInv, TableType
<1>4. ASSUME NEW from \in Addresses, NEW guid \in Guids, RejectChallenge(from, guid)
      PROVE  NewGuid(First(Free), guid)
  <2>1. First(Free) \in Slots
    BY <1>4, FirstFree DEF RejectChallenge
  <2>2. \A j \in Slots : Active(j) => remoteSystemList[j].guid # guid
    BY <1>4, NoGuidFound DEF RejectChallenge, NewClient
  <2> QED
    BY <1>4, <2>1, <2>2 DEF RejectChallenge, NewGuid, TableInv, TableType
<1>5. ASSUME NEW guid \in Guids, NEW sa \in Reroutes, ChangeSystemAddress(guid, sa)
      PROVE  GuidsDistinct'
  <2>1. \A j \in Slots : /\ remoteSystemList'[j].isActive = remoteSystemList[j].isActive
                         /\ remoteSystemList'[j].guid = remoteSystemList[j].guid
    BY <1>5 DEF ChangeSystemAddress, TableInv, TableType, Systems
  <2> QED
    BY <2>1 DEF GuidsDistinct, Active
<1> QED
  BY <1>1, <1>2, <1>3, <1>4, <1>5, StepKinds
     DEF SomeSlotTaken, SomeChallengeRejected, SomeSystemRerouted

\* At a peer that connects to nobody, a client that comes back from another address
\* or restarts never takes a second slot.
THEOREM GuidsStayDistinct ==
  ASSUME ~ConnectsOut
  PROVE  Spec => []GuidsDistinct
<1>1. Init => GuidsDistinct
  BY DEF Init, GuidsDistinct, Active, Unused
<1>2. IInv /\ GuidsDistinct /\ [Next]_vars => GuidsDistinct'
  BY NextGuidsDistinct
<1> QED
  BY <1>1, <1>2, InductiveInvariant, PTL DEF Spec

----------------------------------------------------------------------------
\* Where no system is rerouted and no challenge fails, every active system stays
\* linked where its address leads, and addresses stay distinct.
AllLinked ==
  \A i \in Slots : Active(i) =>
     i \in Links(remoteSystemLookup, Bucket[remoteSystemList[i].systemAddress])
AddressesDistinct ==
  \A i, j \in Slots : Active(i) /\ Active(j) /\ i # j =>
     remoteSystemList[i].systemAddress # remoteSystemList[j].systemAddress
FoundInv == AllLinked /\ AddressesDistinct

\* Then GetRemoteSystemIndex finds every active system.
LEMMA LinkedAreFound ==
  ASSUME TableInv, FoundInv
  PROVE  ActiveIsFound
<1> SUFFICES ASSUME NEW i \in Slots, Active(i)
             PROVE  GetRemoteSystemIndex(remoteSystemList, remoteSystemLookup,
                                         remoteSystemList[i].systemAddress) = i
  BY DEF ActiveIsFound
<1> DEFINE sa == remoteSystemList[i].systemAddress
           n == GetRemoteSystemIndex(remoteSystemList, remoteSystemLookup, sa)
<1>1. sa \in Addresses /\ i \in Links(remoteSystemLookup, Bucket[sa])
  BY DEF TableInv, FoundInv, AllLinked
<1>2. remoteSystemLookup \in LookupType
  BY DEF TableInv, TableType
<1> HIDE DEF sa
<1>3. /\ n \in Links(remoteSystemLookup, Bucket[sa]) /\ n \in Slots
      /\ remoteSystemList[n].systemAddress = sa
  BY <1>1, <1>2, IndexIsLinked DEF sa
<1>4. Active(n)
  BY <1>1, <1>3 DEF TableInv, Exact, Buckets, Active
<1> QED
  BY <1>3, <1>4 DEF FoundInv, AddressesDistinct, sa

\* An address that is not found is the address of no active system.
LEMMA NoAddressFound ==
  ASSUME TableInv, FoundInv, NEW sa \in Addresses, BySystemAddress(sa) = {}
  PROVE  \A i \in Slots : Active(i) => remoteSystemList[i].systemAddress # sa
  BY LinkedAreFound DEF ActiveIsFound, BySystemAddress, Active

\* Every step keeps the active systems linked and their addresses distinct.
LEMMA NextFoundInv ==
  ASSUME Reroutes = {}, ~BadChallenges, IInv, FoundInv, [Next]_vars
  PROVE  FoundInv'
<1> USE DEF IInv
<1>1. CASE SameSystems
  <2>1. \A i \in Slots : /\ Active(i)' = Active(i)
                         /\ remoteSystemList'[i].systemAddress = remoteSystemList[i].systemAddress
    BY <1>1 DEF SameSystems, Active
  <2>2. AllLinked'
    BY <1>1, <2>1 DEF SameSystems, FoundInv, AllLinked, Links
  <2> QED
    BY <2>1, <2>2 DEF FoundInv, AddressesDistinct
<1>2. ASSUME NEW from \in Addresses, NEW guid \in Guids, NEW mode \in Modes,
             NEW we \in BOOLEAN, TakesSlot(from, guid, mode, we)
      PROVE  FoundInv'
  <2> DEFINE i == First(Free)
  <2>1. i \in Slots /\ ~Active(i)
    BY <1>2, FirstFree DEF TakesSlot
  <2>2. Linked(remoteSystemLookup', remoteSystemLookup, from, i)
    BY <1>2, <2>1, RefLinksNewSlot DEF TakesSlot, Activate
  <2>3. /\ remoteSystemList'[i].systemAddress = from
        /\ \A j \in Slots \ {i} : remoteSystemList'[j] = remoteSystemList[j]
    BY <1>2, <2>1 DEF TakesSlot, Activate, TableInv, TableType
  <2>4. \A j \in Slots : Active(j) => remoteSystemList[j].systemAddress # from
    BY <1>2, NoAddressFound DEF TakesSlot
  <2> HIDE DEF i
  <2>5. ASSUME NEW j \in Slots, Active(j)'
        PROVE  j \in Links(remoteSystemLookup', Bucket[remoteSystemList'[j].systemAddress])
    <3>1. CASE j = i
      BY <3>1, <2>2, <2>3 DEF Linked, Buckets
    <3>2. CASE j # i
      <4>1. Active(j) /\ remoteSystemList'[j] = remoteSystemList[j]
        BY <3>2, <2>3, <2>5 DEF Active
      <4>2. Bucket[remoteSystemList[j].systemAddress] \in Buckets
        BY <4>1 DEF TableInv, Buckets
      <4>3. j \in Links(remoteSystemLookup, Bucket[remoteSystemList[j].systemAddress])
        BY <4>1 DEF FoundInv, AllLinked
      <4> QED
        BY <2>2, <4>1, <4>2, <4>3 DEF Linked
    <3> QED
      BY <3>1, <3>2
  <2>6. AddressesDistinct'
    BY <2>3, <2>4 DEF FoundInv, AddressesDistinct, Active
  <2> QED
    BY <2>5, <2>6 DEF FoundInv, AllLinked
<1>3. ~SomeChallengeRejected /\ ~SomeSystemRerouted
  BY DEF SomeChallengeRejected, RejectChallenge, SomeSystemRerouted
<1> QED
  BY <1>1, <1>2, <1>3, StepKinds DEF SomeSlotTaken

\* So they are at every moment.
LEMMA FoundInvHolds ==
  ASSUME Reroutes = {}, ~BadChallenges
  PROVE  Spec => []FoundInv
<1>1. Init => FoundInv
  BY DEF Init, FoundInv, AllLinked, AddressesDistinct, Active, Unused
<1>2. IInv /\ FoundInv /\ [Next]_vars => FoundInv'
  BY NextFoundInv
<1> QED
  BY <1>1, <1>2, InductiveInvariant, PTL DEF Spec

\* Then the assertions RefRemoteEndPoint begins with never fail: the lookup table
\* finds every active system by its address, whatever the hash function.
THEOREM ActiveStaysFound ==
  ASSUME Reroutes = {}, ~BadChallenges
  PROVE  Spec => []ActiveIsFound
<1>1. IInv /\ FoundInv => ActiveIsFound
  BY LinkedAreFound DEF IInv
<1> QED
  BY <1>1, InductiveInvariant, FoundInvHolds, PTL

\* Whoever has an active slot with its address and guid is found there by both ...
OwnersFound ==
  \A i \in Slots : Active(i) =>
     i \in SlotOf(remoteSystemList[i].systemAddress, remoteSystemList[i].guid)

LEMMA OwnerHasSlot == ActiveIsFound /\ GuidsDistinct => OwnersFound
<1> SUFFICES ASSUME ActiveIsFound, GuidsDistinct, NEW i \in Slots, Active(i)
             PROVE  i \in SlotOf(remoteSystemList[i].systemAddress, remoteSystemList[i].guid)
  BY DEF OwnersFound
<1>1. i \in BySystemAddress(remoteSystemList[i].systemAddress)
  BY DEF ActiveIsFound, BySystemAddress, Active
<1>2. i \in ByGuid(remoteSystemList[i].guid)
  <2>1. \A j \in Slots :
           remoteSystemList[j].guid = remoteSystemList[i].guid /\ remoteSystemList[j].isActive
             => j = i
    BY DEF GuidsDistinct, Active
  <2>2. i <= i
    BY SlotsAssumption DEF Slots
  <2> QED
    BY <2>1, <2>2 DEF ByGuid, Active
<1> QED
  BY <1>1, <1>2 DEF SlotOf

\* ... and the other way round.
LEMMA SlotHasOwner ==
  ASSUME TableInv, NEW from \in Addresses, NEW guid \in Guids, NEW i \in SlotOf(from, guid)
  PROVE  /\ i \in Slots /\ Active(i)
         /\ remoteSystemList[i].systemAddress = from /\ remoteSystemList[i].guid = guid
<1>1. /\ i \in Slots /\ Active(i) /\ remoteSystemList[i].guid = guid
      /\ GetRemoteSystemIndex(remoteSystemList, remoteSystemLookup, from) = i
  BY DEF SlotOf, BySystemAddress, ByGuid, Active
<1>2. i # -1
  BY <1>1, SlotsAssumption DEF Slots
<1> QED
  BY <1>1, <1>2, IndexIsLinked DEF TableInv, TableType

\* A new client may be let in while a slot is held by one not CONNECTED.
LEMMA RoomToAccept == CanAcceptIncomingConnection => Incoming # Slots
<1>1. Cardinality(Slots) = maxConnections
  BY SlotsAssumption, FS_Interval DEF Slots
<1> QED
  BY <1>1, SlotsAssumption DEF CanAcceptIncomingConnection

\* Once admitted, a client keeps its slot; REPLY_2 goes out without one only when none is free.
LEMMA NextAnswered ==
  ASSUME Reroutes = {}, ~BadChallenges, ~ConnectsOut, IInv, FoundInv, GuidsDistinct,
         AnsweredHasSlot, [Next]_vars
  PROVE  AnsweredHasSlot'
<1>1. OwnersFound'
  <2>1. TableInv' /\ FoundInv' /\ GuidsDistinct'
    BY NextIInv, NextFoundInv, NextGuidsDistinct DEF IInv
  <2>2. ActiveIsFound'
    BY <2>1, LinkedAreFound, PTL
  <2> QED
    BY <2>1, <2>2, OwnerHasSlot, PTL
<1>2. ASSUME NEW from \in Addresses, NEW guid \in Guids, SlotOf(from, guid) # {}
      PROVE  SlotOf(from, guid)' # {}
  <2>1. PICK i \in Slots : /\ Active(i) /\ remoteSystemList[i].systemAddress = from
                           /\ remoteSystemList[i].guid = guid
    BY <1>2, SlotHasOwner DEF IInv
  <2>2. /\ remoteSystemList'[i].isActive /\ remoteSystemList'[i].guid = guid
        /\ remoteSystemList'[i].systemAddress = from
    BY <2>1, NextIInv DEF Kept
  <2>3. i \in SlotOf(remoteSystemList[i].systemAddress, remoteSystemList[i].guid)'
    BY <1>1, <2>2 DEF OwnersFound, Active
  <2> QED
    BY <2>2, <2>3 DEF SlotOf, BySystemAddress, ByGuid
<1>3. ASSUME NEW c \in admitted PROVE SlotOf(c.from, c.guid)' # {}
  BY <1>2, <1>3 DEF IInv, AnsweredHasSlot
<1>4. ASSUME NEW from \in Addresses, NEW guid \in Guids, OnConnectionRequest2(from, guid)
      PROVE  AnsweredHasSlot'
  <2>1. ASSUME NEW ids, Answer(from, guid, ids),
               \/ "REPLY_2" \notin ids
               \/ SlotOf(from, guid)' # {}
               \/ Free = {} /\ Free' = {} /\ (Incoming # Slots)'
        PROVE  AnsweredHasSlot'
    <3>1. /\ reply'.to = from /\ reply'.guid = guid /\ reply'.ids = ids
          /\ \A c \in admitted' : \/ c \in admitted
                                  \/ /\ c = [from |-> from, guid |-> guid]
                                     /\ "REPLY_2" \in ids /\ Free # {}
      BY <2>1 DEF Answer
    <3>2. ASSUME NEW c \in admitted' PROVE SlotOf(c.from, c.guid)' # {}
      <4>1. CASE c \in admitted
        BY <1>3, <4>1
      <4>2. CASE c \notin admitted
        BY <2>1, <3>1, <4>2
      <4> QED
        BY <4>1, <4>2
    <3>3. "REPLY_2" \in ids /\ SlotOf(from, guid)' = {} => Free' = {} /\ (Incoming # Slots)'
      BY <2>1
    <3> QED
      BY <3>1, <3>2, <3>3 DEF AnsweredHasSlot, SlotOf, BySystemAddress, ByGuid
  <2>2. CASE IgnoreRequest2(from, guid)
    BY <2>1, <2>2 DEF IgnoreRequest2
  <2>3. CASE AlreadyConnected(from, guid)
    BY <2>1, <2>3 DEF AlreadyConnected
  <2>4. CASE CannotAccept(from, guid)
    BY <2>1, <2>4 DEF CannotAccept
  <2>5. CASE RejectChallenge(from, guid)
    BY <2>5 DEF RejectChallenge
  <2>6. CASE NoFreeSlot(from, guid)
    <3>1. Free = {} /\ Incoming # Slots
      BY <2>6, RoomToAccept DEF NoFreeSlot
    <3>2. Free' = {} /\ (Incoming # Slots)'
      BY <2>6, <3>1 DEF NoFreeSlot, Free, Incoming
    <3> QED
      BY <2>1, <2>6, <3>1, <3>2 DEF NoFreeSlot
  <2>7. CASE AnswerAgain(from, guid)
    <3>1. SlotOf(from, guid)' # {}
      BY <1>2, <2>7 DEF AnswerAgain, SlotOf
    <3> QED
      BY <2>1, <2>7, <3>1 DEF AnswerAgain
  <2>8. CASE Accept(from, guid)
    <3>1. PICK i \in Slots : i = First(Free)
      BY <2>8, FirstFree DEF Accept
    <3>2. /\ remoteSystemList'[i].systemAddress = from /\ remoteSystemList'[i].guid = guid
          /\ remoteSystemList'[i].isActive
      BY <2>8, <3>1 DEF Accept, Activate, IInv, TableInv, TableType
    <3>3. i \in SlotOf(remoteSystemList[i].systemAddress, remoteSystemList[i].guid)'
      BY <1>1, <3>1, <3>2 DEF OwnersFound, Active
    <3>4. SlotOf(from, guid)' # {}
      BY <3>2, <3>3 DEF SlotOf, BySystemAddress, ByGuid
    <3> QED
      BY <2>1, <2>8, <3>4 DEF Accept
  <2> QED
    BY <1>4, <2>2, <2>3, <2>4, <2>5, <2>6, <2>7, <2>8 DEF OnConnectionRequest2
<1>5. CASE UNCHANGED vars
  BY <1>5 DEF vars, AnsweredHasSlot, SlotOf, BySystemAddress, ByGuid, Free, Incoming
<1>6. CASE NoAnswer
  BY <1>3, <1>6 DEF NoAnswer, NoReply, AnsweredHasSlot
<1> QED
  BY <1>4, <1>5, <1>6 DEF Next, ConnectOut, SetConnectMode, ChangeSystemAddress, Age

\* A client that was sent REPLY_2 while a slot was free is found by address and by guid ever
\* after, and one that is sent it without getting a slot meets a full table with a system in
\* it that is not CONNECTED (AnsweredHasSlot): with security or without, for a server that
\* connects to nobody, reroutes nobody and meets no bad challenge.
THEOREM AnsweredHaveSlots ==
  ASSUME Reroutes = {}, ~BadChallenges, ~ConnectsOut
  PROVE  Spec => []AnsweredHasSlot
<1>1. Init => AnsweredHasSlot
  BY DEF Init, NoReply, AnsweredHasSlot
<1>2. IInv /\ FoundInv /\ GuidsDistinct /\ AnsweredHasSlot /\ [Next]_vars => AnsweredHasSlot'
  BY NextAnswered
<1>3. Spec => []GuidsDistinct
  BY GuidsStayDistinct
<1> QED
  BY <1>1, <1>2, <1>3, InductiveInvariant, FoundInvHolds, PTL DEF Spec
============================================================================
