--------------------------- MODULE ContractsProofs ---------------------------
(***************************************************************************)
(* Theorems about the two contracts, for every set of receipts, images and  *)
(* accounts.                                                               *)
(***************************************************************************)
EXTENDS ValidiumRoots, IssuerRegistry, SequenceTheorems, TLAPS

Events == [event : {"appended", "updated"}, index : Nat, old : RootValues, new : RootValues]

RootsTypeOK ==
  /\ globalRoots \in Seq(RootValues)
  /\ log \in Seq(Events)

(* Events name indices of the list, so a new index has no history.          *)
RootsInv ==
  /\ RootsTypeOK
  /\ \A k \in DOMAIN log : log[k].index \in DOMAIN globalRoots
  /\ EventsTellRoots

(* LastRoot of any log. *)
LastIn(es, i, root, n) ==
  \E j \in 1..n : /\ es[j].index = i /\ es[j].new = root
                  /\ \A k \in (j + 1)..n : es[k].index # i

(* Only the events up to n count.                                          *)
LEMMA LastInPrefix ==
  ASSUME NEW s, NEW t, NEW n \in Nat, \A k \in 1..n : t[k] = s[k],
         NEW i, NEW root, LastIn(s, i, root, n)
  PROVE  LastIn(t, i, root, n)
<1>1. PICK j \in 1..n : /\ s[j].index = i /\ s[j].new = root
                        /\ \A k \in (j + 1)..n : s[k].index # i
  BY DEF LastIn
<1>2. \A k \in (j + 1)..n : k \in 1..n
  OBVIOUS
<1>3. QED
  BY <1>1, <1>2 DEF LastIn

(* An event about another index changes nothing.                           *)
LEMMA LastInOfOthers ==
  ASSUME NEW s, NEW t, NEW n \in Nat, \A k \in 1..n : t[k] = s[k],
         NEW i, NEW root, LastIn(s, i, root, n), t[n + 1].index # i
  PROVE  LastIn(t, i, root, n + 1)
<1>1. PICK j \in 1..n : /\ s[j].index = i /\ s[j].new = root
                        /\ \A k \in (j + 1)..n : s[k].index # i
  BY DEF LastIn
<1>2. \A k \in (j + 1)..(n + 1) : (k \in (j + 1)..n /\ k \in 1..n) \/ k = n + 1
  OBVIOUS
<1>3. j \in 1..(n + 1)
  OBVIOUS
<1>4. QED
  BY <1>1, <1>2, <1>3 DEF LastIn

(* The newest event is the last one for its own index.                     *)
LEMMA LastInOfNew ==
  ASSUME NEW t, NEW n \in Nat, NEW i, NEW root, t[n + 1].index = i, t[n + 1].new = root
  PROVE  LastIn(t, i, root, n + 1)
<1>1. n + 1 \in 1..(n + 1) /\ (n + 1 + 1)..(n + 1) = {}
  OBVIOUS
<1>2. QED
  BY <1>1 DEF LastIn

LEMMA EventsTellByLastIn ==
  EventsTellRoots <=>
    /\ \A i \in DOMAIN globalRoots : LastIn(log, i, globalRoots[i], Len(log))
    /\ \A k \in DOMAIN log :
         log[k].event = "updated" => LastIn(log, log[k].index, log[k].old, k - 1)
  BY DEF EventsTellRoots, LastRoot, LastIn

LEMMA RootsInitInv == RootsInit => RootsInv
  BY DEF RootsInit, RootsInv, RootsTypeOK, EventsTellRoots

LEMMA RootsStepInv == RootsInv /\ [RootsNext]_rootsVars => RootsInv'
<1> SUFFICES ASSUME RootsInv, [RootsNext]_rootsVars
             PROVE  RootsInv'
  OBVIOUS
<1> USE DEF RootsInv, RootsTypeOK
<1>1. CASE UNCHANGED <<globalRoots, log>>
  BY <1>1 DEF EventsTellRoots, LastRoot
<1>2. ASSUME NEW receipt \in Receipts, AppendRoot(receipt[2])
      PROVE  RootsInv'
  <2> DEFINE new == receipt[2][1]
             e == Appended(Len(globalRoots) + 1, new)
  <2>1. new \in RootValues
    BY <1>2, RootsAssumption DEF AppendRoot
  <2>2. /\ globalRoots' = Append(globalRoots, new)
        /\ log' = Append(log, e)
    BY <1>2 DEF AppendRoot
  <2>3. /\ e \in Events /\ e.index = Len(globalRoots) + 1 /\ e.new = new
        /\ e.event = "appended"
    BY <2>1 DEF Appended, Events
  <2> HIDE DEF new, e
  <2>4. /\ globalRoots' \in Seq(RootValues) /\ log' \in Seq(Events)
        /\ Len(globalRoots') = Len(globalRoots) + 1
        /\ Len(log') = Len(log) + 1
        /\ \A i \in DOMAIN globalRoots : globalRoots'[i] = globalRoots[i]
        /\ Len(log) \in Nat /\ DOMAIN log = 1..Len(log) /\ DOMAIN log' = 1..(Len(log) + 1)
        /\ \A k \in 1..Len(log) : log'[k] = log[k]
        /\ log'[Len(log) + 1] = e /\ globalRoots'[Len(globalRoots) + 1] = new
    BY <2>1, <2>2, <2>3
  <2>5. \A k \in DOMAIN log' : log'[k].index \in DOMAIN globalRoots'
    <3>1. DOMAIN globalRoots' = DOMAIN globalRoots \cup {Len(globalRoots) + 1}
      BY <2>4
    <3>2. DOMAIN log' = DOMAIN log \cup {Len(log) + 1}
      BY <2>4
    <3>3. QED
      BY <2>3, <2>4, <3>1, <3>2
  <2>6. ASSUME NEW i \in DOMAIN globalRoots'
        PROVE  LastIn(log', i, globalRoots'[i], Len(log'))
    <3>1. CASE i = Len(globalRoots) + 1
      BY <3>1, <2>3, <2>4, LastInOfNew
    <3>2. CASE i # Len(globalRoots) + 1
      <4>1. i \in DOMAIN globalRoots /\ e.index # i /\ globalRoots'[i] = globalRoots[i]
        BY <3>2, <2>3, <2>4
      <4>2. LastIn(log, i, globalRoots[i], Len(log))
        BY <4>1, EventsTellByLastIn
      <4>3. LastIn(log', i, globalRoots[i], Len(log) + 1)
        <5>1. log'[Len(log) + 1].index # i
          BY <4>1, <2>4
        <5>2. QED
          BY <4>2, <5>1, <2>4, LastInOfOthers
      <4>4. QED
        BY <4>1, <4>3, <2>4
    <3>3. QED
      BY <3>1, <3>2
  <2>7. ASSUME NEW k \in DOMAIN log', log'[k].event = "updated"
        PROVE  LastIn(log', log'[k].index, log'[k].old, k - 1)
    <3>1. k \in DOMAIN log /\ log'[k] = log[k]
      BY <2>3, <2>4, <2>7
    <3>2. LastIn(log, log[k].index, log[k].old, k - 1)
      BY <2>7, <3>1, EventsTellByLastIn
    <3>3. k - 1 \in Nat /\ \A m \in 1..(k - 1) : log'[m] = log[m]
      BY <3>1, <2>4
    <3>4. LastIn(log', log[k].index, log[k].old, k - 1)
      BY <3>2, <3>3, LastInPrefix
    <3>5. QED
      BY <3>1, <3>4
  <2>8. EventsTellRoots'
    BY <2>6, <2>7 DEF EventsTellRoots, LastRoot, LastIn
  <2>9. QED
    BY <2>4, <2>5, <2>8
<1>3. ASSUME NEW receipt \in Receipts, NEW x \in 1..Len(globalRoots), UpdateRoot(x, receipt[2])
      PROVE  RootsInv'
  <2> DEFINE old == receipt[2][1]
             new == receipt[2][2]
             e == Updated(x, old, new)
  <2>1. old \in RootValues /\ new \in RootValues
    BY <1>3, RootsAssumption DEF UpdateRoot
  <2>2. /\ globalRoots' = [globalRoots EXCEPT ![x] = new]
        /\ log' = Append(log, e)
        /\ x \in DOMAIN globalRoots /\ globalRoots[x] = old
    BY <1>3 DEF UpdateRoot
  <2>3. /\ e \in Events /\ e.index = x /\ e.new = new /\ e.old = old
    BY <2>1 DEF Updated, Events
  <2> HIDE DEF old, new, e
  <2>4. /\ globalRoots' \in Seq(RootValues) /\ log' \in Seq(Events)
        /\ DOMAIN globalRoots' = DOMAIN globalRoots
        /\ Len(log') = Len(log) + 1
        /\ \A i \in DOMAIN globalRoots : i # x => globalRoots'[i] = globalRoots[i]
        /\ Len(log) \in Nat /\ DOMAIN log = 1..Len(log) /\ DOMAIN log' = 1..(Len(log) + 1)
        /\ \A k \in 1..Len(log) : log'[k] = log[k]
        /\ log'[Len(log) + 1] = e /\ globalRoots'[x] = new
    BY <2>1, <2>2, <2>3
  <2>5. \A k \in DOMAIN log' : log'[k].index \in DOMAIN globalRoots'
    BY <2>2, <2>3, <2>4
  <2>6. ASSUME NEW i \in DOMAIN globalRoots'
        PROVE  LastIn(log', i, globalRoots'[i], Len(log'))
    <3>1. CASE i = x
      BY <3>1, <2>3, <2>4, LastInOfNew
    <3>2. CASE i # x
      <4>1. i \in DOMAIN globalRoots /\ e.index # i /\ globalRoots'[i] = globalRoots[i]
        BY <3>2, <2>3, <2>4
      <4>2. LastIn(log, i, globalRoots[i], Len(log))
        BY <4>1, EventsTellByLastIn
      <4>3. LastIn(log', i, globalRoots[i], Len(log) + 1)
        <5>1. log'[Len(log) + 1].index # i
          BY <4>1, <2>4
        <5>2. QED
          BY <4>2, <5>1, <2>4, LastInOfOthers
      <4>4. QED
        BY <4>1, <4>3, <2>4
    <3>3. QED
      BY <3>1, <3>2
  <2>7. ASSUME NEW k \in DOMAIN log', log'[k].event = "updated"
        PROVE  LastIn(log', log'[k].index, log'[k].old, k - 1)
    <3>0. k - 1 \in Nat /\ \A m \in 1..(k - 1) : log'[m] = log[m]
      BY <2>4
    <3>1. CASE k \in DOMAIN log
      <4>1. LastIn(log, log[k].index, log[k].old, k - 1) /\ log'[k] = log[k]
        BY <2>4, <2>7, <3>1, EventsTellByLastIn
      <4>2. LastIn(log', log[k].index, log[k].old, k - 1)
        BY <3>0, <4>1, LastInPrefix
      <4>3. QED
        BY <4>1, <4>2
    <3>2. CASE k \notin DOMAIN log
      <4>1. k - 1 = Len(log) /\ log'[k] = e
        BY <2>4, <3>2
      <4>2. LastIn(log, x, globalRoots[x], Len(log))
        BY <2>2, EventsTellByLastIn
      <4>3. LastIn(log', x, globalRoots[x], k - 1)
        BY <3>0, <4>1, <4>2, LastInPrefix
      <4>4. QED
        BY <4>1, <4>3, <2>2, <2>3
    <3>3. QED
      BY <3>1, <3>2
  <2>8. EventsTellRoots'
    BY <2>6, <2>7 DEF EventsTellRoots, LastRoot, LastIn
  <2>9. QED
    BY <2>4, <2>5, <2>8
<1>4. QED
  BY <1>1, <1>2, <1>3 DEF RootsNext, rootsVars, SetAppendImageId, SetUpdateImageId

(* The events tell the roots, from proven state to proven state, in every   *)
(* order of transactions (StateVerifier.sol:56-74).                        *)
THEOREM EventsAlwaysTellRoots == RootsSpec => []EventsTellRoots
<1>1. RootsInv => EventsTellRoots
  BY DEF RootsInv
<1>2. QED
  BY <1>1, RootsInitInv, RootsStepInv, PTL DEF RootsSpec

-----------------------------------------------------------------------------
Issuers == [name : Names \cup {""}, isApproved : BOOLEAN, isActive : BOOLEAN]

RegistryTypeOK ==
  /\ issuers \in [Addresses -> Issuers]
  /\ issuerAddresses \in Seq(Addresses)
  /\ collected \in Seq(Addresses)

RegistryInv == RegistryTypeOK /\ ListIsMapping /\ PagesComplete

LEMMA RegistryInitInv == RegistryInit => RegistryInv
<1> SUFFICES ASSUME RegistryInit PROVE RegistryInv
  OBVIOUS
<1>1. NoIssuer \in Issuers /\ ~NoIssuer.isActive
  BY DEF NoIssuer, Issuers
<1>2. RegistryTypeOK
  BY <1>1 DEF RegistryInit, RegistryTypeOK
<1>3. ListIsMapping
  BY <1>1 DEF RegistryInit, ListIsMapping
<1>4. collected = SubSeq(issuerAddresses, 1, Len(collected))
  BY DEF RegistryInit
<1>5. QED
  BY <1>2, <1>3, <1>4 DEF RegistryInit, RegistryInv, PagesComplete

(* The registered address is new to the list, and the pages read so far are *)
(* still its beginning.                                                    *)
LEMMA RegisterKeeps ==
  ASSUME RegistryInv, NEW a \in Addresses, NEW name \in Names, RegisterIssuer(a, name)
  PROVE  RegistryInv'
<1> DEFINE r == [name |-> name, isApproved |-> FALSE, isActive |-> TRUE]
<1>1. /\ issuers' = [issuers EXCEPT ![a] = r] /\ ~issuers[a].isActive
      /\ issuerAddresses' = Append(issuerAddresses, a)
      /\ complete' = FALSE /\ collected' = collected
  BY DEF RegisterIssuer
<1>2. r \in Issuers /\ r.isActive
  BY DEF Issuers
<1> HIDE DEF r
<1> USE DEF RegistryInv, RegistryTypeOK
<1>3. /\ issuerAddresses' \in Seq(Addresses)
      /\ Len(issuerAddresses) \in Nat /\ Len(issuerAddresses') = Len(issuerAddresses) + 1
      /\ DOMAIN issuerAddresses = 1..Len(issuerAddresses)
      /\ DOMAIN issuerAddresses' = 1..(Len(issuerAddresses) + 1)
      /\ \A k \in DOMAIN issuerAddresses : issuerAddresses'[k] = issuerAddresses[k]
      /\ issuerAddresses'[Len(issuerAddresses) + 1] = a
  BY <1>1
<1>4. RegistryTypeOK'
  BY <1>1, <1>2, <1>3
<1>5. \A k \in DOMAIN issuerAddresses : issuerAddresses[k] # a
  BY <1>1 DEF ListIsMapping
<1>6. ListIsMapping'
  <2>1. ASSUME NEW b \in Addresses
        PROVE  issuers'[b].isActive <=> \E k \in DOMAIN issuerAddresses' : issuerAddresses'[k] = b
    <3>1. CASE b = a
      <4>1. Len(issuerAddresses) + 1 \in DOMAIN issuerAddresses'
        BY <1>3
      <4>2. issuers'[b].isActive
        BY <1>1, <1>2, <3>1
      <4>3. QED
        BY <1>3, <3>1, <4>1, <4>2
    <3>2. CASE b # a
      <4>1. issuers'[b] = issuers[b]
        BY <1>1, <3>2
      <4>2. issuers[b].isActive <=> \E k \in DOMAIN issuerAddresses : issuerAddresses[k] = b
        BY DEF ListIsMapping
      <4>3. \A k \in DOMAIN issuerAddresses' :
              issuerAddresses'[k] = b => k \in DOMAIN issuerAddresses
        BY <1>3, <3>2
      <4>4. DOMAIN issuerAddresses \subseteq DOMAIN issuerAddresses'
        BY <1>3
      <4>5. QED
        BY <1>3, <4>1, <4>2, <4>3, <4>4
    <3>3. QED
      BY <3>1, <3>2
  <2>2. ASSUME NEW j \in DOMAIN issuerAddresses', NEW k \in DOMAIN issuerAddresses',
               issuerAddresses'[j] = issuerAddresses'[k]
        PROVE  j = k
    BY <1>3, <1>5, <2>2 DEF ListIsMapping
  <2>3. QED
    BY <2>1, <2>2 DEF ListIsMapping
<1>7. PagesComplete'
  <2>1. Len(collected) <= Len(issuerAddresses) /\ Len(collected) \in Nat
    BY DEF PagesComplete
  <2>2. SubSeq(issuerAddresses', 1, Len(collected)) = SubSeq(issuerAddresses, 1, Len(collected))
    BY <1>1, <1>3, <2>1
  <2>3. ~complete'
    BY <1>1
  <2>4. /\ Len(collected') <= Len(issuerAddresses')
        /\ collected' = SubSeq(issuerAddresses', 1, Len(collected'))
    BY <1>1, <1>3, <2>1, <2>2 DEF PagesComplete
  <2>5. QED
    BY <2>3, <2>4 DEF PagesComplete
<1>8. QED
  BY <1>4, <1>6, <1>7

(* A page is what follows in the list, up to its end if it is not full.     *)
LEMMA PageFollows ==
  ASSUME NEW n \in 0..Len(issuerAddresses), NEW limit \in Nat \ {0},
         issuerAddresses \in Seq(Addresses)
  PROVE  \E m \in n..Len(issuerAddresses) :
           /\ Page(n, limit) = SubSeq(issuerAddresses, n + 1, m)
           /\ m - n < limit => m = Len(issuerAddresses)
<1>1. CASE n = Len(issuerAddresses)
  <2>1. Page(n, limit) = <<>>
    BY <1>1 DEF Page
  <2>2. SubSeq(issuerAddresses, n + 1, n) = <<>>
    BY <1>1
  <2>3. QED
    BY <1>1, <2>1, <2>2
<1>2. CASE n < Len(issuerAddresses)
  <2> DEFINE size == PageSize(n, limit)
  <2>1. ~(n >= Len(issuerAddresses) \/ limit = 0)
    BY <1>2
  <2>2. Page(n, limit) = SubSeq(issuerAddresses, n + 1, n + size)
    BY <2>1 DEF Page
  <2>3. /\ size \in Nat /\ n + size \in n..Len(issuerAddresses)
        /\ size < limit => n + size = Len(issuerAddresses)
    BY <1>2 DEF PageSize
  <2> HIDE DEF size
  <2>4. n + size - n = size
    BY <2>3
  <2>5. QED
    BY <2>2, <2>3, <2>4
<1>3. QED
  BY <1>1, <1>2

(* Two adjacent pieces of a sequence are one piece.                        *)
LEMMA PiecesJoin ==
  ASSUME NEW s \in Seq(Addresses), NEW n \in 0..Len(s), NEW m \in n..Len(s)
  PROVE  SubSeq(s, 1, n) \o SubSeq(s, n + 1, m) = SubSeq(s, 1, m)
<1> DEFINE p == SubSeq(s, 1, n)
           q == SubSeq(s, n + 1, m)
           r == SubSeq(s, 1, m)
<1>1. /\ p \in Seq(Addresses) /\ Len(p) = n
      /\ q \in Seq(Addresses) /\ Len(q) = m - n
      /\ r \in Seq(Addresses) /\ Len(r) = m
  OBVIOUS
<1>2. /\ \A k \in 1..n : p[k] = s[k]
      /\ \A k \in 1..(m - n) : q[k] = s[n + k]
      /\ \A k \in 1..m : r[k] = s[k]
  OBVIOUS
<1> HIDE DEF p, q, r
<1>3. p \o q \in Seq(Addresses) /\ Len(p \o q) = m
  BY <1>1
<1>4. ASSUME NEW k \in 1..m
      PROVE  (p \o q)[k] = r[k]
  <2>1. CASE k <= n
    <3>1. k \in 1..n
      BY <2>1
    <3>2. (p \o q)[k] = p[k]
      BY <1>1, <3>1
    <3>3. QED
      BY <1>2, <3>1, <3>2
  <2>2. CASE k > n
    <3>1. k - n \in 1..(m - n) /\ n + (k - n) = k
      BY <2>2
    <3>2. (p \o q)[k] = q[k - n]
      BY <1>1, <2>2
    <3>3. QED
      BY <1>2, <3>1, <3>2
  <2>3. k <= n \/ k > n
    OBVIOUS
  <2>4. QED
    BY <2>1, <2>2, <2>3
<1>5. QED
  BY <1>1, <1>3, <1>4, SeqEqual DEF p, q, r

LEMMA ReadKeeps ==
  ASSUME RegistryInv, NEW limit \in Limits, ReadPage(limit)
  PROVE  RegistryInv'
<1> DEFINE page == Page(Len(collected), limit)
<1>1. /\ collected' = collected \o page /\ complete' = (Len(page) < limit)
      /\ issuers' = issuers /\ issuerAddresses' = issuerAddresses
      /\ limit # 0
  BY DEF ReadPage
<1>2. Len(collected) \in 0..Len(issuerAddresses) /\ limit \in Nat
  BY RegistryAssumption DEF RegistryInv, RegistryTypeOK, PagesComplete
<1>3. PICK m \in Len(collected)..Len(issuerAddresses) :
        /\ page = SubSeq(issuerAddresses, Len(collected) + 1, m)
        /\ m - Len(collected) < limit => m = Len(issuerAddresses)
  BY <1>1, <1>2, PageFollows DEF RegistryInv, RegistryTypeOK
<1> HIDE DEF page
<1>4. page \in Seq(Addresses) /\ Len(page) = m - Len(collected)
  BY <1>2, <1>3 DEF RegistryInv, RegistryTypeOK
<1>5. collected \o page = SubSeq(issuerAddresses, 1, m)
  BY <1>2, <1>3, PiecesJoin DEF RegistryInv, RegistryTypeOK, PagesComplete
<1>6. Len(collected') = m /\ collected' \in Seq(Addresses)
  BY <1>1, <1>2, <1>4 DEF RegistryInv, RegistryTypeOK
<1>7. ASSUME complete'
      PROVE  collected' = issuerAddresses
  <2>1. m = Len(issuerAddresses)
    BY <1>1, <1>3, <1>4, <1>7
  <2>2. SubSeq(issuerAddresses, 1, Len(issuerAddresses)) = issuerAddresses
    BY DEF RegistryInv, RegistryTypeOK
  <2>3. QED
    BY <1>1, <1>5, <2>1, <2>2
<1>8. PagesComplete'
  BY <1>1, <1>3, <1>5, <1>6, <1>7 DEF PagesComplete
<1>9. ListIsMapping'
  BY <1>1 DEF ListIsMapping, RegistryInv
<1>10. QED
  BY <1>1, <1>6, <1>8, <1>9 DEF RegistryInv, RegistryTypeOK

LEMMA RegistryStepInv == RegistryInv /\ [RegistryNext]_registryVars => RegistryInv'
<1> SUFFICES ASSUME RegistryInv, [RegistryNext]_registryVars
             PROVE  RegistryInv'
  OBVIOUS
<1>1. ASSUME NEW a \in Addresses, ApproveIssuer(a)
      PROVE  RegistryInv'
  <2> USE DEF RegistryInv, RegistryTypeOK
  <2>1. /\ issuers' = [issuers EXCEPT ![a] = [@ EXCEPT !.isApproved = TRUE]]
        /\ UNCHANGED <<issuerAddresses, collected, complete>>
    BY <1>1 DEF ApproveIssuer
  <2>2. issuers[a] \in Issuers
    OBVIOUS
  <2>3. /\ [issuers[a] EXCEPT !.isApproved = TRUE] \in Issuers
        /\ [issuers[a] EXCEPT !.isApproved = TRUE].isActive = issuers[a].isActive
    BY <2>2 DEF Issuers
  <2>4. issuers' \in [Addresses -> Issuers]
        /\ \A b \in Addresses : issuers'[b].isActive = issuers[b].isActive
    BY <2>1, <2>3
  <2>5. QED
    BY <2>1, <2>4 DEF ListIsMapping, PagesComplete
<1>2. CASE UNCHANGED registryVars
  BY <1>2 DEF registryVars, RegistryInv, RegistryTypeOK, ListIsMapping, PagesComplete
<1>3. QED
  BY <1>1, <1>2, RegisterKeeps, ReadKeeps DEF RegistryNext

LEMMA RegistryInvariance == RegistrySpec => []RegistryInv
<1>1. QED
  BY RegistryInitInv, RegistryStepInv, PTL DEF RegistrySpec

(* List and mapping agree (issuer.sol:24-42).                              *)
THEOREM ListIsAlwaysMapping == RegistrySpec => []ListIsMapping
<1>1. RegistryInv => ListIsMapping
  BY DEF RegistryInv
<1>2. QED
  BY <1>1, RegistryInvariance, PTL

(* Pages fit together while others register (issuer.sol:44-62).             *)
THEOREM PagesAlwaysComplete == RegistrySpec => []PagesComplete
<1>1. RegistryInv => PagesComplete
  BY DEF RegistryInv
<1>2. QED
  BY <1>1, RegistryInvariance, PTL

(* No transaction takes an approval or a name away (issuer.sol:24-42).      *)
THEOREM IssuersAlwaysKeep == RegistrySpec => IssuersKeep
<1> DEFINE Keeps == \A a \in Addresses : issuers[a].isActive =>
             /\ issuers'[a].isActive /\ issuers'[a].name = issuers[a].name
             /\ issuers[a].isApproved => issuers'[a].isApproved
<1>1. RegistryInv /\ [RegistryNext]_registryVars => [Keeps]_registryVars
  <2> SUFFICES ASSUME RegistryInv, RegistryNext PROVE [Keeps]_registryVars
    BY DEF Keeps
  <2> USE DEF RegistryInv, RegistryTypeOK
  <2>1. ASSUME NEW a \in Addresses, NEW name \in Names, RegisterIssuer(a, name)
        PROVE  Keeps
    <3>1. \A b \in Addresses \ {a} : issuers'[b] = issuers[b]
      BY <2>1 DEF RegisterIssuer
    <3>2. ~issuers[a].isActive
      BY <2>1 DEF RegisterIssuer
    <3>3. QED
      BY <3>1, <3>2
  <2>2. ASSUME NEW a \in Addresses, ApproveIssuer(a)
        PROVE  Keeps
    <3>1. \A b \in Addresses \ {a} : issuers'[b] = issuers[b]
      BY <2>2 DEF ApproveIssuer
    <3>2. issuers'[a] = [issuers[a] EXCEPT !.isApproved = TRUE] /\ issuers[a] \in Issuers
      BY <2>2 DEF ApproveIssuer
    <3>3. /\ issuers'[a].isActive = issuers[a].isActive
          /\ issuers'[a].name = issuers[a].name /\ issuers'[a].isApproved
      BY <3>2 DEF Issuers
    <3>4. QED
      BY <3>1, <3>3
  <2>3. ASSUME NEW limit \in Limits, ReadPage(limit)
        PROVE  Keeps
    BY <2>3 DEF ReadPage
  <2>4. QED
    BY <2>1, <2>2, <2>3 DEF RegistryNext
<1>2. QED
  BY <1>1, RegistryInvariance, PTL DEF RegistrySpec, IssuersKeep
=============================================================================
