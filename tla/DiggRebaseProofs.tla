--------------------------- MODULE DiggRebaseProofs ---------------------------
(***************************************************************************)
(* What is proved of the DIGG rebase and of the oracle it reads.  Of the   *)
(* median oracle, for any providers, payloads and settings: the whitelist  *)
(* and the report slots agree, a report never counts at the moment it is   *)
(* pushed, and what more than half of the providers report bounds the      *)
(* answer.  Of the rebase, for any timing of its windows and any token: a  *)
(* window sees one rebase at most, a window that saw none still takes one  *)
(* after its first second, and a rebase moves the supply towards its       *)
(* target.                                                                 *)
(***************************************************************************)
EXTENDS DiggRebase, Arithmetic

-----------------------------------------------------------------------------
(* The slots of the oracle *)

(* The step of one address replaces its slots and no one else's. *)
LEMMA SlotsType ==
  ASSUME OracleTypeOK, NEW p \in Addresses, NEW new \in [Slots -> Report],
         providerReports' = [providerReports EXCEPT ![p] = new]
  PROVE  /\ providerReports' \in [Addresses -> [Slots -> Report]]
         /\ providerReports'[p] = new
         /\ \A q \in Addresses \ {p} : providerReports'[q] = providerReports[q]
BY DEF OracleTypeOK

LEMMA IndexType ==
  ASSUME OracleTypeOK, NEW p \in Addresses
  PROVE  /\ IndexRecent(providerReports[p]) \in Slots
         /\ IndexPast(providerReports[p]) \in Slots
         /\ IndexPast(providerReports[p]) # IndexRecent(providerReports[p])
BY DEF IndexRecent, IndexPast, Slots

(* A push fills the past slot. *)
LEMMA PushSlots ==
  ASSUME OracleTypeOK, NEW p \in Addresses, NEW payload \in Payloads, PushReport(p, payload)
  PROVE  /\ providerReports' \in [Addresses -> [Slots -> Report]]
         /\ providerReports'[p][IndexPast(providerReports[p])].timestamp = now
         /\ providerReports'[p][IndexRecent(providerReports[p])]
              = providerReports[p][IndexRecent(providerReports[p])]
         /\ \A q \in Addresses \ {p} : providerReports'[q] = providerReports[q]
<1>. DEFINE reports == providerReports[p]
            past == IndexPast(reports)
            new == [reports EXCEPT ![past] = [timestamp |-> now, payload |-> payload]]
<1>1. past \in Slots /\ IndexRecent(reports) \in Slots /\ past # IndexRecent(reports)
  BY IndexType
<1>2. [timestamp |-> now, payload |-> payload] \in Report /\ reports \in [Slots -> Report]
  BY OracleAssumption DEF OracleTypeOK, Report
<1>3. new \in [Slots -> Report]
  BY <1>1, <1>2
<1>4. providerReports' = [providerReports EXCEPT ![p] = new]
  BY DEF PushReport
<1>. QED
  BY <1>1, <1>2, <1>3, <1>4, SlotsType

(* The other ways to write a slot. *)
LEMMA PurgeSlots ==
  ASSUME OracleTypeOK, NEW p \in Addresses, PurgeReports(p)
  PROVE  /\ providerReports' \in [Addresses -> [Slots -> Report]]
         /\ providerReports'[p][0].timestamp > 0
         /\ \A q \in Addresses \ {p} : providerReports'[q] = providerReports[q]
<1>. DEFINE reports == providerReports[p]
            new == [reports EXCEPT ![0].timestamp = 1, ![1].timestamp = 1]
<1>1. reports \in [Slots -> Report]
  BY DEF OracleTypeOK
<1>2. new \in [Slots -> Report] /\ new[0].timestamp = 1
  BY <1>1 DEF Report, Slots
<1>3. providerReports' = [providerReports EXCEPT ![p] = new]
  BY DEF PurgeReports, OracleTypeOK
<1>4. /\ providerReports' \in [Addresses -> [Slots -> Report]]
      /\ providerReports'[p] = new
      /\ \A q \in Addresses \ {p} : providerReports'[q] = providerReports[q]
  BY <1>2, <1>3, SlotsType
<1>5. providerReports'[p][0].timestamp > 0
  BY <1>2, <1>4
<1>. QED
  BY <1>4, <1>5

LEMMA AddSlots ==
  ASSUME OracleTypeOK, NEW p \in Addresses, AddProvider(p)
  PROVE  /\ providerReports' \in [Addresses -> [Slots -> Report]]
         /\ providerReports'[p][0].timestamp > 0
         /\ \A q \in Addresses \ {p} : providerReports'[q] = providerReports[q]
<1>. DEFINE reports == providerReports[p]
            new == [reports EXCEPT ![0].timestamp = 1]
<1>1. reports \in [Slots -> Report]
  BY DEF OracleTypeOK
<1>2. new \in [Slots -> Report] /\ new[0].timestamp = 1
  BY <1>1 DEF Report, Slots
<1>3. providerReports' = [providerReports EXCEPT ![p] = new]
  BY DEF AddProvider, OracleTypeOK
<1>4. /\ providerReports' \in [Addresses -> [Slots -> Report]]
      /\ providerReports'[p] = new
      /\ \A q \in Addresses \ {p} : providerReports'[q] = providerReports[q]
  BY <1>2, <1>3, SlotsType
<1>5. providerReports'[p][0].timestamp > 0
  BY <1>2, <1>4
<1>. QED
  BY <1>4, <1>5

LEMMA RemoveSlots ==
  ASSUME OracleTypeOK, NEW p \in Addresses, RemoveProvider(p)
  PROVE  /\ providerReports' \in [Addresses -> [Slots -> Report]]
         /\ \A s \in Slots : providerReports'[p][s].timestamp = 0
         /\ \A q \in Addresses \ {p} : providerReports'[q] = providerReports[q]
<1>1. NoReports \in [Slots -> Report] /\ \A s \in Slots : NoReports[s].timestamp = 0
  BY DEF NoReports, Report
<1>. QED
  BY <1>1, SlotsType DEF RemoveProvider

OracleInv == OracleTypeOK /\ Registered

LEMMA OracleInitially == OracleInit => OracleInv
<1>. SUFFICES ASSUME OracleInit PROVE OracleInv
  OBVIOUS
<1>1. NoReports \in [Slots -> Report] /\ \A s \in Slots : NoReports[s].timestamp = 0
  BY DEF NoReports, Report
<1>. QED
  BY <1>1, OracleAssumption DEF OracleInit, OracleInv, OracleTypeOK, Registered

LEMMA OracleInductive == OracleInv /\ [OracleNext]_reportVars => OracleInv'
<1>. SUFFICES ASSUME OracleInv, [OracleNext]_reportVars PROVE OracleInv'
  OBVIOUS
<1>. USE DEF OracleInv
<1>1. ASSUME NEW p \in Addresses, NEW payload \in Payloads, PushReport(p, payload)
      PROVE  OracleInv'
  <2>1. providerReports'[p][0].timestamp > 0
    <3>1. now > 0
      <4>1. providerReports[p][0].timestamp \in Nat /\ providerReports[p][1].timestamp \in Nat
        BY DEF OracleTypeOK, Report, Slots
      <4>. QED
        BY <1>1, <4>1, OracleAssumption
        DEF PushReport, IndexRecent, OracleTypeOK
    <3>2. 0 = IndexPast(providerReports[p]) \/ 0 = IndexRecent(providerReports[p])
      BY DEF IndexPast, IndexRecent
    <3>. QED
      BY <1>1, <3>1, <3>2, PushSlots DEF PushReport
  <2>2. p \in providers
    BY <1>1 DEF PushReport, Registered, Slots
  <2>3. UNCHANGED <<now, providers, settings>>
    BY <1>1 DEF PushReport
  <2>4. OracleTypeOK'
    BY <1>1, <2>3, PushSlots DEF OracleTypeOK, settings
  <2>5. Registered'
    BY <1>1, <2>1, <2>2, <2>3, PushSlots DEF Registered
  <2>. QED
    BY <2>4, <2>5
<1>2. ASSUME NEW p \in Addresses, PurgeReports(p)
      PROVE  OracleInv'
  <2>1. p \in providers
    BY <1>2 DEF PurgeReports, Registered, Slots
  <2>. QED
    BY ZenonT(30), <1>2, <2>1, PurgeSlots DEF PurgeReports, OracleTypeOK, Registered, settings
<1>3. ASSUME NEW p \in Addresses, AddProvider(p)
      PROVE  OracleInv'
  BY <1>3, AddSlots DEF AddProvider, OracleTypeOK, Registered, settings
<1>4. ASSUME NEW p \in Addresses, RemoveProvider(p)
      PROVE  OracleInv'
  BY <1>4, RemoveSlots DEF RemoveProvider, OracleTypeOK, Registered, settings
<1>5. ASSUME NEW s \in Expirations, SetReportExpirationTimeSec(s)
      PROVE  OracleInv'
  BY <1>5, OracleAssumption DEF SetReportExpirationTimeSec, OracleTypeOK, Registered
<1>6. ASSUME NEW s \in Delays, SetReportDelaySec(s)
      PROVE  OracleInv'
  BY <1>6 DEF SetReportDelaySec, OracleTypeOK, Registered
<1>7. ASSUME NEW n \in Minimums, SetMinimumProviders(n)
      PROVE  OracleInv'
  BY <1>7, OracleAssumption DEF SetMinimumProviders, OracleTypeOK, Registered
<1>8. CASE OracleTick \/ UNCHANGED reportVars
  BY <1>8 DEF OracleTick, reportVars, oracleVars, settings, OracleTypeOK, Registered
<1>. QED
  BY <1>1, <1>2, <1>3, <1>4, <1>5, <1>6, <1>7, <1>8 DEF OracleNext, OracleStep

LEMMA OracleInvariantHolds == OracleSpec => []OracleInv
BY OracleInitially, OracleInductive, PTL DEF OracleSpec

(* Every variable keeps its type. *)
THEOREM OracleTypeCorrect == OracleSpec => []OracleTypeOK
<1>1. OracleInv => OracleTypeOK
  BY DEF OracleInv
<1>. QED
  BY <1>1, OracleInvariantHolds, PTL

(* Whitelist and slots agree after any history of the oracle. *)
THEOREM RegisteredAlways == OracleSpec => []Registered
<1>1. OracleInv => Registered
  BY DEF OracleInv
<1>. QED
  BY <1>1, OracleInvariantHolds, PTL

-----------------------------------------------------------------------------
(* A push is delayed *)

(* The report it leaves in use is the one that was in use. *)
LEMMA PushKeepsUsed ==
  ASSUME OracleTypeOK, NEW p \in Addresses, NEW payload \in Payloads,
         PushReport(p, payload), reportDelaySec > 0
  PROVE  \A q \in Addresses : Used(q)' = Used(q)
<1>. DEFINE reports == providerReports[p]
            recent == IndexRecent(reports)
            past == IndexPast(reports)
<1>1. /\ now \in Nat /\ reportDelaySec \in Nat
      /\ UNCHANGED <<now, reportDelaySec>>
  BY OracleAssumption DEF OracleTypeOK, PushReport, settings
<1>2. /\ recent \in Slots /\ past = 1 - recent
      /\ reports[recent].timestamp \in Nat
  BY IndexType DEF IndexPast, OracleTypeOK, Report
<1>3. reports[recent].timestamp + reportDelaySec <= now
  BY DEF PushReport
<1>4. Used(p) = reports[recent]
  BY <1>1, <1>2, <1>3 DEF Used, Selected, TooRecent
<1>5. /\ providerReports'[p][past].timestamp = now
      /\ providerReports'[p][recent] = reports[recent]
      /\ \A q \in Addresses \ {p} : providerReports'[q] = providerReports[q]
  BY PushSlots
<1>6. IndexRecent(providerReports'[p]) = past
  BY <1>1, <1>2, <1>3, <1>5 DEF IndexRecent, Slots
<1>7. Selected(p)' = recent
  BY <1>1, <1>2, <1>5, <1>6 DEF Selected, TooRecent, IndexPast, Slots
<1>8. Used(p)' = Used(p)
  BY <1>4, <1>5, <1>7 DEF Used
<1>9. ASSUME NEW q \in Addresses \ {p} PROVE Used(q)' = Used(q)
  BY <1>1, <1>5, <1>9 DEF Used, Selected, TooRecent
<1>. QED
  BY <1>8, <1>9

(* The answer is a function of the reports in use, so it stays. *)
LEMMA SameAnswer ==
  ASSUME UNCHANGED <<Reporting, ValidReports, minimumProviders>>
  PROVE  GetData' = GetData
BY DEF GetData, Median, Sorted

(* No report counts at the moment it is pushed, whatever the provider      *)
(* pushed, purged or reported before.                                      *)
THEOREM PushAlwaysDelayed == OracleSpec => PushIsDelayed
<1>1. ASSUME OracleTypeOK, NEW p \in Addresses, NEW payload \in Payloads,
             PushReport(p, payload), reportDelaySec > 0
      PROVE  GetData' = GetData
  <2>1. \A q \in Addresses : Used(q)' = Used(q)
    BY <1>1, PushKeepsUsed
  <2>2. /\ providers \subseteq Addresses
        /\ UNCHANGED <<now, providers, settings>>
    BY <1>1 DEF OracleTypeOK, PushReport
  <2>3. Reporting' = Reporting
    BY <2>1, <2>2 DEF Reporting, TooOld, TooRecent, settings
  <2>4. ValidReports' = ValidReports
    BY <2>1, <2>2, <2>3 DEF ValidReports, Reporting
  <2>. QED
    BY <2>2, <2>3, <2>4, SameAnswer DEF settings
<1>. DEFINE Delayed == \A p \in Addresses, payload \in Payloads :
              PushReport(p, payload) /\ reportDelaySec > 0 => GetData' = GetData
<1>2. OracleTypeOK => [Delayed]_reportVars
  BY <1>1
<1>. QED
  BY <1>2, OracleTypeCorrect, PTL DEF PushIsDelayed
-----------------------------------------------------------------------------
(* Order statistics *)

AtMost(f, v) == {p \in DOMAIN f : f[p] <= v}
Below(f, v) == {p \in DOMAIN f : f[p] < v}

LEMMA Largest ==
  ASSUME NEW D, IsFiniteSet(D), D # {}, NEW f, \A p \in D : f[p] \in Nat
  PROVE  \E q \in D : \A p \in D : f[p] <= f[q]
<1>. DEFINE up(q) == {p \in D : f[p] >= f[q]}
            T == {up(q) : q \in D}
<1>1. PICK U \in T : \A y \in T : y \subseteq U => y = U
  <2>1. T \in SUBSET SUBSET D /\ T # {}
    OBVIOUS
  <2>. HIDE DEF T
  <2>. QED
    BY <2>1, LeastSubset
<1>2. PICK q \in D : U = up(q)
  OBVIOUS
<1>3. ASSUME NEW p \in D, ~(f[p] <= f[q]) PROVE FALSE
  <2>1. f[p] \in Nat /\ f[q] \in Nat
    OBVIOUS
  <2>2. up(p) \subseteq up(q) /\ q \notin up(p) /\ q \in up(q)
    BY <1>3, <2>1
  <2>. QED
    BY <1>1, <1>2, <2>2
<1>. QED
  BY <1>3

(* The entry at an index of the sorted values exists. *)
LEMMA SortedEntry ==
  ASSUME NEW D, IsFiniteSet(D), NEW f \in [D -> Nat], NEW n \in Nat, n < Cardinality(D)
  PROVE  /\ Sorted(f, n) \in Nat
         /\ Cardinality(Below(f, Sorted(f, n))) <= n
         /\ Cardinality(AtMost(f, Sorted(f, n))) > n
<1>. DEFINE T == {AtMost(f, f[q]) : q \in {q \in D : Cardinality(AtMost(f, f[q])) > n}}
<1>1. D # {}
  BY FS_EmptySet
<1>2. \A p \in D : f[p] \in Nat
  OBVIOUS
<1>3. T \in SUBSET SUBSET D
  BY DEF AtMost
<1>4. T # {}
  <2>1. PICK q \in D : \A p \in D : f[p] <= f[q]
    BY <1>1, <1>2, Largest
  <2>2. AtMost(f, f[q]) = D
    BY <2>1 DEF AtMost
  <2>. QED
    BY <2>2
<1>5. PICK U \in T : \A y \in T : y \subseteq U => y = U
  <2>. HIDE DEF T
  <2>. QED
    BY <1>3, <1>4, LeastSubset
<1>6. PICK q \in D : U = AtMost(f, f[q]) /\ Cardinality(AtMost(f, f[q])) > n
  OBVIOUS
<1>7. Cardinality(Below(f, f[q])) <= n
  <2>. DEFINE B == Below(f, f[q])
  <2>1. B \in SUBSET D /\ IsFiniteSet(B)
    BY FS_Subset DEF Below
  <2>2. CASE B = {}
    BY <2>2, FS_EmptySet
  <2>3. CASE B # {}
    <3>1. PICK b \in B : \A p \in B : f[p] <= f[b]
      BY <1>2, <2>1, <2>3, Largest
    <3>2. b \in D /\ f[b] < f[q] /\ f[b] \in Nat /\ f[q] \in Nat
      BY <3>1 DEF Below
    <3>3. AtMost(f, f[b]) = B
      BY <3>1, <3>2 DEF AtMost, Below
    <3>4. AtMost(f, f[b]) \subseteq U /\ AtMost(f, f[b]) # U
      BY <1>6, <3>2 DEF AtMost
    <3>5. AtMost(f, f[b]) \notin T
      BY <1>5, <3>4
    <3>6. ~(Cardinality(B) > n)
      BY <3>2, <3>3, <3>5
    <3>. QED
      BY <2>1, <3>6, FS_CardinalityType
  <2>. QED
    BY <2>2, <2>3
<1>. DEFINE Entry(v) == Cardinality({p \in DOMAIN f : f[p] < v}) <= n
                        /\ Cardinality({p \in DOMAIN f : f[p] <= v}) > n
<1>8. f[q] \in {f[p] : p \in DOMAIN f} /\ Entry(f[q])
  BY <1>6, <1>7 DEF AtMost, Below
<1>9. Sorted(f, n) = CHOOSE v \in {f[p] : p \in DOMAIN f} : Entry(v)
  BY DEF Sorted
<1>. HIDE DEF Entry
<1>10. Sorted(f, n) \in {f[p] : p \in DOMAIN f} /\ Entry(Sorted(f, n))
  BY <1>8, <1>9
<1>. QED
  BY <1>10 DEF Entry, AtMost, Below

(* More than n of them are not all below that entry, and more than those   *)
(* from n on are not all above it.                                         *)
LEMMA EntryBounds ==
  ASSUME NEW D, IsFiniteSet(D), NEW f \in [D -> Nat], NEW n \in Nat, n < Cardinality(D),
         NEW M \in SUBSET D
  PROVE  /\ Cardinality(M) > n => \E p \in M : f[p] >= Sorted(f, n)
         /\ Cardinality(M) >= Cardinality(D) - n => \E p \in M : f[p] <= Sorted(f, n)
<1>. DEFINE v == Sorted(f, n)
            A == AtMost(f, v)
            B == Below(f, v)
<1>1. v \in Nat /\ Cardinality(B) <= n /\ Cardinality(A) > n
  BY SortedEntry
<1>2. A \in SUBSET D /\ B \in SUBSET D
  BY DEF AtMost, Below
<1>3. /\ IsFiniteSet(A) /\ IsFiniteSet(B) /\ IsFiniteSet(M)
      /\ Cardinality(A) \in Nat /\ Cardinality(B) \in Nat /\ Cardinality(M) \in Nat
      /\ Cardinality(D) \in Nat
  BY <1>2, FS_Subset, FS_CardinalityType
<1>4. ASSUME Cardinality(M) > n, ~ \E p \in M : f[p] >= v PROVE FALSE
  <2>1. M \subseteq B
    BY <1>1, <1>4 DEF Below
  <2>2. Cardinality(M) <= Cardinality(B)
    BY <1>3, <2>1, FS_Subset
  <2>. QED
    BY <1>1, <1>3, <1>4, <2>2
<1>5. ASSUME Cardinality(M) >= Cardinality(D) - n, ~ \E p \in M : f[p] <= v PROVE FALSE
  <2>1. M \subseteq D \ A
    BY <1>1, <1>5 DEF AtMost
  <2>2. IsFiniteSet(D \ A) /\ Cardinality(D \ A) = Cardinality(D) - Cardinality(A)
    <3>1. D \cap A = A
      BY <1>2
    <3>. QED
      BY <3>1, FS_Difference
  <2>3. Cardinality(M) <= Cardinality(D \ A)
    BY <2>1, <2>2, FS_Subset
  <2>. QED
    BY <1>1, <1>3, <1>5, <2>2, <2>3
<1>. QED
  BY <1>4, <1>5

LEMMA SortedOrder ==
  ASSUME NEW D, IsFiniteSet(D), NEW f \in [D -> Nat], NEW m \in Nat, NEW n \in Nat,
         m <= n, n < Cardinality(D)
  PROVE  Sorted(f, m) <= Sorted(f, n)
<1>. DEFINE lo == Sorted(f, m)
            hi == Sorted(f, n)
<1>1. Cardinality(D) \in Nat /\ m < Cardinality(D)
  BY FS_CardinalityType
<1>2. /\ lo \in Nat /\ Cardinality(Below(f, lo)) <= m
      /\ hi \in Nat /\ Cardinality(AtMost(f, hi)) > n
  BY <1>1, SortedEntry
<1>. HIDE DEF lo, hi
<1>3. ASSUME hi < lo PROVE FALSE
  <2>1. AtMost(f, hi) \in SUBSET Below(f, lo) /\ Below(f, lo) \in SUBSET D
    BY <1>2, <1>3 DEF AtMost, Below
  <2>2. IsFiniteSet(Below(f, lo))
    BY <2>1, FS_Subset
  <2>3. Cardinality(AtMost(f, hi)) <= Cardinality(Below(f, lo))
    BY <2>1, <2>2, FS_Subset
  <2>4. Cardinality(Below(f, lo)) \in Nat /\ Cardinality(AtMost(f, hi)) \in Nat
    BY <2>1, <2>2, FS_Subset, FS_CardinalityType
  <2>. QED
    BY <1>2, <2>3, <2>4
<1>. QED
  BY <1>2, <1>3 DEF lo, hi

(* More than half of the reports have one on each side of the median. *)
LEMMA MajorityAround ==
  ASSUME NEW D, IsFiniteSet(D), D # {}, NEW f \in [D -> Nat], NEW M \in SUBSET D,
         2 * Cardinality(M) > Cardinality(D)
  PROVE  /\ \E p \in M : f[p] <= Median(f)
         /\ \E p \in M : f[p] >= Median(f)
         /\ Median(f) \in Nat
<1>. DEFINE size == Cardinality(D)
            k == size \div 2
<1>1. size \in Nat /\ size > 0 /\ Cardinality(M) \in Nat
  BY FS_EmptySet, FS_CardinalityType, FS_Subset
<1>2. DOMAIN f = D
  OBVIOUS
<1>3. CASE size % 2 = 1
  <2>1. Median(f) = Sorted(f, k)
    BY <1>2, <1>3 DEF Median
  <2>2. size = 2 * k + 1 /\ k \in Nat /\ k < size
    BY <1>1, <1>3
  <2>3. Cardinality(M) > k /\ Cardinality(M) >= size - k
    BY <1>1, <2>2
  <2>. HIDE DEF k
  <2>. QED
    BY <2>1, <2>2, <2>3, EntryBounds, SortedEntry
<1>4. CASE size % 2 = 0
  <2>. DEFINE hi == Sorted(f, k)
              lo == Sorted(f, k - 1)
  <2>1. Median(f) = (hi + lo) \div 2
    BY <1>2, <1>4 DEF Median
  <2>2. size = 2 * k /\ k \in Nat /\ k - 1 \in Nat /\ k < size /\ k - 1 < size /\ k - 1 <= k
    BY <1>1, <1>4
  <2>3. Cardinality(M) > k /\ Cardinality(M) >= size - (k - 1)
    BY <1>1, <2>2
  <2>. HIDE DEF k
  <2>4. /\ \E p \in M : f[p] >= hi
        /\ \E p \in M : f[p] <= lo
    BY <2>2, <2>3, EntryBounds
  <2>5. lo \in Nat /\ hi \in Nat /\ lo <= hi
    BY <2>2, SortedEntry, SortedOrder
  <2>. HIDE DEF hi, lo
  <2>6. lo <= Median(f) /\ Median(f) <= hi /\ Median(f) \in Nat
    BY <2>1, <2>5
  <2>7. \A p \in M : f[p] \in Nat
    OBVIOUS
  <2>. QED
    BY <2>4, <2>5, <2>6, <2>7
<1>. QED
  BY <1>1, <1>3, <1>4

LEMMA Answered ==
  ASSUME OracleTypeOK, GetData.valid
  PROVE  /\ IsFiniteSet(Reporting) /\ Reporting # {}
         /\ ValidReports \in [Reporting -> Nat]
         /\ GetData.value = Median(ValidReports)
<1>1. Reporting \in SUBSET Addresses /\ IsFiniteSet(Reporting)
  BY OracleAssumption, FS_Subset DEF Reporting, OracleTypeOK
<1>2. ~(Cardinality(Reporting) < minimumProviders) /\ GetData.value = Median(ValidReports)
  BY DEF GetData
<1>3. Reporting # {}
  BY <1>1, <1>2, OracleAssumption, FS_EmptySet DEF OracleTypeOK
<1>4. ASSUME NEW p \in Reporting PROVE Used(p).payload \in Nat
  <2>1. Selected(p) \in Slots
    BY <1>1, IndexType DEF Selected
  <2>. QED
    BY <1>1, <2>1 DEF Used, OracleTypeOK, Report
<1>. QED
  BY <1>1, <1>2, <1>3, <1>4 DEF ValidReports

LEMMA AnswerType ==
  ASSUME OracleTypeOK, GetData.valid
  PROVE  GetData.value \in Nat
<1>1. 2 * Cardinality(Reporting) > Cardinality(Reporting)
  BY Answered, FS_EmptySet, FS_CardinalityType
<1>. QED
  BY <1>1, Answered, MajorityAround

(* Whatever fewer than half of the reporting providers push, the answer    *)
(* stays between two values that others report.                            *)
THEOREM MajorityAlwaysBounds == OracleSpec => []MajorityBoundsTheMedian
<1>1. OracleTypeOK => MajorityBoundsTheMedian
  <2>. SUFFICES ASSUME OracleTypeOK, GetData.valid, NEW majority \in SUBSET Reporting,
                       2 * Cardinality(majority) > Cardinality(Reporting)
                PROVE  /\ \E p \in majority : Used(p).payload <= GetData.value
                       /\ \E p \in majority : Used(p).payload >= GetData.value
    BY DEF MajorityBoundsTheMedian
  <2>1. /\ \E p \in majority : ValidReports[p] <= Median(ValidReports)
        /\ \E p \in majority : ValidReports[p] >= Median(ValidReports)
    BY Answered, MajorityAround
  <2>. QED
    BY <2>1, Answered DEF ValidReports
<1>. QED
  BY <1>1, OracleTypeCorrect, PTL

-----------------------------------------------------------------------------
(* Windows *)

LEMMA DivMod ==
  ASSUME NEW t \in Nat, NEW c \in Nat, c > 0
  PROVE  /\ t \div c \in Nat /\ t % c \in Nat /\ t % c < c
         /\ t = (t \div c) * c + (t % c)
  OBVIOUS

(* More than an interval after the start of the window of r is past the    *)
(* interval of r.                                                          *)
LEMMA LaterDay ==
  ASSUME NEW t \in Nat, NEW r \in Nat, NEW c \in Nat, NEW o \in Nat, c > 0,
         r - (r % c) + o + c < t
  PROVE  t \div c > r \div c
<1>. DEFINE d == t \div c
            e == r \div c
<1>1. /\ d \in Nat /\ t % c \in Nat /\ t % c < c /\ t = d * c + (t % c)
      /\ e \in Nat /\ r % c \in Nat /\ r = e * c + (r % c)
  BY DivMod
<1>. HIDE DEF d, e
<1>2. d * c \in Nat /\ e * c \in Nat
  BY <1>1, MulNat
<1>3. e * c < d * c
  BY <1>1, <1>2
<1>4. ~(d <= e)
  BY <1>1, <1>2, <1>3, MulMono
<1>. QED
  BY <1>1, <1>4 DEF d, e

(* And past the same second of a later interval is more than an interval   *)
(* after it.                                                               *)
LEMMA LaterWindow ==
  ASSUME NEW t \in Nat, NEW r \in Nat, NEW c \in Nat, NEW o \in Nat, c > 0,
         t \div c > r \div c, t % c > o
  PROVE  r - (r % c) + o + c < t
<1>. DEFINE d == t \div c
            e == r \div c
<1>1. /\ d \in Nat /\ t % c \in Nat /\ t = d * c + (t % c) /\ d > e
      /\ e \in Nat /\ r % c \in Nat /\ r = e * c + (r % c)
  BY DivMod
<1>. HIDE DEF d, e
<1>2. d * c \in Nat /\ e * c \in Nat /\ (e + 1) * c = e * c + c
  BY <1>1, MulNat
<1>3. (e + 1) * c <= d * c
  BY <1>1, MulMono
<1>. QED
  BY <1>1, <1>2, <1>3

-----------------------------------------------------------------------------
(* The invariant *)

(* The time of the last rebase is the start of the window it was in.       *)
IInv ==
  /\ now \in Nat
  /\ timing \in Timings /\ Sound(timing)
  /\ lastRebaseTimestampSec \in Nat
  /\ rebasedAt \in Nat \cup {-1}
  /\ rebasedAt # -1 =>
       /\ rebasedAt <= now
       /\ lastRebaseTimestampSec = rebasedAt - (rebasedAt % timing.interval) + timing.offset

timeVars == <<timing, lastRebaseTimestampSec, rebasedAt>>

LEMMA TimingType ==
  ASSUME IInv
  PROVE  timing.interval \in Nat /\ timing.offset \in Nat /\ timing.interval > 0
BY PolicyAssumption DEF IInv, Sound

LEMMA Initially == Init => IInv
BY PolicyAssumption, OracleAssumption DEF Init, OracleInit, IInv

(* Only a rebase and a change of the timing touch the times, and no time   *)
(* runs backwards.                                                         *)
LEMMA OthersKeep ==
  ASSUME IInv, now' \in Nat, now' >= now, UNCHANGED timeVars
  PROVE  IInv'
BY DEF IInv, timeVars, Sound

LEMMA RebaseKeeps ==
  ASSUME IInv, NEW cpi \in Cpis, Rebase(cpi)
  PROVE  IInv'
<1>1. /\ timing' = timing /\ now' = now /\ rebasedAt' = now
      /\ lastRebaseTimestampSec' = now - (now % timing.interval) + timing.offset
  BY DEF Rebase, PolicyRebase, SnappedTime, TimeOfDay
<1>2. now - (now % timing.interval) \in Nat
  <2>1. /\ now = (now \div timing.interval) * timing.interval + (now % timing.interval)
        /\ now \div timing.interval \in Nat /\ now % timing.interval \in Nat
    BY TimingType, DivMod DEF IInv
  <2>2. (now \div timing.interval) * timing.interval \in Nat
    BY <2>1, TimingType, MulNat
  <2>. QED
    BY <2>1, <2>2 DEF IInv
<1>3. lastRebaseTimestampSec' \in Nat
  BY <1>1, <1>2, TimingType
<1>. QED
  BY <1>1, <1>3, TimingType DEF IInv, Sound

LEMMA Inductive == IInv /\ [Next]_vars => IInv'
<1>. SUFFICES ASSUME IInv, [Next]_vars PROVE IInv'
  OBVIOUS
<1>1. ASSUME SomeRebase PROVE IInv'
  BY <1>1, RebaseKeeps DEF SomeRebase
<1>2. ASSUME NEW t \in Timings, SetRebaseTimingParameters(t) PROVE IInv'
  BY <1>2 DEF SetRebaseTimingParameters, IInv, Sound, tokenVars, oracleVars
<1>3. CASE \/ \E t \in Thresholds : SetDeviationThreshold(t)
           \/ \E lag \in Lags : SetRebaseLag(lag)
  <2>1. UNCHANGED <<now, timeVars>>
    BY <1>3 DEF SetDeviationThreshold, SetRebaseLag, timeVars, chainVars
  <2>. QED
    BY <2>1, OthersKeep DEF IInv
<1>4. CASE \/ \E d \in Destinations : AddTransaction(d)
           \/ \E i \in 1..Len(transactions) :
                RemoveTransaction(i) \/ \E e \in BOOLEAN : SetTransactionEnabled(i, e)
           \/ \E d \in Destinations : Break(d)
  <2>1. UNCHANGED <<now, timeVars>>
    BY <1>4 DEF AddTransaction, RemoveTransaction, SetTransactionEnabled, SetTransactions,
                Break, timeVars, policyVars
  <2>. QED
    BY <2>1, OthersKeep DEF IInv
<1>5. CASE TokenStep
  <2>1. UNCHANGED <<now, timeVars>>
    BY <1>5 DEF TokenStep, timeVars, policyVars, chainVars
  <2>. QED
    BY <2>1, OthersKeep DEF IInv
<1>6. CASE OracleActs
  <2>1. UNCHANGED timeVars
    BY <1>6 DEF OracleActs, timeVars, policyVars, chainVars
  <2>2. now' = now
    BY <1>6 DEF OracleActs, OracleStep, PushReport, PurgeReports,
                AddProvider, RemoveProvider, SetReportExpirationTimeSec,
                SetReportDelaySec, SetMinimumProviders
  <2>. QED
    BY <2>1, <2>2, OthersKeep DEF IInv
<1>7. CASE Tick
  <2>1. now' = now + 1 /\ UNCHANGED timeVars
    BY <1>7 DEF Tick, OracleTick, timeVars, policyVars, chainVars
  <2>. QED
    BY <2>1, OthersKeep DEF IInv
<1>8. CASE UNCHANGED vars
  <2>1. UNCHANGED <<now, timeVars>>
    BY <1>8 DEF vars, timeVars, policyVars, chainVars
  <2>. QED
    BY <2>1, OthersKeep DEF IInv
<1>. QED
  BY <1>1, <1>2, <1>3, <1>4, <1>5, <1>6, <1>7, <1>8 DEF Next

LEMMA InvariantHolds == Spec => []IInv
BY Initially, Inductive, PTL DEF Spec

-----------------------------------------------------------------------------
(* The theorems *)

(* Only a rebase counts an epoch. *)
LEMMA OnlyRebasesCount ==
  ASSUME [Next]_vars, epoch' # epoch
  PROVE  SomeRebase
BY DEF Next, vars, policyVars, SetDeviationThreshold, SetRebaseLag, SetRebaseTimingParameters,
       AddTransaction, RemoveTransaction, SetTransactionEnabled, SetTransactions, Break,
       TokenStep, OracleActs, Tick

(* No window sees two rebases: rebase snaps its time to the start of the   *)
(* window, and a second call in it finds the interval not over.            *)
THEOREM RebasesOncePerWindow == Spec => OneRebasePerWindow
<1>1. IInv /\ [Next]_vars =>
        [epoch' # epoch => rebasedAt = -1 \/ Day(now) > Day(rebasedAt)]_vars
  <2>. SUFFICES ASSUME IInv, [Next]_vars, epoch' # epoch, rebasedAt # -1
                PROVE  Day(now) > Day(rebasedAt)
    OBVIOUS
  <2>1. lastRebaseTimestampSec + timing.interval < now
    BY OnlyRebasesCount DEF SomeRebase, Rebase, PolicyRebase, MinTimePassed
  <2>2. rebasedAt \in Nat /\ now \in Nat
        /\ lastRebaseTimestampSec = rebasedAt - (rebasedAt % timing.interval) + timing.offset
    BY DEF IInv
  <2>. QED
    BY <2>1, <2>2, TimingType, LaterDay DEF Day
<1>. QED
  BY <1>1, InvariantHolds, PTL DEF Spec, OneRebasePerWindow

(* And the snap never costs a window its rebase: past its first second,    *)
(* the check of the interval lets it through.                              *)
THEOREM WindowAlwaysOpens == Spec => []WindowOpens
<1>1. IInv => WindowOpens
  <2>. SUFFICES ASSUME IInv, rebasedAt >= 0, Day(now) > Day(rebasedAt), TimeOfDay > timing.offset
                PROVE  MinTimePassed
    BY DEF WindowOpens
  <2>1. rebasedAt \in Nat /\ now \in Nat
        /\ lastRebaseTimestampSec = rebasedAt - (rebasedAt % timing.interval) + timing.offset
    BY DEF IInv
  <2>. QED
    BY <2>1, TimingType, LaterWindow DEF Day, TimeOfDay, MinTimePassed
<1>. QED
  BY <1>1, InvariantHolds, PTL

-----------------------------------------------------------------------------
(* The direction of a rebase *)

(* The policy never sees a target rate above the highest market rate it     *)
(* counts: a market above such a target would be counted below it.          *)
TargetsCounted == \A cpi \in Cpis : TargetRate(cpi) <= MaxRate

(* The oracle is in order, and the supply never more than the one-time mint *)
(* above the token's cap.                                                   *)
SupplyInv ==
  /\ OracleInv
  /\ rebaseLag \in Nat \ {0}
  /\ totalSupply \in Nat \ {0}
  /\ totalSupply <= MaxSupply + (IF remDiggMint THEN MintAmount ELSE 0)

LEMMA QuotientBounds ==
  ASSUME NEW a \in Int, NEW b \in Nat, b > 0
  PROVE  /\ Quotient(a, b) \in Int
         /\ a >= 0 => /\ 0 <= Quotient(a, b) /\ Quotient(a, b) <= a
                      /\ Quotient(a, b) * b <= a
         /\ a <= 0 => /\ Quotient(a, b) <= 0 /\ a <= Quotient(a, b)
                      /\ a <= Quotient(a, b) * b
<1>1. ASSUME NEW n \in Nat
      PROVE  n \div b \in Nat /\ n \div b <= n /\ (n \div b) * b <= n
  <2>1. n \div b \in Nat /\ (n \div b) * b <= n
    BY FloorBounds
  <2>2. n <= n * b
    BY MulMono
  <2>. QED
    BY <2>1, <2>2, FloorAtMost
<1>2. CASE a >= 0
  <2>1. a \in Nat /\ Quotient(a, b) = a \div b
    BY <1>2 DEF Quotient
  <2>2. a <= 0 => a \div b = 0
    BY <1>1, <2>1
  <2>. QED
    BY <1>1, <2>1, <2>2
<1>3. CASE a < 0
  <2>. DEFINE q == (-a) \div b
  <2>1. -a \in Nat /\ Quotient(a, b) = -q
    BY <1>3 DEF Quotient
  <2>2. q \in Nat /\ q <= -a /\ q * b <= -a
    BY <1>1, <2>1
  <2>. HIDE DEF q
  <2>3. (-q) * b = -(q * b) /\ q * b \in Nat
    BY <2>2
  <2>. QED
    BY <1>3, <2>1, <2>2, <2>3
<1>. QED
  BY <1>2, <1>3

(* A market above the target: what is added, rounded twice and capped at a  *)
(* lower rate, keeps the supply below what would put the market on target.  *)
LEMMA Expands ==
  ASSUME NEW s \in Nat, NEW v \in Nat, NEW r \in Nat, NEW t \in Nat, NEW lag \in Nat,
         t > 0, lag > 0, t <= r, r <= v, NEW c \in {0, Quotient(s * (r - t), t)}
  PROVE  /\ Quotient(c, lag) \in Nat
         /\ s + Quotient(c, lag) <= (s * v) \div t
<1>1. s * (r - t) \in Nat /\ s * v \in Nat /\ s * t \in Nat /\ s * r \in Nat
  BY MulNat
<1>2. c \in Nat /\ c \in Int /\ c >= 0 /\ c * t <= s * (r - t)
  <2>1. CASE c = 0
    BY <1>1, <2>1
  <2>2. CASE c = Quotient(s * (r - t), t)
    <3>1. s * (r - t) \in Int /\ s * (r - t) >= 0
      BY <1>1
    <3>. QED
      BY <2>2, <3>1, QuotientBounds
  <2>. QED
    BY <2>1, <2>2
<1>. DEFINE d == Quotient(c, lag)
<1>3. d \in Nat /\ d <= c
  <2>1. d \in Int /\ 0 <= d /\ d <= c
    <3>. HIDE DEF d
    <3>1. c \in Int /\ c >= 0
      BY <1>2
    <3>. QED
      BY <3>1, QuotientBounds DEF d
  <2>. QED
    BY <2>1
<1>. HIDE DEF d
<1>4. d * t <= c * t /\ d * t \in Nat /\ c * t \in Nat
  BY <1>2, <1>3, MulMono, MulNat
<1>5. s * r <= s * v
  BY MulMono
<1>6. s * (r - t) = s * r - s * t /\ (s + d) * t = s * t + d * t
  BY <1>3
<1>7. (s + d) * t <= s * v
  BY <1>1, <1>2, <1>4, <1>5, <1>6
<1>. QED
  BY <1>1, <1>3, <1>7, FloorAtLeast DEF d

(* And one below the target: what is taken leaves at least that much.       *)
LEMMA Contracts ==
  ASSUME NEW s \in Nat, NEW v \in Nat, NEW t \in Nat, NEW lag \in Nat,
         t > 0, lag > 0, v < t, NEW c \in {0, Quotient(s * (v - t), t)}
  PROVE  /\ Quotient(c, lag) \in Int /\ Quotient(c, lag) <= 0
         /\ s + Quotient(c, lag) >= (s * v) \div t
         /\ (s * v) \div t <= s
<1>1. /\ s * v \in Nat /\ s * t \in Nat /\ s * (v - t) = s * v - s * t
  BY MulNat
<1>2. s * v <= s * t
  BY MulMono
<1>3. s * (v - t) \in Int /\ s * (v - t) <= 0
  BY <1>1, <1>2
<1>4. c \in Int /\ c <= 0 /\ s * (v - t) <= c * t
  BY <1>3, QuotientBounds
<1>. DEFINE d == Quotient(c, lag)
<1>5. d \in Int /\ d <= 0 /\ c <= d
  BY <1>4, QuotientBounds
<1>. HIDE DEF d
<1>6. c * t <= d * t /\ c * t \in Int /\ d * t \in Int
  BY <1>4, <1>5, MulMono
<1>7. (s + d) * t = s * t + d * t
  BY <1>5
<1>8. s * v <= (s + d) * t
  BY <1>1, <1>3, <1>4, <1>6, <1>7
<1>9. (s * v) \div t <= s + d /\ (s * v) \div t <= s
  BY <1>1, <1>2, <1>5, <1>8, FloorAtMost
<1>. QED
  BY <1>5, <1>9 DEF d

LEMMA TargetType ==
  ASSUME NEW cpi \in Cpis
  PROVE  TargetRate(cpi) \in Nat /\ TargetRate(cpi) > 0 /\ MaxRate \in Nat
<1>1. cpi \in Nat /\ Unit \in Nat /\ BaseCpi \in Nat /\ BaseCpi > 0 /\ MaxRate \in Nat
      /\ (cpi * Unit) \div BaseCpi > 0
  BY PolicyAssumption
<1>2. cpi * Unit \in Nat
  BY <1>1, MulNat
<1>. QED
  BY <1>1, <1>2, FloorBounds DEF TargetRate

LEMMA Answer ==
  ASSUME SupplyInv, GetData.valid
  PROVE  GetData.value \in Nat
BY AnswerType DEF SupplyInv, OracleInv

LEMMA Smallest ==
  ASSUME NEW a \in Int, NEW b \in Int
  PROVE  /\ Token!Smaller(a, b) \in {a, b}
         /\ Token!Smaller(a, b) <= a /\ Token!Smaller(a, b) <= b
BY DEF Token!Smaller

LEMMA SupplyRoom ==
  ASSUME SupplyInv
  PROVE  /\ MaxSupply \in Nat /\ PolicyMaxSupply \in Nat /\ MintAmount \in Nat
         /\ totalSupply <= PolicyMaxSupply
BY PolicyAssumption DEF SupplyInv, Token!TokenAssumption

(* The argument of the token's rebase, for a rate on either side.           *)
LEMMA DeltaType ==
  ASSUME SupplyInv, NEW v \in Nat, NEW t \in Nat, t > 0
  PROVE  SupplyDelta(v, t) \in Int
<1>. DEFINE r == Token!Smaller(v, MaxRate)
            c == ComputeSupplyDelta(r, t)
            d == Quotient(c, rebaseLag)
<1>1. r \in Int /\ totalSupply \in Nat /\ rebaseLag \in Nat /\ rebaseLag > 0
  BY PolicyAssumption, Smallest DEF SupplyInv
<1>2. totalSupply * (r - t) \in Int
  BY <1>1
<1>3. c \in Int
  BY <1>2, QuotientBounds DEF ComputeSupplyDelta
<1>4. d \in Int
  BY <1>1, <1>3, QuotientBounds
<1>. HIDE DEF d
<1>5. SupplyDelta(v, t) = IF d > 0 THEN Token!Smaller(d, PolicyMaxSupply - totalSupply) ELSE d
  BY DEF SupplyDelta, d
<1>. QED
  BY <1>1, <1>4, <1>5, SupplyRoom, Smallest

LEMMA DeltaAbove ==
  ASSUME SupplyInv, NEW v \in Nat, NEW t \in Nat, t > 0, t <= MaxRate, v >= t
  PROVE  SupplyDelta(v, t) \in Nat /\ totalSupply + SupplyDelta(v, t) <= (totalSupply * v) \div t
<1>. DEFINE r == Token!Smaller(v, MaxRate)
            c == ComputeSupplyDelta(r, t)
            d == Quotient(c, rebaseLag)
<1>1. r \in Nat /\ r <= v /\ t <= r /\ totalSupply \in Nat /\ rebaseLag \in Nat /\ rebaseLag > 0
  BY PolicyAssumption, Smallest DEF SupplyInv
<1>2. c \in {0, Quotient(totalSupply * (r - t), t)}
  BY DEF ComputeSupplyDelta
<1>. HIDE DEF r, c
<1>3. d \in Nat /\ totalSupply + d <= (totalSupply * v) \div t
  BY <1>1, <1>2, Expands
<1>. HIDE DEF d
<1>4. SupplyDelta(v, t) = IF d > 0 THEN Token!Smaller(d, PolicyMaxSupply - totalSupply) ELSE d
  BY DEF SupplyDelta, d, c, r
<1>5. SupplyDelta(v, t) \in Nat /\ SupplyDelta(v, t) <= d
  BY <1>1, <1>3, <1>4, SupplyRoom, Smallest
<1>6. totalSupply * v \in Nat
  BY <1>1, MulNat
<1>7. (totalSupply * v) \div t \in Nat
  BY <1>6, FloorBounds
<1>. QED
  BY <1>1, <1>3, <1>5, <1>7

LEMMA DeltaBelow ==
  ASSUME SupplyInv, NEW v \in Nat, NEW t \in Nat, t > 0, t <= MaxRate, v < t
  PROVE  /\ SupplyDelta(v, t) \in Int /\ SupplyDelta(v, t) <= 0
         /\ totalSupply + SupplyDelta(v, t) >= (totalSupply * v) \div t
         /\ (totalSupply * v) \div t <= totalSupply
<1>. DEFINE c == ComputeSupplyDelta(v, t)
            d == Quotient(c, rebaseLag)
<1>1. Token!Smaller(v, MaxRate) = v /\ totalSupply \in Nat /\ rebaseLag \in Nat /\ rebaseLag > 0
  BY PolicyAssumption DEF SupplyInv, Token!Smaller
<1>2. c \in {0, Quotient(totalSupply * (v - t), t)}
  BY DEF ComputeSupplyDelta
<1>. HIDE DEF c
<1>3. /\ d \in Int /\ d <= 0 /\ totalSupply + d >= (totalSupply * v) \div t
      /\ (totalSupply * v) \div t <= totalSupply
  BY <1>1, <1>2, Contracts
<1>. HIDE DEF d
<1>4. SupplyDelta(v, t) = IF d > 0 THEN Token!Smaller(d, PolicyMaxSupply - totalSupply) ELSE d
  BY <1>1 DEF SupplyDelta, d, c
<1>. QED
  BY <1>3, <1>4

(* What a rebase leaves the supply at. *)
LEMMA RebasedSupply ==
  ASSUME SupplyInv, NEW cpi \in Cpis, Rebase(cpi)
  PROVE  LET delta == SupplyDelta(GetData.value, TargetRate(cpi))
         IN  /\ delta \in Int
             /\ IF delta = 0 THEN totalSupply' = totalSupply
                ELSE /\ totalSupply' = Token!Smaller(totalSupply + delta, MaxSupply)
                     /\ totalSupply' > 0
<1>1. GetData.value \in Nat
  BY Answer DEF Rebase, PolicyRebase
<1>2. SupplyDelta(GetData.value, TargetRate(cpi)) \in Int
  BY <1>1, TargetType, DeltaType
<1>3. Token!Rebase(SupplyDelta(GetData.value, TargetRate(cpi)))
  BY DEF Rebase, PolicyRebase
<1>. QED
  BY <1>2, <1>3 DEF Token!Rebase, Token!Rebased, Token!rate

LEMMA SupplyInitially == Init => SupplyInv
<1>. SUFFICES ASSUME Init PROVE SupplyInv
  OBVIOUS
<1>1. OracleInv
  BY OracleInitially DEF Init
<1>2. totalSupply \in Nat \ {0} /\ totalSupply <= MaxSupply /\ remDiggMint = FALSE
  BY PolicyAssumption DEF Init, Token!Init, Token!TokenAssumption
<1>3. rebaseLag \in Nat \ {0}
  BY PolicyAssumption DEF Init
<1>. QED
  BY <1>1, <1>2, <1>3, PolicyAssumption DEF SupplyInv, Token!TokenAssumption

LEMMA SupplyInductive == SupplyInv /\ [Next]_vars => SupplyInv'
<1>. SUFFICES ASSUME SupplyInv, [Next]_vars PROVE SupplyInv'
  OBVIOUS
<1>. DEFINE supplyVars == <<rebaseLag, totalSupply, remDiggMint>>
<1>1. ASSUME UNCHANGED <<now, oracleVars>> PROVE OracleInv'
  <2>1. UNCHANGED reportVars
    BY <1>1 DEF reportVars
  <2>. QED
    BY <2>1, OracleInductive DEF SupplyInv
<1>2. ASSUME OracleInv', UNCHANGED supplyVars PROVE SupplyInv'
  BY <1>2 DEF SupplyInv
<1>3. CASE SomeRebase
  <2>1. PICK cpi \in Cpis : Rebase(cpi)
    BY <1>3 DEF SomeRebase
  <2>2. UNCHANGED <<now, oracleVars, rebaseLag, remDiggMint>>
    BY <2>1 DEF Rebase, PolicyRebase, Token!Rebase
  <2>3. totalSupply \in Nat \ {0} /\ MaxSupply \in Nat /\ MintAmount \in Nat
    BY SupplyRoom DEF SupplyInv
  <2>4. totalSupply' \in Nat \ {0} /\ (totalSupply' = totalSupply \/ totalSupply' <= MaxSupply)
    <3>. DEFINE delta == SupplyDelta(GetData.value, TargetRate(cpi))
    <3>1. /\ delta \in Int
          /\ IF delta = 0 THEN totalSupply' = totalSupply
             ELSE /\ totalSupply' = Token!Smaller(totalSupply + delta, MaxSupply)
                  /\ totalSupply' > 0
      BY <2>1, RebasedSupply
    <3>. HIDE DEF delta
    <3>2. totalSupply + delta \in Int
      BY <2>3, <3>1
    <3>3. delta # 0 => totalSupply' \in Int /\ totalSupply' <= MaxSupply
      BY <2>3, <3>1, <3>2, Smallest
    <3>. QED
      BY <2>3, <3>1, <3>3
  <2>. QED
    BY <1>1, <2>2, <2>3, <2>4 DEF SupplyInv
<1>4. CASE \E t \in Thresholds : SetDeviationThreshold(t)
  <2>1. UNCHANGED <<now, oracleVars>> /\ UNCHANGED supplyVars
    BY <1>4 DEF SetDeviationThreshold, tokenVars
  <2>. QED
    BY <1>1, <1>2, <2>1
<1>5. CASE \E lag \in Lags : SetRebaseLag(lag)
  <2>1. UNCHANGED <<now, oracleVars, totalSupply, remDiggMint>> /\ rebaseLag' \in Nat \ {0}
    BY <1>5, PolicyAssumption DEF SetRebaseLag, tokenVars
  <2>. QED
    BY <1>1, <2>1 DEF SupplyInv
<1>6. CASE \E t \in Timings : SetRebaseTimingParameters(t)
  <2>1. UNCHANGED <<now, oracleVars>> /\ UNCHANGED supplyVars
    BY <1>6 DEF SetRebaseTimingParameters, tokenVars
  <2>. QED
    BY <1>1, <1>2, <2>1
<1>7. CASE \/ \E d \in Destinations : AddTransaction(d)
           \/ \E i \in 1..Len(transactions) :
                RemoveTransaction(i) \/ \E e \in BOOLEAN : SetTransactionEnabled(i, e)
           \/ \E d \in Destinations : Break(d)
  <2>1. UNCHANGED <<now, oracleVars>> /\ UNCHANGED supplyVars
    BY <1>7 DEF AddTransaction, RemoveTransaction, SetTransactionEnabled, SetTransactions,
                Break, tokenVars, policyVars
  <2>. QED
    BY <1>1, <1>2, <2>1
<1>8. CASE TokenStep
  <2>1. UNCHANGED <<now, oracleVars, rebaseLag>> /\ Token!TokenStep
    BY <1>8 DEF TokenStep, policyVars
  <2>2. CASE Token!OneTimeMint
    BY <1>1, <2>1, <2>2, SupplyRoom DEF Token!OneTimeMint, SupplyInv
  <2>3. CASE ~Token!OneTimeMint
    <3>1. UNCHANGED <<totalSupply, remDiggMint>>
      BY <2>1, <2>3 DEF Token!TokenStep, Token!Transfer, Token!TransferFrom, Token!Approve,
                        Token!IncreaseAllowance, Token!DecreaseAllowance, Token!Allow,
                        Token!ToggleRebase, Token!rate
    <3>. QED
      BY <1>1, <1>2, <2>1, <3>1
  <2>. QED
    BY <2>2, <2>3
<1>9. CASE OracleActs \/ Tick
  <2>1. OracleNext /\ UNCHANGED supplyVars
    BY <1>9 DEF OracleActs, Tick, OracleNext, tokenVars, policyVars
  <2>2. OracleInv'
    BY <2>1, OracleInductive DEF SupplyInv
  <2>. QED
    BY <1>2, <2>1, <2>2
<1>10. CASE UNCHANGED vars
  <2>1. UNCHANGED <<now, oracleVars>> /\ UNCHANGED supplyVars
    BY <1>10 DEF vars, tokenVars, policyVars
  <2>. QED
    BY <1>1, <1>2, <2>1
<1>. QED
  BY <1>3, <1>4, <1>5, <1>6, <1>7, <1>8, <1>9, <1>10 DEF Next

LEMMA SupplyInvariant == Spec => []SupplyInv
BY SupplyInitially, SupplyInductive, PTL DEF Spec

(* Where a rebase may leave the supply. *)
Moves(cpi) ==
  LET goal == (totalSupply * GetData.value) \div TargetRate(cpi)
  IN  IF GetData.value >= TargetRate(cpi)
      THEN totalSupply' >= Token!Smaller(totalSupply, MaxSupply) /\ totalSupply' <= goal
      ELSE totalSupply' <= totalSupply /\ totalSupply' >= Token!Smaller(goal, MaxSupply)

(* A rebase moves the supply to the side the market is on, and two          *)
(* roundings, the lag and both caps never carry it past the target.         *)
THEOREM MovesTowardsTarget ==
  ASSUME TargetsCounted
  PROVE  Spec => TowardsTarget
<1>1. ASSUME SupplyInv, NEW cpi \in Cpis, Rebase(cpi)
      PROVE  Moves(cpi)
  <2>. DEFINE v == GetData.value
              t == TargetRate(cpi)
              delta == SupplyDelta(v, t)
              goal == (totalSupply * v) \div t
  <2>1. v \in Nat /\ t \in Nat /\ t > 0 /\ t <= MaxRate
    BY <1>1, Answer, TargetType DEF TargetsCounted, Rebase, PolicyRebase
  <2>2. totalSupply \in Nat /\ MaxSupply \in Nat
    BY <1>1, SupplyRoom DEF SupplyInv
  <2>3. /\ delta \in Int
        /\ IF delta = 0 THEN totalSupply' = totalSupply
           ELSE totalSupply' = Token!Smaller(totalSupply + delta, MaxSupply)
    BY <1>1, RebasedSupply
  <2>4. v >= t => delta \in Nat /\ totalSupply + delta <= goal
    BY <1>1, <2>1, DeltaAbove
  <2>5. v < t => delta <= 0 /\ totalSupply + delta >= goal /\ goal <= totalSupply
    BY <1>1, <2>1, DeltaBelow
  <2>6. goal \in Nat
    BY <2>1, <2>2, MulNat, FloorBounds
  <2>. HIDE DEF v, t, delta, goal
  <2>7. IF v >= t
        THEN totalSupply' >= Token!Smaller(totalSupply, MaxSupply) /\ totalSupply' <= goal
        ELSE totalSupply' <= totalSupply /\ totalSupply' >= Token!Smaller(goal, MaxSupply)
    BY <2>1, <2>2, <2>3, <2>4, <2>5, <2>6 DEF Token!Smaller
  <2>. QED
    BY <2>7 DEF v, t, goal, Moves
<1>2. SupplyInv /\ [Next]_vars => [\A cpi \in Cpis : Rebase(cpi) => Moves(cpi)]_vars
  BY <1>1
<1>. QED
  BY <1>2, SupplyInvariant, PTL DEF Spec, TowardsTarget, Moves
=============================================================================
