----------------------------- MODULE MedianOracle -----------------------------
(***************************************************************************)
(* MedianOracle: the price every DIGG rebase reads, aggregated on chain    *)
(* from a whitelist of providers.  A provider has two report slots; a      *)
(* report becomes usable reportDelaySec after it was pushed and expires    *)
(* reportExpirationTimeSec after that push.  A timestamp of 0 marks an     *)
(* address that is no provider, 1 a slot that holds no report.             *)
(*                                                                         *)
(* The order of the provider array is not kept: a median has none.         *)
(***************************************************************************)
EXTENDS Integers, FiniteSets

CONSTANTS
  Addresses,        \* whoever may be made a provider
  Payloads,         \* values a provider reports
  Start, Horizon,   \* block times: Start..Horizon
  MaxExpiration,    \* MAX_REPORT_EXPIRATION_TIME
  Expirations,      \* arguments of setReportExpirationTimeSec
  Delays,           \* arguments of setReportDelaySec
  Minimums          \* arguments of setMinimumProviders

(* No chain is younger than MAX_REPORT_EXPIRATION_TIME, 520 weeks.          *)
ASSUME OracleAssumption ==
  /\ IsFiniteSet(Addresses)
  /\ Payloads \subseteq Nat
  /\ Start \in Nat /\ Horizon \in Nat /\ Start <= Horizon
  /\ MaxExpiration \in Nat /\ MaxExpiration + 1 < Start
  /\ Expirations \subseteq Nat /\ Minimums \subseteq Nat
  /\ Delays \subseteq 0..(Start - 2)

VARIABLES
  now,
  providers,
  providerReports,
  reportExpirationTimeSec,
  reportDelaySec,
  minimumProviders

settings == <<reportExpirationTimeSec, reportDelaySec, minimumProviders>>
oracleVars == <<providers, providerReports, settings>>
reportVars == <<now, oracleVars>>

Slots == {0, 1}
Report == [timestamp : Nat, payload : Nat]
NoReports == [s \in Slots |-> [timestamp |-> 0, payload |-> 0]]

OracleTypeOK ==
  /\ now \in Nat
  /\ providers \subseteq Addresses
  /\ providerReports \in [Addresses -> [Slots -> Report]]
  /\ reportExpirationTimeSec \in Expirations \cap 0..MaxExpiration
  /\ reportDelaySec \in Delays
  /\ minimumProviders \in Minimums \ {0}

OracleInit ==
  /\ now = Start
  /\ providers = {}
  /\ providerReports = [p \in Addresses |-> NoReports]
  /\ reportExpirationTimeSec \in Expirations \cap 0..MaxExpiration
  /\ reportDelaySec \in Delays
  /\ minimumProviders \in Minimums \ {0}

-----------------------------------------------------------------------------
(* Reading *)

IndexRecent(reports) == IF reports[0].timestamp >= reports[1].timestamp THEN 0 ELSE 1
IndexPast(reports) == 1 - IndexRecent(reports)

TooOld(report) == report.timestamp < now - reportExpirationTimeSec
TooRecent(report) == report.timestamp > now - reportDelaySec

(* The slot getData looks at: the recent one unless that is too recent. *)
Selected(p) ==
  LET reports == providerReports[p]
  IN  IF TooRecent(reports[IndexRecent(reports)]) THEN IndexPast(reports)
                                                   ELSE IndexRecent(reports)

Used(p) == providerReports[p][Selected(p)]

(* The providers whose report counts, and what each reports. *)
Reporting == {p \in providers : ~TooOld(Used(p)) /\ ~TooRecent(Used(p))}
ValidReports == [p \in Reporting |-> Used(p).payload]

(* The entry at index n, from 0, of the sorted values of f. *)
Sorted(f, n) ==
  CHOOSE v \in {f[p] : p \in DOMAIN f} :
    /\ Cardinality({p \in DOMAIN f : f[p] < v}) <= n
    /\ Cardinality({p \in DOMAIN f : f[p] <= v}) > n

Median_OfLowerHalf(f) == Sorted(f, 0)

(* Select.computeMedian *)
Median(f) ==
  LET size == Cardinality(DOMAIN f)
  IN  IF size % 2 = 1 THEN Sorted(f, size \div 2)
      ELSE (Sorted(f, size \div 2) + Sorted(f, (size \div 2) - 1)) \div 2

GetData ==
  IF Cardinality(Reporting) < minimumProviders
  THEN [value |-> 0, valid |-> FALSE]
  ELSE [value |-> Median(ValidReports), valid |-> TRUE]

-----------------------------------------------------------------------------
(* Writing *)

PushReport_OverRecent(p, payload) ==
  LET reports == providerReports[p]
      recent == IndexRecent(reports)
  IN
  /\ reports[0].timestamp > 0
  /\ reports[recent].timestamp + reportDelaySec <= now
  /\ providerReports' = [providerReports EXCEPT ![p][recent] =
                           [timestamp |-> now, payload |-> payload]]
  /\ UNCHANGED <<now, providers, settings>>

(* A new report overwrites the past one, not too soon after the recent one. *)
PushReport(p, payload) ==
  LET reports == providerReports[p]
      past == IndexPast(reports)
  IN
  /\ reports[0].timestamp > 0
  /\ reports[IndexRecent(reports)].timestamp + reportDelaySec <= now
  /\ providerReports' = [providerReports EXCEPT ![p][past] =
                           [timestamp |-> now, payload |-> payload]]
  /\ UNCHANGED <<now, providers, settings>>

PurgeReports(p) ==
  /\ providerReports[p][0].timestamp > 0
  /\ providerReports' = [providerReports EXCEPT ![p][0].timestamp = 1,
                                                ![p][1].timestamp = 1]
  /\ UNCHANGED <<now, providers, settings>>

AddProvider(p) ==
  /\ providerReports[p][0].timestamp = 0
  /\ providers' = providers \cup {p}
  /\ providerReports' = [providerReports EXCEPT ![p][0].timestamp = 1]
  /\ UNCHANGED <<now, settings>>

(* Of an address that is no provider it deletes what is not there. *)
RemoveProvider(p) ==
  /\ providers' = providers \ {p}
  /\ providerReports' = [providerReports EXCEPT ![p] = NoReports]
  /\ UNCHANGED <<now, settings>>

SetReportExpirationTimeSec(s) ==
  /\ s <= MaxExpiration
  /\ reportExpirationTimeSec' = s
  /\ UNCHANGED <<now, providers, providerReports, reportDelaySec, minimumProviders>>

SetReportDelaySec(s) ==
  /\ reportDelaySec' = s
  /\ UNCHANGED <<now, providers, providerReports, reportExpirationTimeSec, minimumProviders>>

SetMinimumProviders(n) ==
  /\ n > 0
  /\ minimumProviders' = n
  /\ UNCHANGED <<now, providers, providerReports, reportExpirationTimeSec, reportDelaySec>>

OracleTick ==
  /\ now < Horizon
  /\ now' = now + 1
  /\ UNCHANGED oracleVars

(* What anyone but time does to the oracle. *)
OracleStep ==
  \/ \E p \in Addresses :
       \/ \E payload \in Payloads : PushReport(p, payload)
       \/ PurgeReports(p)
       \/ AddProvider(p)
       \/ RemoveProvider(p)
  \/ \E s \in Expirations : SetReportExpirationTimeSec(s)
  \/ \E s \in Delays : SetReportDelaySec(s)
  \/ \E n \in Minimums : SetMinimumProviders(n)

OracleNext == OracleStep \/ OracleTick

OracleSpec == OracleInit /\ [][OracleNext]_reportVars

-----------------------------------------------------------------------------
(* Properties *)

(* The whitelist and the reports agree on who is a provider: slot 0 of a   *)
(* provider is marked, and whoever is none has no report left over, through *)
(* any order of adding, removing, pushing and purging.                     *)
Registered ==
  \A p \in Addresses :
    IF p \in providers THEN providerReports[p][0].timestamp > 0
                       ELSE \A s \in Slots : providerReports[p][s].timestamp = 0

(* A pushed report waits out its delay: at the moment it is pushed the     *)
(* oracle still answers what it answered before.  In particular the report *)
(* it overwrites was not the one being used.                               *)
PushIsDelayed ==
  [][\A p \in Addresses, payload \in Payloads :
       PushReport(p, payload) /\ reportDelaySec > 0 => GetData' = GetData]_reportVars

(* More than half of the providers that report bound the answer between    *)
(* the values they report, whatever the others report.                     *)
MajorityBoundsTheMedian ==
  GetData.valid =>
    \A majority \in SUBSET Reporting :
      2 * Cardinality(majority) > Cardinality(Reporting) =>
        /\ \E p \in majority : Used(p).payload <= GetData.value
        /\ \E p \in majority : Used(p).payload >= GetData.value
=============================================================================
