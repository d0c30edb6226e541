----------------------- MODULE FindingLifecycleProofs -----------------------
(***************************************************************************)
(* Proofs about findings: what the rules derive, that the SQL expression   *)
(* for the risk score agrees with the function it stands for, and the      *)
(* invariants of the lifecycle for any number of workers and requests.     *)
(***************************************************************************)
EXTENDS FindingLifecycle, FiniteSetTheorems, TLAPS

-----------------------------------------------------------------------------
(* The rules.                                                              *)

LEMMA PushedDraft ==
  ASSUME NEW drafts \in Seq(Rules), NEW rule \in Rules,
         \A i, j \in DOMAIN drafts : drafts[i] = drafts[j] => i = j,
         \A i \in DOMAIN drafts : drafts[i] # rule
  PROVE  /\ Append(drafts, rule) \in Seq(Rules)
         /\ \A i, j \in DOMAIN Append(drafts, rule) :
              Append(drafts, rule)[i] = Append(drafts, rule)[j] => i = j
OBVIOUS

LEMMA NoDraft == <<>> \in Seq(Rules) /\ DOMAIN <<>> = {}
OBVIOUS

LEMMA FirstDraft ==
  ASSUME NEW rule \in Rules
  PROVE  /\ Append(<<>>, rule) \in Seq(Rules)
         /\ \A i \in DOMAIN Append(<<>>, rule) :
              i = 1 /\ Append(<<>>, rule)[i] = rule
<1>1. <<>> \in Seq(Rules) /\ Len(<<>>) = 0
  OBVIOUS
<1> DEFINE empty == <<>>
<1>2. empty \in Seq(Rules) /\ Len(empty) = 0
  BY <1>1
<1> HIDE DEF empty
<1>3. /\ Append(empty, rule) \in Seq(Rules)
      /\ \A i \in DOMAIN Append(empty, rule) :
           i = 1 /\ Append(empty, rule)[i] = rule
  BY <1>2
<1> QED BY <1>3 DEF empty

(* Every finding derived from a scan's evidence has a known rule, so that  *)
(* draft_from_rule's lookup never panics, and none is derived twice from   *)
(* the same evidence, so that one result counts at most once.              *)
THEOREM DraftsCorrect ==
  ASSUME NEW e \in Evidence
  PROVE  /\ DeriveFindings(e) \in Seq(Rules)
         /\ \A i, j \in DOMAIN DeriveFindings(e) :
              DeriveFindings(e)[i] = DeriveFindings(e)[j] => i = j
<1>1. CASE e \in [kind : {"dns_baseline"}, addresses : SUBSET {"A", "AAAA"}]
  <2>1. DeriveFindings(e) = DnsBaselineDrafts(e)
    BY <1>1 DEF DeriveFindings
  <2>2. CASE e.addresses = {}
    BY <2>1, <2>2 DEF DnsBaselineDrafts, Rules
  <2>3. CASE e.addresses # {}
    <3> DEFINE d == <<"dns_public_address_observed">>
    <3>1. /\ d \in Seq(Rules)
          /\ \A i, j \in DOMAIN d : d[i] = d[j] => i = j
          /\ \A i \in DOMAIN d : d[i] # "dns_ipv6_address_observed"
          /\ "dns_ipv6_address_observed" \in Rules
      BY DEF Rules
    <3>2. \/ DeriveFindings(e) = d
          \/ DeriveFindings(e) = Append(d, "dns_ipv6_address_observed")
      BY <2>1, <2>3 DEF DnsBaselineDrafts, PushIf
    <3> HIDE DEF d
    <3>3. /\ Append(d, "dns_ipv6_address_observed") \in Seq(Rules)
          /\ \A i, j \in DOMAIN Append(d, "dns_ipv6_address_observed") :
               Append(d, "dns_ipv6_address_observed")[i]
                 = Append(d, "dns_ipv6_address_observed")[j] => i = j
      BY <3>1, PushedDraft
    <3> QED BY <3>1, <3>2, <3>3
  <2> QED BY <2>2, <2>3
<1>2. CASE e \in [kind : {"http_probe"}, error : BOOLEAN, hsts : BOOLEAN]
  <2>1. DeriveFindings(e) = HttpProbeDrafts(e)
    BY <1>2 DEF DeriveFindings
  <2>2. \/ DeriveFindings(e) = <<"http_endpoint_unreachable">>
        \/ DeriveFindings(e) = <<>>
        \/ DeriveFindings(e) = Append(<<>>, "http_missing_hsts")
    BY <2>1 DEF HttpProbeDrafts, PushIf
  <2>3. /\ <<"http_endpoint_unreachable">> \in Seq(Rules)
        /\ "http_missing_hsts" \in Rules
    BY DEF Rules
  <2>4. CASE DeriveFindings(e) = Append(<<>>, "http_missing_hsts")
    BY <2>3, <2>4, FirstDraft
  <2>5. CASE DeriveFindings(e) = <<"http_endpoint_unreachable">>
    BY <2>3, <2>5
  <2>6. CASE DeriveFindings(e) = <<>>
    <3>1. DeriveFindings(e) \in Seq(Rules) /\ DOMAIN DeriveFindings(e) = {}
      BY <2>6, NoDraft
    <3> QED BY <3>1
  <2> QED BY <2>2, <2>4, <2>5, <2>6
<1>3. CASE e \in [kind : {"dns_policy"}, dmarc : BOOLEAN, spf : BOOLEAN]
  <2> DEFINE d == PushIf(<<>>, ~e.dmarc, "dns_missing_dmarc")
  <2>1. \/ DeriveFindings(e) = d
        \/ DeriveFindings(e) = Append(d, "dns_missing_spf")
    <3>1. DeriveFindings(e) = DnsPolicyDrafts(e)
      BY <1>3 DEF DeriveFindings
    <3> QED BY <3>1 DEF DnsPolicyDrafts, PushIf
  <2>2. /\ d \in Seq(Rules)
        /\ \A i, j \in DOMAIN d : d[i] = d[j] => i = j
        /\ \A i \in DOMAIN d : d[i] # "dns_missing_spf"
        /\ "dns_missing_spf" \in Rules
    <3>1. d = <<>> \/ d = Append(<<>>, "dns_missing_dmarc")
      BY DEF PushIf
    <3>2. "dns_missing_dmarc" \in Rules /\ "dns_missing_spf" \in Rules
      BY DEF Rules
    <3>3. CASE d = <<>>
      <4> HIDE DEF d
      <4>1. d \in Seq(Rules) /\ DOMAIN d = {}
        BY <3>3, NoDraft
      <4> QED BY <4>1, <3>2
    <3>4. CASE d = Append(<<>>, "dns_missing_dmarc")
      <4> HIDE DEF d
      <4> QED BY <3>2, <3>4, FirstDraft
    <3> QED BY <3>1, <3>3, <3>4
  <2> HIDE DEF d
  <2>3. /\ Append(d, "dns_missing_spf") \in Seq(Rules)
        /\ \A i, j \in DOMAIN Append(d, "dns_missing_spf") :
             Append(d, "dns_missing_spf")[i] = Append(d, "dns_missing_spf")[j]
               => i = j
    BY <2>2, PushedDraft
  <2> QED BY <2>1, <2>2, <2>3
<1> QED BY <1>1, <1>2, <1>3 DEF Evidence

LEMMA RatedRules ==
  ASSUME NEW k \in Rules
  PROVE  SeverityOf(k) \in RiskSeverities /\ ConfidenceOf(k) \in RiskConfidences
BY DEF Rules, SeverityOf, ConfidenceOf, RiskSeverities, RiskConfidences

-----------------------------------------------------------------------------
(* The risk score.                                                         *)

LEMMA PointsType ==
  ASSUME NEW s \in RiskSeverities, NEW c \in RiskConfidences
  PROVE  SeverityPoints[s] \in 5 .. 90 /\ ConfidencePoints[c] \in 0 .. 10
BY DEF RiskSeverities, RiskConfidences, SeverityPoints, ConfidencePoints

(* The score an upsert builds on the old count in SQL is the one           *)
(* calculate_finding_risk_score gives for the new count: the two caps, at  *)
(* 20 points of recurrence and at 100, never make a difference.            *)
THEOREM ScoreOnceMore ==
  ASSUME NEW s \in RiskSeverities, NEW c \in RiskConfidences, NEW n \in Nat \ {0}
  PROVE  UpsertedRiskScore(s, c, n)
           = CalculateFindingRiskScore(s, c, n + 1, 0, TRUE)
BY PointsType DEF UpsertedRiskScore, DraftRiskScore,
     CalculateFindingRiskScore, Least, AgePoints

(* Every score a finding can get is a percentage.                          *)
LEMMA ScoreType ==
  ASSUME NEW s \in RiskSeverities, NEW c \in RiskConfidences, NEW n \in Nat
  PROVE  UpsertedRiskScore(s, c, n) \in 0 .. 100 /\ DraftRiskScore(s, c) \in 0 .. 100
BY PointsType DEF UpsertedRiskScore, DraftRiskScore,
     CalculateFindingRiskScore, Least, AgePoints

-----------------------------------------------------------------------------
(* The lifecycle.                                                          *)

(* A request about to move a finding has just moved a task of it.          *)
StatementsAgree ==
  \A x \in Actors : next[x] = "finding" =>
    /\ x \in Requests
    /\ at[x] \in Rules /\ goal[x] \in FindingStatuses /\ latest[at[x]] # {}

(* Findings that have been detected are there; only those have tasks.      *)
RowsAgree ==
  /\ \A k \in Rules : status[k] = "absent" <=> occurrences[k] = 0
  /\ \A t \in Tasks : taskOf[t] # "none" => status[taskOf[t]] # "absent"
  /\ \A k \in Rules : latest[k] # {} => status[k] # "absent"

IInv == TypeOK /\ StatementsAgree /\ RowsAgree

LEMMA StatusFacts ==
  /\ "absent" \notin FindingStatuses
  /\ "none" \notin Rules
  /\ \A s \in FindingStatuses \cup {"absent"} : DetectedStatus(s) \in FindingStatuses
  /\ \A s \in TaskStatuses : FindingStatusFor(s) \in FindingStatuses
BY DEF FindingStatuses, Rules, TaskStatuses, DetectedStatus, FindingStatusFor

LEMMA InvInit == Init => IInv
<1> SUFFICES ASSUME Init PROVE IInv
  OBVIOUS
<1> USE FindingLifecycleAssumption
<1>1. results \in Seq(Evidence) /\ todo \in [Actors -> Seq(Rules)]
  BY DEF Init
<1>2. resolvedAt \in [Rules -> BOOLEAN]
  BY DEF Init
<1>3. TypeOK
  BY <1>1, <1>2 DEF Init, TypeOK
<1> QED BY <1>3 DEF Init, IInv, StatementsAgree, RowsAgree

(* What an upsert does to the finding it is about.                         *)
LEMMA UpsertFacts ==
  ASSUME IInv, NEW x \in Actors, UpsertFinding(x)
  PROVE  \E k \in Rules :
           /\ k = Head(todo[x])
           /\ todo' = [todo EXCEPT ![x] = Tail(todo[x])]
           /\ Tail(todo[x]) \in Seq(Rules)
           /\ status' = [status EXCEPT ![k] = DetectedStatus(status[k])]
           /\ occurrences[k] + 1 \in 1 .. MaxDetections
           /\ occurrences' = [occurrences EXCEPT ![k] = occurrences[k] + 1]
           /\ risk' = [risk EXCEPT ![k] = RiskOnceMore(k)]
           /\ RiskOnceMore(k) \in 0 .. 100
           /\ UNCHANGED <<results, resolvedAt, taskVars, next, at, goal, owed>>
<1>1. /\ todo[x] \in Seq(Rules) /\ todo[x] # <<>>
      /\ occurrences \in [Rules -> 0 .. MaxDetections]
      /\ MaxDetections \in Nat
  BY FindingLifecycleAssumption DEF IInv, TypeOK, UpsertFinding
<1> DEFINE k == Head(todo[x])
<1>2. k \in Rules /\ Tail(todo[x]) \in Seq(Rules)
  BY <1>1
<1>3. RiskOnceMore(k) \in 0 .. 100
  <2>1. SeverityOf(k) \in RiskSeverities /\ ConfidenceOf(k) \in RiskConfidences
    BY <1>2, RatedRules
  <2>2. occurrences[k] \in Nat
    BY <1>1, <1>2
  <2> QED BY <2>1, <2>2, ScoreType DEF RiskOnceMore
<1>4. occurrences[k] + 1 \in 1 .. MaxDetections
  BY <1>1, <1>2 DEF UpsertFinding
<1> QED BY <1>2, <1>3, <1>4 DEF UpsertFinding, SetStatus, CountOnceMore

(* No worker and no request makes a statement it was not about to make.    *)
LEMMA ExpectFacts ==
  ASSUME IInv, NEW x \in Actors, NEW statement, NEW k, NEW s,
         Expect(x, statement, k, s),
         statement \in {"nothing", "event", "finding"},
         k \in Rules \cup {"none"}, s \in FindingStatuses \cup {"none"}
  PROVE  /\ next' \in [Actors -> {"nothing", "event", "finding"}]
         /\ at' \in [Actors -> Rules \cup {"none"}]
         /\ goal' \in [Actors -> FindingStatuses \cup {"none"}]
         /\ next'[x] = statement /\ at'[x] = k /\ goal'[x] = s
         /\ \A y \in Actors \ {x} :
              next'[y] = next[y] /\ at'[y] = at[y] /\ goal'[y] = goal[y]
BY DEF IInv, TypeOK, Expect

LEMMA SetStatusFacts ==
  ASSUME IInv, NEW k \in Rules, NEW s \in FindingStatuses, SetStatus(k, s)
  PROVE  /\ status' \in [Rules -> FindingStatuses \cup {"absent"}]
         /\ status' = [status EXCEPT ![k] = s]
BY DEF IInv, TypeOK, SetStatus

LEMMA StepOfCrash ==
  ASSUME IInv, NEW x \in Actors, Crash(x)
  PROVE  IInv'
<1>1. Expect(x, "nothing", "none", "none")
  BY DEF Crash
<1>2. /\ next' \in [Actors -> {"nothing", "event", "finding"}]
      /\ at' \in [Actors -> Rules \cup {"none"}]
      /\ goal' \in [Actors -> FindingStatuses \cup {"none"}]
      /\ next'[x] = "nothing"
      /\ \A y \in Actors \ {x} :
           next'[y] = next[y] /\ at'[y] = at[y] /\ goal'[y] = goal[y]
  BY <1>1, ExpectFacts
<1>3. todo' \in [Actors -> Seq(Rules)]
  <2>1. <<>> \in Seq(Rules)
    OBVIOUS
  <2> QED BY <2>1 DEF Crash, IInv, TypeOK
<1>4. UNCHANGED <<rowVars, status, resolvedAt, taskOf, taskStatus, latest>>
  BY DEF Crash
<1>5. owed' \in [Rules -> Int] /\ crossed' \subseteq Rules
  BY DEF Crash, IInv, TypeOK
<1>6. TypeOK'
  BY <1>2, <1>3, <1>4, <1>5 DEF IInv, TypeOK, rowVars
<1>7. StatementsAgree'
  BY <1>2, <1>4, Zenon DEF IInv, StatementsAgree
<1> QED BY <1>4, <1>6, <1>7 DEF IInv, RowsAgree, rowVars

LEMMA TakeOnFacts ==
  ASSUME IInv, NEW x \in Actors, NEW e \in Evidence, TakeOn(x, e)
  PROVE  todo' \in [Actors -> Seq(Rules)] /\ owed' \in [Rules -> Int]
<1>1. DeriveFindings(e) \in Seq(Rules)
  BY DraftsCorrect
<1> QED BY <1>1 DEF TakeOn, IInv, TypeOK

LEMMA StepOfStore ==
  ASSUME IInv, NEW x \in Actors, NEW e \in Observations,
         WorkerStores(x, e) \/ RequestStores(x, e)
  PROVE  IInv'
<1>1. e \in Evidence
  BY FindingLifecycleAssumption
<1>3. results' \in Seq(Evidence)
  <2>1. results' = Append(results, e)
    BY DEF WorkerStores, RequestStores, StoreResult
  <2>2. results \in Seq(Evidence)
    BY DEF IInv, TypeOK
  <2> QED BY <1>1, <2>1, <2>2
<1>4. todo' \in [Actors -> Seq(Rules)] /\ owed' \in [Rules -> Int]
  BY <1>1, TakeOnFacts
     DEF IInv, TypeOK, WorkerStores, RequestStores, actorVars
<1>5. UNCHANGED <<occurrences, risk, status, resolvedAt, taskVars, next, at,
                  goal>>
  BY DEF WorkerStores, RequestStores, actorVars
<1>6. TypeOK'
  BY <1>3, <1>4, <1>5 DEF IInv, TypeOK, taskVars
<1> QED BY <1>5, <1>6 DEF IInv, StatementsAgree, RowsAgree, taskVars

LEMMA StepOfDerive ==
  ASSUME IInv, NEW r \in Actors, NEW i \in DOMAIN results, RequestDerives(r, i)
  PROVE  IInv'
<1>1. results[i] \in Evidence
  BY DEF IInv, TypeOK
<1>2. todo' \in [Actors -> Seq(Rules)] /\ owed' \in [Rules -> Int]
  BY <1>1, TakeOnFacts DEF RequestDerives
<1>3. UNCHANGED <<rowVars, status, resolvedAt, taskVars, next, at, goal>>
  BY DEF RequestDerives
<1>4. TypeOK'
  BY <1>2, <1>3 DEF IInv, TypeOK, rowVars, taskVars
<1> QED BY <1>3, <1>4 DEF IInv, StatementsAgree, RowsAgree, rowVars, taskVars

LEMMA StepOfUpsert ==
  ASSUME IInv, NEW x \in Actors, UpsertFinding(x)
  PROVE  IInv'
<1>1. PICK k \in Rules :
        /\ k = Head(todo[x])
        /\ todo' = [todo EXCEPT ![x] = Tail(todo[x])]
        /\ Tail(todo[x]) \in Seq(Rules)
        /\ status' = [status EXCEPT ![k] = DetectedStatus(status[k])]
        /\ occurrences[k] + 1 \in 1 .. MaxDetections
        /\ occurrences' = [occurrences EXCEPT ![k] = occurrences[k] + 1]
        /\ risk' = [risk EXCEPT ![k] = RiskOnceMore(k)]
        /\ RiskOnceMore(k) \in 0 .. 100
        /\ UNCHANGED <<results, resolvedAt, taskVars, next, at, goal, owed>>
  BY UpsertFacts
<1>2. DetectedStatus(status[k]) \in FindingStatuses
  BY StatusFacts DEF IInv, TypeOK
<1>3. SetStatus(k, DetectedStatus(status[k]))
  BY <1>1 DEF UpsertFinding
<1>4. status' \in [Rules -> FindingStatuses \cup {"absent"}]
  BY <1>2, <1>3, SetStatusFacts
<1>5. /\ todo' \in [Actors -> Seq(Rules)]
      /\ occurrences' \in [Rules -> 0 .. MaxDetections]
      /\ risk' \in [Rules -> 0 .. 100]
  <2>1. todo' \in [Actors -> Seq(Rules)]
    BY <1>1 DEF IInv, TypeOK
  <2>2. occurrences' \in [Rules -> 0 .. MaxDetections]
    BY <1>1, FindingLifecycleAssumption DEF IInv, TypeOK
  <2>3. risk' \in [Rules -> 0 .. 100]
    BY <1>1 DEF IInv, TypeOK
  <2> QED BY <2>1, <2>2, <2>3
<1>6. TypeOK'
  BY <1>1, <1>4, <1>5 DEF IInv, TypeOK, taskVars
<1>7. StatementsAgree'
  BY <1>1 DEF IInv, StatementsAgree, taskVars
<1>8. RowsAgree'
  <2>1. status'[k] # "absent" /\ occurrences'[k] # 0
    BY <1>1, <1>2, StatusFacts DEF IInv, TypeOK
  <2>2. \A j \in Rules \ {k} :
          status'[j] = status[j] /\ occurrences'[j] = occurrences[j]
    BY <1>1 DEF IInv, TypeOK
  <2>3. \A t \in Tasks : taskOf[t] \in Rules \cup {"none"}
    BY DEF IInv, TypeOK
  <2> QED BY <1>1, <2>1, <2>2, <2>3 DEF IInv, RowsAgree, taskVars
<1> QED BY <1>6, <1>7, <1>8 DEF IInv

LEMMA StepOfMark ==
  ASSUME IInv, NEW r \in Actors, NEW k \in Rules, NEW s \in Marks,
         NEW noted \in BOOLEAN, UpdateFindingStatus(r, k, s, noted)
  PROVE  IInv'
<1>1. s \in FindingStatuses
  BY FindingLifecycleAssumption
<1>2. /\ status' \in [Rules -> FindingStatuses \cup {"absent"}]
      /\ status' = [status EXCEPT ![k] = s]
  BY <1>1, SetStatusFacts DEF UpdateFindingStatus
<1>3. /\ next' \in [Actors -> {"nothing", "event", "finding"}]
      /\ at' \in [Actors -> Rules \cup {"none"}]
      /\ goal' \in [Actors -> FindingStatuses \cup {"none"}]
      /\ \A y \in Actors : next'[y] = "finding" =>
           next[y] = "finding" /\ at'[y] = at[y] /\ goal'[y] = goal[y]
  <2>1. CASE noted
    <3>1. Expect(r, "event", k, "none")
      BY <2>1 DEF UpdateFindingStatus
    <3>2. /\ next' \in [Actors -> {"nothing", "event", "finding"}]
          /\ at' \in [Actors -> Rules \cup {"none"}]
          /\ goal' \in [Actors -> FindingStatuses \cup {"none"}]
          /\ next'[r] = "event"
          /\ \A y \in Actors \ {r} :
               next'[y] = next[y] /\ at'[y] = at[y] /\ goal'[y] = goal[y]
      BY <3>1, ExpectFacts
    <3> QED BY <3>2
  <2>2. CASE ~noted
    BY <2>2 DEF UpdateFindingStatus, IInv, TypeOK
  <2> QED BY <2>1, <2>2
<1>4. resolvedAt' \in [Rules -> BOOLEAN]
  <2> DEFINE b == s \in Resolved
  <2>1. b \in BOOLEAN /\ resolvedAt \in [Rules -> BOOLEAN]
    BY DEF IInv, TypeOK
  <2>2. resolvedAt' = [resolvedAt EXCEPT ![k] = b]
    BY DEF UpdateFindingStatus
  <2> HIDE DEF b
  <2> QED BY <2>1, <2>2
<1>5. /\ UNCHANGED <<rowVars, taskOf, taskStatus, crossed, todo, owed>>
      /\ status[k] # "absent"
  BY DEF UpdateFindingStatus
<1>6. /\ latest' \in [Rules -> {{}} \cup {{u} : u \in Tasks}]
      /\ \A j \in Rules : latest'[j] = latest[j] \/ latest'[j] = {}
      /\ \A j \in Rules : Moving(j) => latest'[j] = latest[j]
  BY DEF UpdateFindingStatus, IInv, TypeOK
<1>7. TypeOK'
  BY <1>2, <1>3, <1>4, <1>5, <1>6 DEF IInv, TypeOK, rowVars
<1>8. StatementsAgree'
  <2> SUFFICES ASSUME NEW y \in Actors, next'[y] = "finding"
               PROVE  /\ y \in Requests
                      /\ at'[y] \in Rules /\ goal'[y] \in FindingStatuses
                      /\ latest'[at'[y]] # {}
    BY DEF StatementsAgree
  <2>1. /\ next[y] = "finding" /\ at'[y] = at[y] /\ goal'[y] = goal[y]
        /\ at[y] \in Rules /\ goal[y] \in FindingStatuses
        /\ latest[at[y]] # {} /\ y \in Requests
    BY <1>3 DEF IInv, StatementsAgree
  <2>2. Moving(at[y])
    BY <2>1 DEF Moving, IsMoving
  <2> QED BY <1>6, <2>1, <2>2
<1>9. \A j \in Rules : status'[j] = "absent" <=> status[j] = "absent"
  BY <1>1, <1>2, <1>5, StatusFacts DEF IInv, TypeOK
<1>10. RowsAgree'
  <2>1. \A t \in Tasks : taskOf[t] \in Rules \cup {"none"}
    BY DEF IInv, TypeOK
  <2> QED BY <1>5, <1>6, <1>9, <2>1 DEF IInv, RowsAgree, rowVars
<1> QED BY <1>7, <1>8, <1>10 DEF IInv

LEMMA StepOfEvent ==
  ASSUME IInv, NEW r \in Actors, InsertFindingEvent(r)
  PROVE  IInv'
<1>1. /\ next' \in [Actors -> {"nothing", "event", "finding"}]
      /\ at' \in [Actors -> Rules \cup {"none"}]
      /\ goal' \in [Actors -> FindingStatuses \cup {"none"}]
      /\ next'[r] = "nothing"
      /\ \A y \in Actors \ {r} :
           next'[y] = next[y] /\ at'[y] = at[y] /\ goal'[y] = goal[y]
  BY ExpectFacts DEF InsertFindingEvent
<1>2. UNCHANGED <<rowVars, status, resolvedAt, taskVars, todo, owed>>
  BY DEF InsertFindingEvent
<1>3. TypeOK'
  BY <1>1, <1>2 DEF IInv, TypeOK, rowVars, taskVars
<1>4. StatementsAgree'
  BY <1>1, <1>2, Zenon DEF IInv, StatementsAgree, taskVars
<1> QED BY <1>2, <1>3, <1>4 DEF IInv, RowsAgree, rowVars, taskVars

LEMMA StepOfCreate ==
  ASSUME IInv, NEW r \in Actors, NEW t \in Tasks, NEW k \in Rules,
         CreateRemediationTask(r, t, k)
  PROVE  IInv'
<1>1. UNCHANGED <<rowVars, status, resolvedAt, latest, crossed,
                  actorVars>>
  BY DEF CreateRemediationTask
<1>2. /\ taskOf' \in [Tasks -> Rules \cup {"none"}]
      /\ taskStatus' \in [Tasks -> TaskStatuses \cup {"none"}]
  BY DEF CreateRemediationTask, IInv, TypeOK, TaskStatuses
<1>3. TypeOK'
  BY <1>1, <1>2 DEF IInv, TypeOK, rowVars, actorVars
<1>4. StatementsAgree'
  BY <1>1 DEF IInv, StatementsAgree, actorVars
<1>5. RowsAgree'
  BY <1>1 DEF CreateRemediationTask, IInv, TypeOK, RowsAgree, rowVars
<1> QED BY <1>3, <1>4, <1>5 DEF IInv

LEMMA StepOfTask ==
  ASSUME IInv, NEW r \in Requests, NEW t \in Tasks, NEW s \in Moves,
         UpdateRemediationStatus(r, t, s)
  PROVE  /\ IInv'
         /\ taskOf[t] \in Rules
         /\ latest' = [latest EXCEPT ![taskOf[t]] = {t}]
<1>1. taskOf[t] \in Rules
  BY DEF UpdateRemediationStatus, IInv, TypeOK
<1>2. s \in TaskStatuses /\ FindingStatusFor(s) \in FindingStatuses
  BY StatusFacts, FindingLifecycleAssumption
<1>3. Expect(r, "finding", taskOf[t], FindingStatusFor(s))
  BY DEF UpdateRemediationStatus
<1>4. /\ next' \in [Actors -> {"nothing", "event", "finding"}]
      /\ at' \in [Actors -> Rules \cup {"none"}]
      /\ goal' \in [Actors -> FindingStatuses \cup {"none"}]
      /\ at'[r] = taskOf[t] /\ goal'[r] = FindingStatusFor(s)
      /\ \A y \in Actors \ {r} :
           next'[y] = next[y] /\ at'[y] = at[y] /\ goal'[y] = goal[y]
  BY <1>1, <1>2, <1>3, ExpectFacts DEF Actors
<1>5. /\ latest' = [latest EXCEPT ![taskOf[t]] = {t}]
      /\ UNCHANGED <<rowVars, status, resolvedAt, taskOf, todo, owed>>
      /\ crossed' \subseteq Rules
  BY <1>1 DEF UpdateRemediationStatus, NoteMove, IInv, TypeOK
<1>6. taskStatus' \in [Tasks -> TaskStatuses \cup {"none"}]
  BY <1>2 DEF UpdateRemediationStatus, IInv, TypeOK
<1>7. latest' \in [Rules -> {{}} \cup {{u} : u \in Tasks}]
  <2> DEFINE L == {{}} \cup {{u} : u \in Tasks}
  <2>1. {t} \in L /\ latest \in [Rules -> L]
    BY DEF IInv, TypeOK
  <2> HIDE DEF L
  <2>2. latest' \in [Rules -> L]
    BY <1>5, <2>1
  <2> QED BY <2>2 DEF L
<1>8. TypeOK'
  BY <1>4, <1>5, <1>6, <1>7 DEF IInv, TypeOK, rowVars
<1>9. /\ latest'[taskOf[t]] = {t}
      /\ \A j \in Rules \ {taskOf[t]} : latest'[j] = latest[j]
  BY <1>1, <1>5 DEF IInv, TypeOK
<1>10. \A j \in Rules : latest[j] # {} => latest'[j] # {}
  BY <1>9
<1>11. StatementsAgree'
  BY <1>1, <1>2, <1>4, <1>9, <1>10 DEF IInv, StatementsAgree
<1>12. RowsAgree'
  <2>1. status[taskOf[t]] # "absent"
    BY DEF UpdateRemediationStatus, IInv, RowsAgree
  <2> QED BY <1>5, <1>9, <2>1 DEF IInv, RowsAgree, rowVars
<1> QED BY <1>1, <1>5, <1>8, <1>11, <1>12 DEF IInv

LEMMA StepOfMove ==
  ASSUME IInv, NEW r \in Actors, MoveFinding(r)
  PROVE  IInv'
<1>1. /\ at[r] \in Rules /\ goal[r] \in FindingStatuses
      /\ latest[at[r]] # {}
      /\ status[at[r]] # "absent"
  BY DEF MoveFinding, IInv, StatementsAgree, RowsAgree
<1>2. SetStatus(at[r], goal[r])
  BY DEF MoveFinding
<1>3. /\ status' \in [Rules -> FindingStatuses \cup {"absent"}]
      /\ status' = [status EXCEPT ![at[r]] = goal[r]]
  BY <1>1, <1>2, SetStatusFacts
<1>4. /\ next' \in [Actors -> {"nothing", "event", "finding"}]
      /\ at' \in [Actors -> Rules \cup {"none"}]
      /\ goal' \in [Actors -> FindingStatuses \cup {"none"}]
      /\ next'[r] = "nothing"
      /\ \A y \in Actors \ {r} :
           next'[y] = next[y] /\ at'[y] = at[y] /\ goal'[y] = goal[y]
  BY ExpectFacts DEF MoveFinding
<1>5. UNCHANGED <<rowVars, resolvedAt, taskVars, todo, owed>>
  BY DEF MoveFinding
<1>6. TypeOK'
  BY <1>3, <1>4, <1>5 DEF IInv, TypeOK, rowVars, taskVars
<1>7. StatementsAgree'
  BY <1>4, <1>5, Zenon DEF IInv, StatementsAgree, taskVars
<1>8. \A j \in Rules : status'[j] = "absent" <=> status[j] = "absent"
  BY <1>1, <1>3, StatusFacts DEF IInv, TypeOK
<1>9. RowsAgree'
  <2>1. \A t \in Tasks : taskOf[t] \in Rules \cup {"none"}
    BY DEF IInv, TypeOK
  <2> QED BY <1>5, <1>8, <2>1 DEF IInv, RowsAgree, rowVars, taskVars
<1> QED BY <1>6, <1>7, <1>9 DEF IInv

LEMMA InvStep == IInv /\ [Next]_vars => IInv'
<1> SUFFICES ASSUME IInv, [Next]_vars PROVE IInv'
  OBVIOUS
<1>1. CASE UNCHANGED vars
  BY <1>1 DEF vars, IInv, TypeOK, StatementsAgree, RowsAgree
<1>2. CASE \E w \in Workers :
             \/ \E e \in Observations : WorkerStores(w, e)
             \/ UpsertFinding(w)
             \/ Crash(w)
  BY <1>2, StepOfStore, StepOfUpsert, StepOfCrash DEF Actors
<1>3. CASE \E r \in Requests :
             \/ \E e \in Observations : RequestStores(r, e)
             \/ \E i \in DOMAIN results : RequestDerives(r, i)
             \/ UpsertFinding(r)
             \/ \E k \in Rules, s \in Marks, noted \in BOOLEAN :
                  UpdateFindingStatus(r, k, s, noted)
             \/ InsertFindingEvent(r)
             \/ \E t \in Tasks, k \in Rules : CreateRemediationTask(r, t, k)
             \/ \E t \in Tasks, s \in Moves : UpdateRemediationStatus(r, t, s)
             \/ MoveFinding(r)
             \/ Crash(r)
  BY <1>3, StepOfStore, StepOfDerive, StepOfUpsert, StepOfMark, StepOfEvent,
     StepOfCreate, StepOfTask, StepOfMove, StepOfCrash DEF Actors
<1> QED BY <1>1, <1>2, <1>3 DEF Next

(* Every variable keeps its type: findings and tasks only ever have a      *)
(* status the API knows, although tasks have one that findings have not,   *)
(* and scores stay percentages.                                            *)
THEOREM TypeCorrect == Spec => []TypeOK
<1>1. IInv => TypeOK
  BY DEF IInv
<1> QED BY InvInit, InvStep, <1>1, PTL DEF Spec

-----------------------------------------------------------------------------
(* What follows for the score, the date of resolution and triage.          *)

(* The score stored for a finding always fits how often it was detected,   *)
(* for any number of workers and requests that upsert it at once, and      *)
(* wherever they crash.                                                    *)
THEOREM RiskCorrect == Spec => []RiskFitsOccurrences
<1>1. Init => RiskFitsOccurrences
  BY DEF Init, RiskFitsOccurrences
<1>2. IInv /\ RiskFitsOccurrences /\ [Next]_vars => RiskFitsOccurrences'
  <2> SUFFICES ASSUME IInv, RiskFitsOccurrences, [Next]_vars
               PROVE  RiskFitsOccurrences'
    OBVIOUS
  <2>1. CASE \E x \in Actors : UpsertFinding(x)
    <3>1. PICK x \in Actors : UpsertFinding(x)
      BY <2>1
    <3>2. PICK k \in Rules :
            /\ status' = [status EXCEPT ![k] = DetectedStatus(status[k])]
            /\ occurrences[k] + 1 \in 1 .. MaxDetections
            /\ occurrences' = [occurrences EXCEPT ![k] = occurrences[k] + 1]
            /\ risk' = [risk EXCEPT ![k] = RiskOnceMore(k)]
      BY <3>1, UpsertFacts
    <3>3. /\ occurrences'[k] = occurrences[k] + 1
          /\ risk'[k] = RiskOnceMore(k)
          /\ occurrences[k] \in Nat
          /\ \A j \in Rules \ {k} : /\ status'[j] = status[j]
                                    /\ occurrences'[j] = occurrences[j]
                                    /\ risk'[j] = risk[j]
      BY <3>2 DEF IInv, TypeOK
    <3>4. SeverityOf(k) \in RiskSeverities /\ ConfidenceOf(k) \in RiskConfidences
      BY RatedRules
    <3>5. risk'[k] = CalculateFindingRiskScore(SeverityOf(k), ConfidenceOf(k),
                                               occurrences[k] + 1, 0, TRUE)
      <4>1. CASE status[k] = "absent"
        <5>1. occurrences[k] + 1 = 1
          BY <4>1, <3>3 DEF IInv, RowsAgree
        <5> QED BY <3>3, <4>1, <5>1 DEF RiskOnceMore, DraftRiskScore
      <4>2. CASE status[k] # "absent"
        <5>1. occurrences[k] \in Nat \ {0}
          BY <4>2, <3>3 DEF IInv, RowsAgree
        <5>2. risk'[k] = UpsertedRiskScore(SeverityOf(k), ConfidenceOf(k),
                                           occurrences[k])
          BY <3>3, <4>2 DEF RiskOnceMore
        <5> QED BY <3>4, <5>1, <5>2, ScoreOnceMore
      <4> QED BY <4>1, <4>2
    <3> QED BY <3>3, <3>5 DEF RiskFitsOccurrences
  <2>2. CASE ~\E x \in Actors : UpsertFinding(x)
    <3>1. /\ UNCHANGED <<occurrences, risk>>
          /\ \A k \in Rules : status'[k] # "absent" => status[k] # "absent"
      <4>1. CASE \E r \in Requests, k \in Rules, s \in Marks, noted \in BOOLEAN :
                   UpdateFindingStatus(r, k, s, noted)
        <5>1. PICK k \in Rules, s \in Marks :
                /\ status' = [status EXCEPT ![k] = s]
                /\ status[k] # "absent"
                /\ UNCHANGED rowVars
          BY <4>1 DEF UpdateFindingStatus, SetStatus
        <5> QED BY <5>1 DEF IInv, TypeOK, rowVars
      <4>2. CASE \E r \in Requests : MoveFinding(r)
        <5>1. PICK r \in Requests : MoveFinding(r)
          BY <4>2
        <5>2. at[r] \in Rules /\ status[at[r]] # "absent"
          BY <5>1 DEF MoveFinding, IInv, StatementsAgree, RowsAgree, Actors
        <5>3. status' = [status EXCEPT ![at[r]] = goal[r]] /\ UNCHANGED rowVars
          BY <5>1 DEF MoveFinding, SetStatus
        <5> QED BY <5>2, <5>3 DEF IInv, TypeOK, rowVars
      <4>3. CASE UNCHANGED <<occurrences, risk, status>>
        BY <4>3
      <4> QED BY <2>2, <4>1, <4>2, <4>3
          DEF Next, Actors, vars, rowVars, WorkerStores, RequestStores,
              RequestDerives, Crash, InsertFindingEvent, CreateRemediationTask,
              UpdateRemediationStatus
    <3> QED BY <3>1 DEF RiskFitsOccurrences
  <2> QED BY <2>1, <2>2
<1> QED BY InvInit, InvStep, <1>1, <1>2, PTL DEF Spec

(* A finding whose status no task set last has a date of resolution when   *)
(* it is resolved, and only then or after a scan reopened it.              *)
THEOREM ResolutionIsDatedCorrect == Spec => []ResolutionIsDated
<1>1. Init => ResolutionIsDated
  BY DEF Init, ResolutionIsDated, Resolved
<1>2. IInv /\ ResolutionIsDated /\ [Next]_vars => ResolutionIsDated'
  <2> SUFFICES ASSUME IInv, ResolutionIsDated, [Next]_vars
               PROVE  ResolutionIsDated'
    OBVIOUS
  <2>1. CASE \E x \in Actors : UpsertFinding(x)
    <3>1. PICK x \in Actors : UpsertFinding(x)
      BY <2>1
    <3>2. PICK k \in Rules :
            /\ status' = [status EXCEPT ![k] = DetectedStatus(status[k])]
            /\ UNCHANGED <<resolvedAt, latest>>
      BY <3>1, UpsertFacts DEF taskVars
    <3>3. /\ status'[k] = DetectedStatus(status[k])
          /\ \A j \in Rules \ {k} : status'[j] = status[j]
      BY <3>2 DEF IInv, TypeOK
    <3>4. \A s : /\ s = "remediated" => DetectedStatus(s) = "reopened"
                 /\ s = "absent" => DetectedStatus(s) = "open"
                 /\ s # "absent" /\ s # "remediated" => DetectedStatus(s) = s
      BY DEF DetectedStatus
    <3>5. "absent" \notin Resolved \cup {"reopened"} /\ "open" \notin Resolved
      BY DEF Resolved
    <3> QED BY <3>2, <3>3, <3>4, <3>5 DEF ResolutionIsDated, Resolved
  <2>2. CASE \E r \in Requests, k \in Rules, s \in Marks, noted \in BOOLEAN :
               UpdateFindingStatus(r, k, s, noted)
    <3>1. PICK k \in Rules, s \in Marks :
            /\ status' = [status EXCEPT ![k] = s]
            /\ resolvedAt' = [resolvedAt EXCEPT ![k] = s \in Resolved]
            /\ latest' = latest \/ latest' = [latest EXCEPT ![k] = {}]
      BY <2>2 DEF UpdateFindingStatus, SetStatus
    <3>2. /\ status'[k] = s /\ resolvedAt'[k] = (s \in Resolved)
          /\ \A j \in Rules \ {k} :
               status'[j] = status[j] /\ resolvedAt'[j] = resolvedAt[j]
      BY <3>1 DEF IInv, TypeOK
    <3>3. \A j \in Rules \ {k} : latest'[j] = latest[j]
      BY <3>1 DEF IInv, TypeOK
    <3> QED BY <3>2, <3>3 DEF ResolutionIsDated
  <2>3. CASE \E r \in Requests : MoveFinding(r)
    <3>1. PICK r \in Requests : MoveFinding(r)
      BY <2>3
    <3>2. at[r] \in Rules /\ latest[at[r]] # {}
      BY <3>1 DEF MoveFinding, IInv, StatementsAgree, Actors
    <3>3. /\ status' = [status EXCEPT ![at[r]] = goal[r]]
          /\ UNCHANGED <<resolvedAt, latest>>
      BY <3>1 DEF MoveFinding, SetStatus, taskVars
    <3>4. \A j \in Rules \ {at[r]} : status'[j] = status[j]
      BY <3>2, <3>3 DEF IInv, TypeOK
    <3> QED BY <3>2, <3>3, <3>4 DEF ResolutionIsDated
  <2>4. CASE \E r \in Requests, t \in Tasks, s \in Moves :
               UpdateRemediationStatus(r, t, s)
    <3>1. PICK r \in Requests, t \in Tasks, s \in Moves :
            UpdateRemediationStatus(r, t, s)
      BY <2>4
    <3>2. taskOf[t] \in Rules /\ latest' = [latest EXCEPT ![taskOf[t]] = {t}]
      BY <3>1, StepOfTask DEF Actors
    <3>3. \A j \in Rules : latest'[j] = {} => latest[j] = {}
      BY <3>2 DEF IInv, TypeOK
    <3>4. UNCHANGED <<status, resolvedAt>>
      BY <3>1 DEF UpdateRemediationStatus
    <3> QED BY <3>3, <3>4 DEF ResolutionIsDated
  <2>5. CASE UNCHANGED <<status, resolvedAt, latest>>
    BY <2>5 DEF ResolutionIsDated
  <2> QED BY <2>1, <2>2, <2>3, <2>4, <2>5
      DEF Next, Actors, vars, taskVars, WorkerStores, RequestStores,
          RequestDerives, Crash, InsertFindingEvent, CreateRemediationTask
<1> QED BY InvInit, InvStep, <1>1, <1>2, PTL DEF Spec

-----------------------------------------------------------------------------
(* Counting detections.                                                    *)

(* No executor has a finding to upsert twice.                              *)
DraftsDiffer ==
  \A x \in Actors : \A i, j \in DOMAIN todo[x] :
    todo[x][i] = todo[x][j] => i = j

Owing(k) == {x \in Actors : Owes(x, k)}

CInv == IInv /\ DraftsDiffer /\ CountsDetections

LEMMA FiniteActors ==
  ASSUME NEW k \in Rules
  PROVE  IsFiniteSet(Owing(k)) /\ Cardinality(Owing(k)) \in Nat
<1>1. IsFiniteSet(Actors)
  BY FindingLifecycleAssumption, FS_Union DEF Actors
<1>2. Owing(k) \in SUBSET Actors
  BY DEF Owing
<1> QED BY <1>1, <1>2, FS_Subset, FS_CardinalityType

LEMMA DraftsOf ==
  ASSUME NEW s \in Seq(Rules), s # <<>>,
         \A i, j \in DOMAIN s : s[i] = s[j] => i = j
  PROVE  /\ \A k : k \in Range(Tail(s)) <=> k \in Range(s) /\ k # Head(s)
         /\ Head(s) \in Range(s)
         /\ \A i, j \in DOMAIN Tail(s) : Tail(s)[i] = Tail(s)[j] => i = j
<1>1. /\ Tail(s) \in Seq(Rules) /\ DOMAIN s = 1 .. Len(s) /\ Len(s) \in Nat \ {0}
      /\ DOMAIN Tail(s) = 1 .. Len(s) - 1
      /\ \A i \in 1 .. Len(s) - 1 : Tail(s)[i] = s[i + 1]
      /\ Head(s) = s[1]
  OBVIOUS
<1>2. ASSUME NEW k, k \in Range(s), k # Head(s)
      PROVE  k \in Range(Tail(s))
  <2>1. PICK i \in 1 .. Len(s) : k = s[i]
    BY <1>1, <1>2 DEF Range
  <2>2. i - 1 \in DOMAIN Tail(s) /\ Tail(s)[i - 1] = k
    BY <1>1, <1>2, <2>1
  <2> QED BY <2>2 DEF Range
<1>3. ASSUME NEW k, k \in Range(Tail(s))
      PROVE  k \in Range(s) /\ k # Head(s)
  <2>1. PICK i \in 1 .. Len(s) - 1 : k = s[i + 1]
    BY <1>1, <1>3 DEF Range
  <2>2. i + 1 \in DOMAIN s /\ 1 \in DOMAIN s /\ i + 1 # 1
    BY <1>1
  <2> QED BY <1>1, <2>1, <2>2 DEF Range
<1>4. Head(s) \in Range(s)
  BY <1>1 DEF Range
<1>5. \A i, j \in DOMAIN Tail(s) : Tail(s)[i] = Tail(s)[j] => i = j
  BY <1>1
<1> QED BY <1>2, <1>3, <1>4, <1>5

LEMMA CountStepOfTakeOn ==
  ASSUME CInv, NEW x \in Actors, NEW e \in Evidence, Idle(x), TakeOn(x, e),
         UNCHANGED occurrences
  PROVE  DraftsDiffer' /\ CountsDetections'
<1> DEFINE d == DeriveFindings(e)
<1>1. d \in Seq(Rules) /\ \A i, j \in DOMAIN d : d[i] = d[j] => i = j
  BY DraftsCorrect
<1> HIDE DEF d
<1>2. /\ todo'[x] = d /\ todo[x] = <<>>
      /\ \A y \in Actors \ {x} : todo'[y] = todo[y]
      /\ \A k \in Rules : owed'[k] = IF k \in Range(d) THEN owed[k] + 1 ELSE owed[k]
  BY DEF CInv, IInv, TypeOK, TakeOn, Idle, d
<1>3. DraftsDiffer'
  BY <1>1, <1>2 DEF CInv, DraftsDiffer
<1>4. ASSUME NEW k \in Rules
      PROVE  occurrences'[k] + Cardinality(Owing(k)') = owed'[k]
  <2>1. occurrences[k] + Cardinality(Owing(k)) = owed[k]
    BY DEF CInv, CountsDetections, Owing
  <2>2. x \notin Owing(k)
    BY <1>2 DEF Owing, Owes, Range
  <2>3. Owing(k)' = IF k \in Range(d) THEN Owing(k) \cup {x} ELSE Owing(k)
    BY <1>2, <2>2 DEF Owing, Owes
  <2>4. occurrences[k] \in Nat
    BY FindingLifecycleAssumption DEF CInv, IInv, TypeOK
  <2>5. /\ Cardinality(Owing(k)) \in Nat
        /\ Cardinality(Owing(k) \cup {x}) = Cardinality(Owing(k)) + 1
    BY <2>2, FiniteActors, FS_AddElement
  <2> QED BY <1>2, <2>1, <2>3, <2>4, <2>5
<1> QED BY <1>3, <1>4 DEF CountsDetections, Owing

LEMMA CountStepOfUpsert ==
  ASSUME CInv, NEW x \in Actors, UpsertFinding(x)
  PROVE  DraftsDiffer' /\ CountsDetections'
<1>1. PICK h \in Rules :
        /\ h = Head(todo[x])
        /\ todo' = [todo EXCEPT ![x] = Tail(todo[x])]
        /\ occurrences' = [occurrences EXCEPT ![h] = occurrences[h] + 1]
        /\ UNCHANGED owed
  BY UpsertFacts DEF CInv
<1>2. /\ todo[x] \in Seq(Rules) /\ todo[x] # <<>>
      /\ \A i, j \in DOMAIN todo[x] : todo[x][i] = todo[x][j] => i = j
  BY DEF CInv, IInv, TypeOK, UpsertFinding, DraftsDiffer
<1>3. /\ \A k : k \in Range(Tail(todo[x])) <=> k \in Range(todo[x]) /\ k # h
      /\ h \in Range(todo[x])
      /\ \A i, j \in DOMAIN Tail(todo[x]) : Tail(todo[x])[i] = Tail(todo[x])[j] => i = j
  BY <1>1, <1>2, DraftsOf
<1>4. /\ todo'[x] = Tail(todo[x])
      /\ \A y \in Actors \ {x} : todo'[y] = todo[y]
      /\ occurrences'[h] = occurrences[h] + 1
      /\ \A k \in Rules \ {h} : occurrences'[k] = occurrences[k]
  BY <1>1 DEF CInv, IInv, TypeOK
<1>5. DraftsDiffer'
  BY <1>3, <1>4 DEF CInv, DraftsDiffer
<1>6. ASSUME NEW k \in Rules
      PROVE  occurrences'[k] + Cardinality(Owing(k)') = owed'[k]
  <2>1. occurrences[k] + Cardinality(Owing(k)) = owed[k] /\ occurrences[k] \in Nat
    BY FindingLifecycleAssumption
       DEF CInv, CountsDetections, Owing, IInv, TypeOK
  <2>2. CASE k = h
    <3>1. x \in Owing(k) /\ Owing(k)' = Owing(k) \ {x}
      BY <1>3, <1>4, <2>2 DEF Owing, Owes
    <3>2. /\ Cardinality(Owing(k)) \in Nat
          /\ Cardinality(Owing(k) \ {x}) = Cardinality(Owing(k)) - 1
      BY <3>1, FiniteActors, FS_RemoveElement
    <3>3. /\ Cardinality(Owing(k)') = Cardinality(Owing(k)) - 1
          /\ occurrences'[k] = occurrences[k] + 1
          /\ owed'[k] = owed[k]
      BY <1>1, <1>4, <2>2, <3>1, <3>2
    <3> QED BY <2>1, <3>2, <3>3
  <2>3. CASE k # h
    <3>1. Owing(k)' = Owing(k)
      BY <1>3, <1>4, <2>3 DEF Owing, Owes
    <3> QED BY <1>1, <1>4, <2>1, <2>3, <3>1
  <2> QED BY <2>2, <2>3
<1> QED BY <1>5, <1>6 DEF CountsDetections, Owing

LEMMA CountStepOfCrash ==
  ASSUME CInv, NEW x \in Actors, Crash(x)
  PROVE  DraftsDiffer' /\ CountsDetections'
<1>1. /\ todo'[x] = <<>>
      /\ \A y \in Actors \ {x} : todo'[y] = todo[y]
      /\ \A k \in Rules : owed'[k] = IF Owes(x, k) THEN owed[k] - 1 ELSE owed[k]
      /\ UNCHANGED occurrences
  BY DEF Crash, CInv, IInv, TypeOK, rowVars
<1>2. DraftsDiffer'
  BY <1>1 DEF CInv, DraftsDiffer
<1>3. ASSUME NEW k \in Rules
      PROVE  occurrences'[k] + Cardinality(Owing(k)') = owed'[k]
  <2>1. occurrences[k] + Cardinality(Owing(k)) = owed[k] /\ occurrences[k] \in Nat
    BY FindingLifecycleAssumption
       DEF CInv, CountsDetections, Owing, IInv, TypeOK
  <2>2. Owing(k)' = Owing(k) \ {x} /\ (x \in Owing(k) <=> Owes(x, k))
    BY <1>1 DEF Owing, Owes, Range
  <2>3. /\ Cardinality(Owing(k)) \in Nat
        /\ Cardinality(Owing(k) \ {x})
             = IF x \in Owing(k) THEN Cardinality(Owing(k)) - 1
                                 ELSE Cardinality(Owing(k))
    BY FiniteActors, FS_RemoveElement
  <2> QED BY <1>1, <2>1, <2>2, <2>3
<1> QED BY <1>2, <1>3 DEF CountsDetections, Owing

LEMMA CountStepOfRest ==
  ASSUME CInv, UNCHANGED <<todo, occurrences, owed>>
  PROVE  DraftsDiffer' /\ CountsDetections'
BY DEF CInv, DraftsDiffer, CountsDetections, Owes

(* No upsert taken on is lost or made twice, for any number of executors,  *)
(* results derived again and crashes: a finding's count is what was taken  *)
(* on, less what is still to come or was cut short.                        *)
THEOREM CountsDetectionsCorrect == Spec => []CountsDetections
<1>1. Init => DraftsDiffer /\ CountsDetections
  <2> SUFFICES ASSUME Init PROVE DraftsDiffer /\ CountsDetections
    OBVIOUS
  <2>1. \A x \in Actors : todo[x] = <<>> /\ DOMAIN todo[x] = {}
    BY DEF Init
  <2>2. \A k \in Rules : {x \in Actors : Owes(x, k)} = {}
    BY <2>1 DEF Owes, Range
  <2>3. \A k \in Rules : Cardinality({x \in Actors : Owes(x, k)}) = 0
    BY <2>2, FS_EmptySet
  <2>4. \A k \in Rules : occurrences[k] = 0 /\ owed[k] = 0
    BY DEF Init
  <2> QED BY <2>1, <2>3, <2>4 DEF DraftsDiffer, CountsDetections
<1>2. CInv /\ [Next]_vars => DraftsDiffer' /\ CountsDetections'
  <2> SUFFICES ASSUME CInv, [Next]_vars PROVE DraftsDiffer' /\ CountsDetections'
    OBVIOUS
  <2>1. ASSUME NEW w \in Workers, NEW e \in Observations, WorkerStores(w, e)
        PROVE  DraftsDiffer' /\ CountsDetections'
    BY <2>1, CountStepOfTakeOn, FindingLifecycleAssumption
       DEF WorkerStores, Actors
  <2>2. ASSUME NEW r \in Requests, NEW i \in DOMAIN results, RequestDerives(r, i)
        PROVE  DraftsDiffer' /\ CountsDetections'
    <3>1. results[i] \in Evidence
      BY DEF CInv, IInv, TypeOK
    <3> QED BY <2>2, <3>1, CountStepOfTakeOn DEF RequestDerives, rowVars, Actors
  <2>3. CASE UNCHANGED <<todo, occurrences, owed>>
    BY <2>3, CountStepOfRest
  <2>4. CASE \E w \in Workers :
               \/ \E e \in Observations : WorkerStores(w, e)
               \/ UpsertFinding(w)
               \/ Crash(w)
    BY <2>1, <2>4, CountStepOfUpsert, CountStepOfCrash DEF Actors
  <2>5. CASE \E r \in Requests :
               \/ \E e \in Observations : RequestStores(r, e)
               \/ \E i \in DOMAIN results : RequestDerives(r, i)
               \/ UpsertFinding(r)
               \/ \E k \in Rules, s \in Marks, noted \in BOOLEAN :
                    UpdateFindingStatus(r, k, s, noted)
               \/ InsertFindingEvent(r)
               \/ \E t \in Tasks, k \in Rules : CreateRemediationTask(r, t, k)
               \/ \E t \in Tasks, s \in Moves : UpdateRemediationStatus(r, t, s)
               \/ MoveFinding(r)
               \/ Crash(r)
    BY <2>2, <2>3, <2>5, CountStepOfUpsert, CountStepOfCrash
       DEF Actors, RequestStores, UpdateFindingStatus, InsertFindingEvent,
           CreateRemediationTask, UpdateRemediationStatus, MoveFinding,
           rowVars, actorVars
  <2> QED BY <2>3, <2>4, <2>5 DEF Next, vars
<1>3. CInv <=> IInv /\ DraftsDiffer /\ CountsDetections
  BY DEF CInv
<1> QED BY InvInit, InvStep, <1>1, <1>2, <1>3, PTL DEF Spec

-----------------------------------------------------------------------------
(* Tasks and findings.                                                     *)

(* The task moved last is a task of its finding, and unless moves crossed, *)
(* the request about to move a finding is alone and has moved that task.   *)
TasksAgree ==
  /\ \A k \in Rules : \A t \in latest[k] :
       taskOf[t] = k /\ taskStatus[t] \in TaskStatuses
  /\ \A k \in Rules \ crossed : \A q, r \in Requests :
       IsMoving(q, k) /\ IsMoving(r, k) => q = r
  /\ \A k \in Rules \ crossed : \A t \in latest[k] : \A r \in Requests :
       IsMoving(r, k) => goal[r] = FindingStatusFor(taskStatus[t])

(* A finding has the status of task t, or was reopened since.              *)
Fits(k, t) ==
  \/ status[k] = FindingStatusFor(taskStatus[t])
  \/ status[k] = "reopened" /\ taskStatus[t] = "remediated"

LEMMA LatestType ==
  ASSUME IInv, NEW k \in Rules, NEW t \in latest[k]
  PROVE  t \in Tasks
<1>1. latest[k] \in {{}} \cup {{u} : u \in Tasks}
  BY DEF IInv, TypeOK
<1> QED BY <1>1

(* A step that starts or ends no move and leaves the tasks alone.          *)
LEMMA MovesStay ==
  ASSUME TasksAgree,
         \A r \in Requests : next'[r] = "finding" =>
           next[r] = "finding" /\ at'[r] = at[r] /\ goal'[r] = goal[r],
         \A k \in Rules : latest'[k] \subseteq latest[k],
         UNCHANGED <<taskOf, taskStatus>>, crossed \subseteq crossed'
  PROVE  TasksAgree'
BY DEF TasksAgree, IsMoving

LEMMA TasksStepOfUpsert ==
  ASSUME IInv, TasksAgree, TaskAgrees, NEW x \in Actors, UpsertFinding(x)
  PROVE  TasksAgree' /\ TaskAgrees'
<1>1. PICK k \in Rules :
        /\ status' = [status EXCEPT ![k] = DetectedStatus(status[k])]
        /\ UNCHANGED <<taskVars, next, at, goal>>
  BY UpsertFacts
<1>2. TasksAgree'
  BY <1>1, MovesStay DEF taskVars
<1>3. /\ status'[k] = DetectedStatus(status[k])
      /\ \A j \in Rules \ {k} : status'[j] = status[j]
  BY <1>1 DEF IInv, TypeOK
<1>4. \A s : /\ s = "remediated" => DetectedStatus(s) = "reopened"
             /\ s # "absent" /\ s # "remediated" => DetectedStatus(s) = s
  BY DEF DetectedStatus
<1>5. \A s : FindingStatusFor(s) = "remediated" => s = "remediated"
  BY DEF FindingStatusFor
<1>6. latest[k] # {} => status[k] # "absent"
  BY DEF IInv, RowsAgree
<1>7. \A j \in Rules : Moving(j)' <=> Moving(j)
  BY <1>1 DEF Moving, IsMoving
<1>8. TaskAgrees'
  <2> SUFFICES ASSUME NEW j \in Rules \ crossed, NEW t \in latest[j], ~Moving(j)
               PROVE  Fits(j, t)'
    BY <1>1, <1>7 DEF TaskAgrees, Fits, taskVars
  <2>1. Fits(j, t)
    BY DEF TaskAgrees, Fits
  <2> QED BY <1>1, <1>3, <1>4, <1>5, <1>6, <2>1 DEF Fits, taskVars
<1> QED BY <1>2, <1>8

(* A mark ends what a task said of a finding, unless a move is under way.  *)
LEMMA TasksStepOfMark ==
  ASSUME IInv, TasksAgree, TaskAgrees, NEW r \in Requests, NEW k \in Rules,
         NEW s \in Marks, NEW noted \in BOOLEAN,
         UpdateFindingStatus(r, k, s, noted)
  PROVE  TasksAgree' /\ TaskAgrees'
<1>1. /\ latest' = IF Moving(k) THEN latest ELSE [latest EXCEPT ![k] = {}]
      /\ UNCHANGED <<taskOf, taskStatus, crossed>>
      /\ status' = [status EXCEPT ![k] = s]
  BY DEF UpdateFindingStatus, SetStatus
<1>2. \A q \in Requests :
        (next'[q] = "finding" <=> next[q] = "finding")
          /\ (next[q] = "finding" => at'[q] = at[q] /\ goal'[q] = goal[q])
  <2>1. next[r] = "nothing"
    BY DEF UpdateFindingStatus, Idle
  <2>2. /\ \A q \in Requests \ {r} :
             next'[q] = next[q] /\ at'[q] = at[q] /\ goal'[q] = goal[q]
        /\ next'[r] # "finding"
    BY <2>1 DEF UpdateFindingStatus, Expect, IInv, TypeOK, Actors
  <2> QED BY <2>1, <2>2
<1>3. \A j \in Rules : latest'[j] \subseteq latest[j]
  BY <1>1 DEF IInv, TypeOK
<1>4. TasksAgree'
  BY <1>1, <1>2, <1>3, MovesStay
<1>5. \A j \in Rules : Moving(j)' <=> Moving(j)
  BY <1>2 DEF Moving, IsMoving
<1>6. TaskAgrees'
  <2> SUFFICES ASSUME NEW j \in Rules \ crossed, NEW t \in latest'[j], ~Moving(j)
               PROVE  Fits(j, t)'
    BY <1>1, <1>5 DEF TaskAgrees, Fits
  <2>1. j # k
    BY <1>1 DEF IInv, TypeOK
  <2>2. Fits(j, t)
    BY <1>3 DEF TaskAgrees, Fits
  <2>3. status'[j] = status[j]
    BY <1>1, <2>1 DEF IInv, TypeOK
  <2> QED BY <1>1, <2>2, <2>3 DEF Fits
<1> QED BY <1>4, <1>6

LEMMA TasksStepOfCreate ==
  ASSUME IInv, TasksAgree, TaskAgrees, NEW r \in Requests, NEW t \in Tasks,
         NEW k \in Rules, CreateRemediationTask(r, t, k)
  PROVE  TasksAgree' /\ TaskAgrees'
<1>1. /\ UNCHANGED <<status, latest, crossed, next, at, goal>>
      /\ \A u \in Tasks \ {t} :
           taskOf'[u] = taskOf[u] /\ taskStatus'[u] = taskStatus[u]
  BY DEF CreateRemediationTask, IInv, TypeOK, actorVars
<1>2. \A j \in Rules : t \notin latest[j]
  BY StatusFacts DEF CreateRemediationTask, TasksAgree
<1>3. \A j \in Rules : \A u \in latest[j] :
        taskOf'[u] = taskOf[u] /\ taskStatus'[u] = taskStatus[u]
  BY <1>1, <1>2, LatestType
<1> QED BY <1>1, <1>3 DEF TasksAgree, TaskAgrees, Moving, IsMoving

LEMMA TasksStepOfTask ==
  ASSUME IInv, TasksAgree, TaskAgrees, NEW r \in Requests, NEW t \in Tasks,
         NEW s \in Moves, UpdateRemediationStatus(r, t, s)
  PROVE  TasksAgree' /\ TaskAgrees'
<1>1. PICK k \in Rules : k = taskOf[t] /\ latest' = [latest EXCEPT ![k] = {t}]
  BY StepOfTask
<1>2. s \in TaskStatuses
  BY FindingLifecycleAssumption
<1>3. /\ latest'[k] = {t}
      /\ \A j \in Rules \ {k} : latest'[j] = latest[j]
      /\ taskStatus'[t] = s
      /\ \A u \in Tasks \ {t} : taskStatus'[u] = taskStatus[u]
      /\ UNCHANGED <<status, taskOf>>
  BY <1>1 DEF UpdateRemediationStatus, IInv, TypeOK
<1>4. /\ next'[r] = "finding" /\ at'[r] = k /\ goal'[r] = FindingStatusFor(s)
      /\ \A q \in Requests \ {r} :
           next'[q] = next[q] /\ at'[q] = at[q] /\ goal'[q] = goal[q]
      /\ next[r] = "nothing"
  BY <1>1 DEF UpdateRemediationStatus, Expect, Idle, IInv, TypeOK, Actors
<1>5. /\ k \in crossed' <=> Moving(k)
      /\ \A j \in Rules \ {k} : j \in crossed' <=> j \in crossed
  BY <1>1 DEF UpdateRemediationStatus, NoteMove
<1>6. \A j \in Rules \ {k} : \A u \in latest[j] : u \in Tasks \ {t} /\ taskOf[u] = j
  BY <1>1, LatestType DEF TasksAgree
<1>7. /\ \A j \in Rules \ {k} : \A q \in Requests :
           IsMoving(q, j)' <=> IsMoving(q, j)
      /\ \A q \in Requests \ {r} : IsMoving(q, k)' <=> IsMoving(q, k)
      /\ IsMoving(r, k)'
  BY <1>4 DEF IsMoving
<1>8. TasksAgree'
  <2>1. ASSUME NEW j \in Rules, NEW u \in latest'[j]
        PROVE  taskOf'[u] = j /\ taskStatus'[u] \in TaskStatuses
    BY <1>1, <1>2, <1>3, <1>6 DEF TasksAgree
  <2>2. ASSUME NEW j \in Rules \ crossed', NEW p \in Requests, NEW q \in Requests,
               IsMoving(p, j)', IsMoving(q, j)'
        PROVE  p = q
    <3>1. CASE j = k
      BY <1>5, <1>7, <2>2, <3>1 DEF Moving
    <3>2. CASE j # k
      BY <1>5, <1>7, <2>2, <3>2 DEF TasksAgree
    <3> QED BY <3>1, <3>2
  <2>3. ASSUME NEW j \in Rules \ crossed', NEW u \in latest'[j], NEW q \in Requests,
               IsMoving(q, j)'
        PROVE  goal'[q] = FindingStatusFor(taskStatus'[u])
    <3>1. CASE j = k
      <4>1. q = r
        BY <1>5, <1>7, <2>3, <3>1 DEF Moving
      <4> QED BY <1>3, <1>4, <2>3, <3>1, <4>1
    <3>2. CASE j # k
      <4>1. q # r /\ IsMoving(q, j) /\ u \in latest[j] /\ j \notin crossed
        BY <1>3, <1>4, <1>5, <1>7, <2>3, <3>2 DEF IsMoving
      <4>2. goal[q] = FindingStatusFor(taskStatus[u])
        BY <4>1 DEF TasksAgree
      <4> QED BY <1>3, <1>4, <1>6, <3>2, <4>1, <4>2
    <3> QED BY <3>1, <3>2
  <2> QED BY <2>1, <2>2, <2>3 DEF TasksAgree
<1>9. TaskAgrees'
  <2> SUFFICES ASSUME NEW j \in Rules \ crossed', NEW u \in latest'[j], ~Moving(j)'
               PROVE  Fits(j, u)'
    BY DEF TaskAgrees, Fits
  <2>1. j # k
    BY <1>7 DEF Moving
  <2>2. ~Moving(j) /\ u \in latest[j] /\ j \notin crossed
    BY <1>3, <1>5, <1>7, <2>1 DEF Moving
  <2>3. Fits(j, u)
    BY <2>2 DEF TaskAgrees, Fits
  <2> QED BY <1>3, <1>6, <2>1, <2>2, <2>3 DEF Fits
<1> QED BY <1>8, <1>9

LEMMA TasksStepOfMove ==
  ASSUME IInv, TasksAgree, TaskAgrees, NEW r \in Requests, MoveFinding(r)
  PROVE  TasksAgree' /\ TaskAgrees'
<1> DEFINE k == at[r]
<1>1. k \in Rules /\ next[r] = "finding" /\ IsMoving(r, k)
  BY DEF MoveFinding, IInv, StatementsAgree, Actors, IsMoving
<1>2. /\ status'[k] = goal[r]
      /\ \A j \in Rules \ {k} : status'[j] = status[j]
      /\ next'[r] = "nothing"
      /\ \A q \in Requests \ {r} :
           next'[q] = next[q] /\ at'[q] = at[q] /\ goal'[q] = goal[q]
      /\ UNCHANGED taskVars
  BY <1>1 DEF MoveFinding, SetStatus, Expect, IInv, TypeOK, Actors
<1>3. TasksAgree'
  BY <1>2, MovesStay DEF taskVars
<1>4. TaskAgrees'
  <2> SUFFICES ASSUME NEW j \in Rules \ crossed, NEW t \in latest[j], ~Moving(j)'
               PROVE  Fits(j, t)'
    BY <1>2 DEF TaskAgrees, Fits, taskVars
  <2>1. CASE j = k
    BY <1>1, <1>2, <2>1 DEF TasksAgree, Fits, taskVars
  <2>2. CASE j # k
    <3>1. ~Moving(j)
      BY <1>1, <1>2, <2>2 DEF Moving, IsMoving
    <3>2. Fits(j, t)
      BY <3>1 DEF TaskAgrees, Fits
    <3> QED BY <1>2, <2>2, <3>2 DEF Fits, taskVars
  <2> QED BY <2>1, <2>2
<1> QED BY <1>3, <1>4

LEMMA TasksStepOfCrash ==
  ASSUME IInv, TasksAgree, TaskAgrees, NEW x \in Actors, Crash(x)
  PROVE  TasksAgree' /\ TaskAgrees'
<1>1. /\ next'[x] = "nothing"
      /\ \A y \in Actors \ {x} :
           next'[y] = next[y] /\ at'[y] = at[y] /\ goal'[y] = goal[y]
      /\ crossed' = crossed \cup {j \in Rules : IsMoving(x, j)}
      /\ UNCHANGED <<status, taskOf, taskStatus, latest>>
  BY DEF Crash, Expect, IInv, TypeOK
<1>2. TasksAgree'
  BY <1>1, MovesStay DEF Actors
<1>3. TaskAgrees'
  <2> SUFFICES ASSUME NEW j \in Rules \ crossed', NEW t \in latest[j], ~Moving(j)'
               PROVE  Fits(j, t)'
    BY <1>1 DEF TaskAgrees, Fits
  <2>1. j \notin crossed /\ ~IsMoving(x, j)
    BY <1>1
  <2>2. ~Moving(j)
    BY <1>1, <2>1 DEF Moving, IsMoving, Actors
  <2> QED BY <1>1, <2>1, <2>2 DEF TaskAgrees, Fits
<1> QED BY <1>2, <1>3

LEMMA TasksStepOfRest ==
  ASSUME IInv, TasksAgree, TaskAgrees, UNCHANGED <<status, taskVars>>,
         \A r \in Requests :
           /\ next'[r] = "finding" <=> next[r] = "finding"
           /\ next[r] = "finding" => at'[r] = at[r] /\ goal'[r] = goal[r]
  PROVE  TasksAgree' /\ TaskAgrees'
<1>1. TasksAgree'
  BY MovesStay DEF taskVars
<1>2. \A j \in Rules : Moving(j)' <=> Moving(j)
  BY DEF Moving, IsMoving
<1> QED BY <1>1, <1>2 DEF TaskAgrees, taskVars

LEMMA TasksStep ==
  ASSUME IInv, TasksAgree, TaskAgrees, [Next]_vars
  PROVE  TasksAgree' /\ TaskAgrees'
<1>1. CASE UNCHANGED <<status, taskVars, next, at, goal>>
  BY <1>1, TasksStepOfRest
<1>2. ASSUME NEW r \in Requests, InsertFindingEvent(r)
      PROVE  TasksAgree' /\ TaskAgrees'
  <2>1. /\ next[r] = "event" /\ next'[r] = "nothing"
        /\ \A q \in Requests \ {r} :
             next'[q] = next[q] /\ at'[q] = at[q] /\ goal'[q] = goal[q]
        /\ UNCHANGED <<status, taskVars>>
    BY <1>2 DEF InsertFindingEvent, Expect, IInv, TypeOK, Actors
  <2> QED BY <2>1, TasksStepOfRest
<1>3. CASE UNCHANGED vars
  BY <1>1, <1>3 DEF vars, taskVars
<1>4. CASE \E w \in Workers :
             \/ \E e \in Observations : WorkerStores(w, e)
             \/ UpsertFinding(w)
             \/ Crash(w)
  BY <1>1, <1>4, TasksStepOfUpsert, TasksStepOfCrash DEF WorkerStores, Actors
<1>5. CASE \E r \in Requests :
             \/ \E e \in Observations : RequestStores(r, e)
             \/ \E i \in DOMAIN results : RequestDerives(r, i)
             \/ UpsertFinding(r)
             \/ \E k \in Rules, s \in Marks, noted \in BOOLEAN :
                  UpdateFindingStatus(r, k, s, noted)
             \/ InsertFindingEvent(r)
             \/ \E t \in Tasks, k \in Rules : CreateRemediationTask(r, t, k)
             \/ \E t \in Tasks, s \in Moves : UpdateRemediationStatus(r, t, s)
             \/ MoveFinding(r)
             \/ Crash(r)
  BY <1>1, <1>2, <1>5, TasksStepOfUpsert, TasksStepOfMark, TasksStepOfCreate,
     TasksStepOfTask, TasksStepOfMove, TasksStepOfCrash
     DEF RequestStores, RequestDerives, actorVars, Actors
<1> QED BY <1>3, <1>4, <1>5 DEF Next

(* A finding whose status a task set last has that task's status, or was   *)
(* reopened by a scan since, however many requests, workers and crashes:   *)
(* only moves that cross or are cut short leave the two apart.             *)
THEOREM TaskAgreesCorrect == Spec => []TaskAgrees
<1>1. Init => TasksAgree /\ TaskAgrees
  BY DEF Init, TasksAgree, TaskAgrees, IsMoving, Actors
<1>2. IInv /\ TasksAgree /\ TaskAgrees /\ [Next]_vars
        => TasksAgree' /\ TaskAgrees'
  BY TasksStep
<1> QED BY InvInit, InvStep, <1>1, <1>2, PTL DEF Spec
=============================================================================
