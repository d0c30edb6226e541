---------------------------- MODULE ScannerProofs ----------------------------
(***************************************************************************)
(* Proofs about Scanner, for any URLs and any bound on redirects.          *)
(***************************************************************************)
EXTENDS Scanner, SequenceTheorems, TLAPS

(* The initial state satisfies the inductive invariant.                    *)
LEMMA InitIInv == Init => IInv
<1> SUFFICES ASSUME Init PROVE IInv
  OBVIOUS
<1>1. TypeOK
  <2>1. /\ scanType \in ScanTypes /\ pc = "start" /\ addresses = {}
        /\ turn = 0 /\ url = Home /\ finalUrl = Nowhere
        /\ chain = <<>> /\ answers = <<>>
    BY Zenon DEF Init
  <2>2. spf \in BOOLEAN /\ dmarc \in BOOLEAN /\ hsts \in BOOLEAN /\ error \in BOOLEAN
    BY Zenon DEF Init
  <2>3. chain \in Seq(Urls) /\ answers \in Seq(Answer)
    BY <2>1
  <2>4. addresses \subseteq {"A", "AAAA"} /\ turn \in Nat
    BY <2>1
  <2> QED BY <2>1, <2>2, <2>3, <2>4, ScannerAssumption, Zenon DEF TypeOK
<1>2. ~Settled /\ Asked = chain
  BY DEF Init, Settled, Asked
<1>3. ProbeTellsThePath
  BY <1>2, ScannerAssumption DEF Init, ProbeTellsThePath
<1>4. LocalsFitAnswers
  BY DEF Init, LocalsFitAnswers
<1> QED BY <1>1, <1>3, <1>4 DEF IInv

(* The answers a probe has are not touched by the other steps.             *)
LEMMA OtherStepsKeepIInv ==
  ASSUME IInv, UNCHANGED <<scanType, turn, url, chain, finalUrl, hsts, answers>>,
         TypeOK', pc' # "start", pc' = "probing" => BuildClient,
         pc' = "dmarc" => QuerySpf,
         pc' = "done" => scanType # "http_probe" \/ RequestFails
  PROVE  IInv'
<1>1. Settled' <=> Settled
  BY DEF Settled
<1>2. Asked' = Asked
  BY DEF Asked
<1>3. ProbeTellsThePath'
  <2>1. pc' = "done" /\ scanType' = "http_probe" => error'
    BY DEF RequestFails
  <2> QED BY <1>1, <1>2, <2>1 DEF IInv, ProbeTellsThePath
<1>4. LocalsFitAnswers'
  <2>1. pc' = "probing" => /\ scanType = "http_probe" /\ pc = "start"
                           /\ error' = error
    BY DEF BuildClient, probeVars
  <2>2. pc' = "dmarc" => scanType = "dns_policy"
    BY DEF QuerySpf
  <2>3. pc' = "done" /\ scanType = "http_probe" => error'
    BY DEF RequestFails
  <2>4. HasTurn(0)
    BY ScannerAssumption DEF HasTurn
  <2>5. pc = "start" => ~Settled /\ Len(answers) = 0
    BY DEF IInv, LocalsFitAnswers, Settled
  <2> QED BY <1>1, <2>1, <2>2, <2>3, <2>4, <2>5 DEF IInv, LocalsFitAnswers
<1> QED BY <1>3, <1>4 DEF IInv

(* An answer joins the path where the last one led.                        *)
LEMMA ReceiveAnswerKeepsIInv ==
  ASSUME IInv, NEW to \in Urls \cup {Nowhere}, NEW h \in BOOLEAN,
         ReceiveAnswer(to, h)
  PROVE  IInv'
<1> DEFINE a == [from |-> url, to |-> to, hsts |-> h]
           n == Len(answers)
<1>1. /\ pc = "probing" /\ answers' = Append(answers, a)
      /\ finalUrl' = url /\ hsts' = h
      /\ UNCHANGED <<scanType, dnsVars, error>>
  BY DEF ReceiveAnswer, FinalHeaders
<1>2. /\ to = Nowhere => pc' = "done" /\ UNCHANGED <<chain, url, turn>>
      /\ to # Nowhere => /\ chain' = Append(chain, url) /\ url' = to
                         /\ turn' = turn + 1
                         /\ pc' = IF HasTurn(turn + 1) THEN "probing" ELSE "done"
  BY DEF ReceiveAnswer, Follow
<1>3. /\ url \in Urls /\ chain \in Seq(Urls) /\ answers \in Seq(Answer)
      /\ turn \in Nat
  BY DEF IInv, TypeOK
<1>4. a \in Answer
  BY <1>3 DEF Answer
<1>5. a.from = url /\ a.to = to /\ a.hsts = h
  OBVIOUS
<1> HIDE DEF a
<1>6. /\ answers' \in Seq(Answer) /\ Len(answers') = n + 1
      /\ DOMAIN answers' = 1 .. n + 1 /\ DOMAIN answers = 1 .. n /\ n \in Nat
      /\ \A i \in 1 .. n : answers'[i] = answers[i]
      /\ answers'[n + 1] = a
      /\ answers' # <<>>
  BY <1>1, <1>3, <1>4
<1>7. TypeOK'
  <2>1. /\ chain' \in Seq(Urls) /\ url' \in Urls /\ turn' \in Nat
        /\ pc' \in {"probing", "done"}
    <3>1. CASE to = Nowhere
      BY <1>2, <1>3, <3>1
    <3>2. CASE to # Nowhere
      <4>1. to \in Urls
        BY <3>2
      <4>2. Append(chain, url) \in Seq(Urls)
        BY <1>3
      <4> QED BY <1>2, <1>3, <3>2, <4>1, <4>2
    <3> QED BY <3>1, <3>2
  <2>2. finalUrl' \in Urls /\ hsts' \in BOOLEAN
    BY <1>1, <1>3, Zenon
  <2>3. UNCHANGED <<scanType, addresses, spf, dmarc, error>>
    BY <1>1 DEF dnsVars
  <2>4. /\ scanType' \in ScanTypes /\ addresses' \subseteq {"A", "AAAA"}
        /\ spf' \in BOOLEAN /\ dmarc' \in BOOLEAN /\ error' \in BOOLEAN
    BY <2>3, Zenon DEF IInv, TypeOK
  <2> QED BY <1>6, <2>1, <2>2, <2>4, Zenon DEF TypeOK
<1>8. /\ ~Settled /\ turn = n /\ n <= MAX_REDIRECTS
      /\ url = IF n = 0 THEN Home ELSE answers[n].to
      /\ scanType = "http_probe" /\ ~error
  BY <1>1, <1>6 DEF IInv, LocalsFitAnswers, HasTurn
<1>9. Asked = chain /\ Len(chain) = n
  BY <1>3, <1>6, <1>8 DEF IInv, ProbeTellsThePath, Asked
<1>10. Asked' = Append(chain, url)
  <2>1. /\ Append(chain, url) \in Seq(Urls) /\ Len(Append(chain, url)) = n + 1
        /\ \A i \in 1 .. n : Append(chain, url)[i] = chain[i]
        /\ Append(chain, url)[n + 1] = url
    BY <1>3, <1>9, AppendProperties
  <2>2. \A i \in 1 .. n + 1 : answers'[i] \in Answer
    BY <1>6
  <2>3. /\ Asked' = [i \in 1 .. n + 1 |-> answers'[i].from]
        /\ \A i \in 1 .. n + 1 : answers'[i].from \in Urls
    BY <1>6, <2>2 DEF Asked, Answer
  <2>4. Asked' \in Seq(Urls) /\ Len(Asked') = n + 1
    BY <1>6, <2>3
  <2>5. \A i \in 1 .. n : Asked'[i] = chain[i]
    BY <1>6, <1>9, <2>3 DEF Asked
  <2>6. Asked'[n + 1] = url
    BY <1>5, <1>6, <2>3
  <2>7. \A i \in 1 .. n + 1 : i \in 1 .. n \/ i = n + 1
    BY <1>6
  <2>8. \A i \in 1 .. n + 1 : Asked'[i] = Append(chain, url)[i]
    BY <2>1, <2>5, <2>6, <2>7
  <2> QED BY <2>1, <2>4, <2>8, SeqEqual
<1>11. Settled' <=> to = Nowhere
  BY <1>5, <1>6 DEF Settled
<1>12. ProbeTellsThePath'
  <2>1. Asked' = IF Settled' THEN Append(chain', finalUrl') ELSE chain'
    BY <1>1, <1>2, <1>10, <1>11
  <2>2. finalUrl' = Asked'[Len(answers')]
    BY <1>1, <1>3, <1>6, <1>9, <1>10
  <2>3. \A i \in DOMAIN answers' :
          Asked'[i] = IF i = 1 THEN Home ELSE answers'[i - 1].to
    <3>1. SUFFICES ASSUME NEW i \in 1 .. n + 1
                   PROVE  Asked'[i] = IF i = 1 THEN Home ELSE answers'[i - 1].to
      BY <1>6
    <3>2. CASE i = n + 1
      BY <1>3, <1>6, <1>8, <1>9, <1>10, <3>2
    <3>3. CASE i # n + 1
      <4>1. i \in 1 .. n /\ (i # 1 => i - 1 \in 1 .. n)
        BY <1>6, <3>3
      <4>2. Asked[i] = IF i = 1 THEN Home ELSE answers[i - 1].to
        BY <1>6, <4>1 DEF IInv, ProbeTellsThePath
      <4> QED BY <1>3, <1>6, <1>9, <1>10, <4>1, <4>2
    <3> QED BY <3>2, <3>3
  <2>4. Len(answers') <= MAX_REDIRECTS + 1
    BY <1>6, <1>8, ScannerAssumption
  <2>5. pc' = "done" /\ ~Settled' => Len(answers') = MAX_REDIRECTS + 1
    BY <1>2, <1>6, <1>8, <1>11, ScannerAssumption DEF HasTurn
  <2> QED BY <2>1, <2>2, <2>3, <2>4, <2>5 DEF ProbeTellsThePath
<1>13. LocalsFitAnswers'
  <2>1. hsts' = answers'[Len(answers')].hsts
    BY <1>1, <1>5, <1>6
  <2>2. pc' = "probing" => /\ ~Settled' /\ turn' = Len(answers') /\ HasTurn(turn')
                           /\ url' = answers'[Len(answers')].to
    BY <1>2, <1>5, <1>6, <1>8, <1>11
  <2>3. pc' \in {"probing", "done"} /\ scanType' = "http_probe" /\ ~error'
    BY <1>1, <1>2, <1>8
  <2> QED BY <1>6, <2>1, <2>2, <2>3 DEF LocalsFitAnswers, HasTurn
<1> QED BY <1>7, <1>12, <1>13 DEF IInv

(* Every step keeps the inductive invariant.                               *)
LEMMA NextIInv == IInv /\ [Next]_vars => IInv'
<1> SUFFICES ASSUME IInv, [Next]_vars PROVE IInv'
  OBVIOUS
<1>1. CASE ScanFails
  <2>1. TypeOK'
    BY <1>1 DEF IInv, TypeOK, ScanFails, dnsVars, probeVars
  <2> QED BY <1>1, <2>1, OtherStepsKeepIInv DEF ScanFails, dnsVars, probeVars
<1>2. CASE ResolveDnsBaseline
  <2>1. TypeOK'
    BY <1>2 DEF IInv, TypeOK, ResolveDnsBaseline, probeVars
  <2> QED BY <1>2, <2>1, OtherStepsKeepIInv DEF ResolveDnsBaseline, probeVars
<1>3. CASE QuerySpf
  <2>1. TypeOK'
    BY <1>3 DEF IInv, TypeOK, QuerySpf, probeVars
  <2> QED BY <1>3, <2>1, OtherStepsKeepIInv DEF QuerySpf, probeVars
<1>4. CASE QueryDmarc
  <2>1. TypeOK'
    BY <1>4 DEF IInv, TypeOK, QueryDmarc, probeVars
  <2>2. scanType = "dns_policy"
    BY <1>4 DEF IInv, LocalsFitAnswers, QueryDmarc
  <2> QED BY <1>4, <2>1, <2>2, OtherStepsKeepIInv DEF QueryDmarc, probeVars
<1>5. CASE BuildClient
  <2>1. TypeOK'
    BY <1>5 DEF IInv, TypeOK, BuildClient, dnsVars, probeVars
  <2> QED BY <1>5, <2>1, OtherStepsKeepIInv DEF BuildClient, dnsVars, probeVars
<1>6. ASSUME NEW to \in Urls \cup {Nowhere}, NEW h \in BOOLEAN,
             ReceiveAnswer(to, h)
      PROVE  IInv'
  BY <1>6, ReceiveAnswerKeepsIInv
<1>7. CASE RequestFails
  <2>1. TypeOK'
    BY <1>7 DEF IInv, TypeOK, RequestFails, dnsVars
  <2> QED BY <1>7, <2>1, OtherStepsKeepIInv DEF RequestFails
<1>8. CASE UNCHANGED vars
  BY <1>8 DEF IInv, TypeOK, ProbeTellsThePath, LocalsFitAnswers, Settled, Asked,
              vars, dnsVars, probeVars
<1> QED BY <1>1, <1>2, <1>3, <1>4, <1>5, <1>6, <1>7, <1>8 DEF Next

-----------------------------------------------------------------------------
(* The inductive invariant.                                                *)
THEOREM IInvCorrect == Spec => []IInv
<1>1. Init => IInv
  BY InitIInv
<1>2. IInv /\ [Next]_vars => IInv'
  BY NextIInv
<1> QED BY <1>1, <1>2, PTL DEF Spec

(* The locals of the scan functions keep their types.                      *)
THEOREM TypeCorrect == Spec => []TypeOK
<1>1. IInv => TypeOK
  BY DEF IInv
<1> QED BY <1>1, IInvCorrect, PTL

(* Chain and final URL tell the path a probe took, which no server makes   *)
(* longer than the bound allows.                                           *)
THEOREM ProbeTellsThePathCorrect == Spec => []ProbeTellsThePath
<1>1. IInv => ProbeTellsThePath
  BY DEF IInv
<1> QED BY <1>1, IInvCorrect, PTL

-----------------------------------------------------------------------------
(* What a scan returns is evidence the finding rules are made for.         *)
LEMMA FoundIsEvidence ==
  ASSUME TypeOK
  PROVE  /\ FoundEvidence \in Evidence
         /\ scanType = "http_probe" =>
              FoundEvidence = [kind |-> "http_probe", error |-> error, hsts |-> hsts]
<1>1. CASE scanType = "dns_baseline"
  <2>1. FoundEvidence = [kind |-> "dns_baseline", addresses |-> addresses]
    BY <1>1 DEF FoundEvidence
  <2>2. addresses \in SUBSET {"A", "AAAA"}
    BY DEF TypeOK
  <2> QED BY <1>1, <2>1, <2>2 DEF Evidence
<1>2. CASE scanType = "http_probe"
  <2>1. FoundEvidence = [kind |-> "http_probe", error |-> error, hsts |-> hsts]
    BY <1>2 DEF FoundEvidence
  <2>2. [kind |-> "http_probe", error |-> error, hsts |-> hsts]
          \in [kind : {"http_probe"}, error : BOOLEAN, hsts : BOOLEAN]
    BY Zenon DEF TypeOK
  <2> QED BY <2>1, <2>2, Zenon DEF Evidence
<1>3. CASE scanType = "dns_policy"
  <2>1. FoundEvidence = [kind |-> "dns_policy", dmarc |-> dmarc, spf |-> spf]
    BY <1>3 DEF FoundEvidence
  <2>2. [kind |-> "dns_policy", dmarc |-> dmarc, spf |-> spf]
          \in [kind : {"dns_policy"}, dmarc : BOOLEAN, spf : BOOLEAN]
    BY Zenon DEF TypeOK
  <2> QED BY <1>3, <2>1, <2>2 DEF Evidence
<1> QED BY <1>1, <1>2, <1>3 DEF TypeOK, ScanTypes

(* Whatever the network does, the evidence of a scan is one of those the   *)
(* rules and the findings' lifecycle are checked for.                      *)
THEOREM EvidenceCorrect == Spec => [](FoundEvidence \in Evidence)
<1>1. TypeOK => FoundEvidence \in Evidence
  BY FoundIsEvidence
<1> QED BY <1>1, TypeCorrect, PTL

(* The findings of a probe are about its last request.                     *)
THEOREM FindingsFitAnswersCorrect == Spec => []FindingsFitAnswers
<1>1. IInv => FindingsFitAnswers
  <2> SUFFICES ASSUME IInv, pc = "done", scanType = "http_probe"
               PROVE  FindingsFitAnswers
    BY DEF FindingsFitAnswers
  <2> DEFINE e == FoundEvidence
             drafts == DeriveFindings(e)
             Found(rule) == \E i \in DOMAIN drafts : drafts[i] = rule
  <2>1. e = [kind |-> "http_probe", error |-> error, hsts |-> hsts]
    BY FoundIsEvidence DEF IInv
  <2>2. e.kind = "http_probe" /\ e.error = error /\ e.hsts = hsts
    BY <2>1
  <2>3. drafts = HttpProbeDrafts(e)
    BY <2>2 DEF DeriveFindings
  <2>4. /\ error \in BOOLEAN /\ hsts \in BOOLEAN
        /\ answers # <<>> => hsts = answers[Len(answers)].hsts
        /\ error \/ answers # <<>>
    BY DEF IInv, TypeOK, LocalsFitAnswers
  <2>5. CASE error
    <3>1. drafts = <<"http_endpoint_unreachable">>
      BY <2>2, <2>3, <2>5 DEF HttpProbeDrafts
    <3>2. Found("http_endpoint_unreachable") /\ ~Found("http_missing_hsts")
      BY <3>1
    <3> QED BY <2>5, <3>2 DEF FindingsFitAnswers
  <2>6. CASE ~error /\ hsts
    <3>1. drafts = <<>>
      BY <2>2, <2>3, <2>6 DEF HttpProbeDrafts, PushIf
    <3>2. ~Found("http_endpoint_unreachable") /\ ~Found("http_missing_hsts")
      BY <3>1
    <3> QED BY <2>4, <2>6, <3>2 DEF FindingsFitAnswers
  <2>7. CASE ~error /\ ~hsts
    <3>1. drafts = <<"http_missing_hsts">>
      BY <2>2, <2>3, <2>7 DEF HttpProbeDrafts, PushIf
    <3>2. ~Found("http_endpoint_unreachable") /\ Found("http_missing_hsts")
      BY <3>1
    <3> QED BY <2>4, <2>7, <3>2 DEF FindingsFitAnswers
  <2> QED BY <2>5, <2>6, <2>7
<1> QED BY <1>1, IInvCorrect, PTL

-----------------------------------------------------------------------------
(* Each step leaves a scan fewer.                                          *)
LEMMA StepIsSpent ==
  ASSUME IInv, Next
  PROVE  StepsLeft' \in Nat /\ StepsLeft' < StepsLeft
<1>1. MAX_REDIRECTS \in Nat /\ turn \in Nat
  BY ScannerAssumption DEF IInv, TypeOK
<1>2. CASE ScanFails \/ ResolveDnsBaseline \/ QuerySpf \/ QueryDmarc
  BY <1>1, <1>2
  DEF StepsLeft, ScanFails, ResolveDnsBaseline, QuerySpf, QueryDmarc
<1>3. CASE BuildClient
  <2>1. turn = 0 /\ turn' = turn /\ pc = "start" /\ pc' = "probing"
    BY <1>3 DEF IInv, LocalsFitAnswers, BuildClient, probeVars
  <2> QED BY <1>1, <2>1 DEF StepsLeft
<1>4. ASSUME pc = "probing", pc' = "done"
      PROVE  StepsLeft' \in Nat /\ StepsLeft' < StepsLeft
  <2>1. turn <= MAX_REDIRECTS
    BY <1>4 DEF IInv, LocalsFitAnswers, HasTurn
  <2> QED BY <1>1, <1>4, <2>1 DEF StepsLeft
<1>5. ASSUME NEW to, NEW h, ReceiveAnswer(to, h)
      PROVE  StepsLeft' \in Nat /\ StepsLeft' < StepsLeft
  <2>1. CASE pc' = "done"
    BY <1>4, <1>5, <2>1 DEF ReceiveAnswer
  <2>2. CASE pc' # "done"
    <3>1. /\ pc = "probing" /\ pc' = "probing"
          /\ turn' = turn + 1 /\ turn' <= MAX_REDIRECTS
      BY <1>5, <2>2 DEF ReceiveAnswer, Follow, HasTurn
    <3> QED BY <1>1, <3>1 DEF StepsLeft
  <2> QED BY <2>1, <2>2
<1>6. CASE RequestFails
  BY <1>4, <1>6 DEF RequestFails
<1> QED BY <1>2, <1>3, <1>5, <1>6 DEF Next

(* A scan makes at most MAX_REDIRECTS + 2 steps, among any servers: the    *)
(* safety half of ScanEnds.                                                *)
THEOREM StepsRunOutCorrect == Spec => StepsRunOut
<1>1. IInv /\ [Next]_vars
        => [StepsLeft' \in Nat /\ StepsLeft' < StepsLeft]_vars
  BY StepIsSpent
<1> QED BY <1>1, IInvCorrect, PTL DEF Spec, StepsRunOut
=============================================================================
