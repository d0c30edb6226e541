------------------------------- MODULE Scanner -------------------------------
(***************************************************************************)
(* One scan of a domain (crates/scanner), from the job's scan type to the  *)
(* evidence it returns and the findings that gives: the DNS baseline, the  *)
(* HTTPS probe with the redirects it follows, and the DNS policy lookups.  *)
(*                                                                         *)
(* The network answers as it likes, and differently every time.  Of an     *)
(* HTTP answer the module keeps where it leads, which is nowhere unless it *)
(* is a redirect with a Location, and whether it has the HSTS header, the  *)
(* only header the finding rules read.  Failures before the first request  *)
(* (an invalid domain, no client) fail the scan as a failed lookup does.   *)
(***************************************************************************)
EXTENDS Naturals, FindingRules

CONSTANTS
  Urls,          \* what servers redirect to
  Home,          \* https://{domain}/
  Nowhere,       \* no URL
  MAX_REDIRECTS

ASSUME ScannerAssumption ==
  /\ Home \in Urls
  /\ Nowhere \notin Urls
  /\ MAX_REDIRECTS \in Nat

ScanTypes == {"dns_baseline", "http_probe", "dns_policy"}

VARIABLES
  scanType,
  pc,
  addresses,     \* the record types among the addresses
  spf, dmarc,    \* whether the record was found
  turn,          \* turns of the probe's loop begun and ended
  url,           \* what it asks for next
  chain,         \* redirect_chain
  finalUrl,      \* final_url, Nowhere for None
  hsts,          \* final_headers have Strict-Transport-Security
  error,         \* error is Some
  answers        \* history: every HTTP answer, in order

dnsVars   == <<addresses, spf, dmarc>>
probeVars == <<turn, url, chain, finalUrl, hsts, error, answers>>
vars == <<scanType, pc, dnsVars, probeVars>>

Answer == [from : Urls, to : Urls \cup {Nowhere}, hsts : BOOLEAN]

(* The locals of the scan functions are of their types.                    *)
TypeOK ==
  /\ scanType \in ScanTypes
  /\ pc \in {"start", "probing", "dmarc", "done", "failed"}
  /\ addresses \subseteq {"A", "AAAA"}
  /\ spf \in BOOLEAN /\ dmarc \in BOOLEAN
  /\ turn \in Nat
  /\ url \in Urls
  /\ chain \in Seq(Urls)
  /\ finalUrl \in Urls \cup {Nowhere}
  /\ hsts \in BOOLEAN /\ error \in BOOLEAN
  /\ answers \in Seq(Answer)

Init ==
  /\ scanType \in ScanTypes
  /\ pc = "start"
  /\ addresses = {} /\ spf = FALSE /\ dmarc = FALSE
  /\ turn = 0
  /\ url = Home
  /\ chain = <<>>
  /\ finalUrl = Nowhere
  /\ hsts = FALSE /\ error = FALSE
  /\ answers = <<>>

-----------------------------------------------------------------------------
(* The DNS scans; BuildClient starts the probe.  execute_scan_job takes the *)
(* function of the type, and any error it returns fails the scan.          *)

(* Mutant: a failed lookup is tried again.                                 *)
LookupAgain ==
  /\ pc = "start" \/ pc = "dmarc"
  /\ pc' = "start"
  /\ UNCHANGED <<scanType, dnsVars, probeVars>>

ScanFails ==
  /\ pc = "start" \/ pc = "dmarc"
  /\ pc' = "failed"
  /\ UNCHANGED <<scanType, dnsVars, probeVars>>

ResolveDnsBaseline ==
  /\ pc = "start" /\ scanType = "dns_baseline"
  /\ addresses' \in SUBSET {"A", "AAAA"}
  /\ pc' = "done"
  /\ UNCHANGED <<scanType, spf, dmarc, probeVars>>

QuerySpf ==
  /\ pc = "start" /\ scanType = "dns_policy"
  /\ spf' \in BOOLEAN
  /\ pc' = "dmarc"
  /\ UNCHANGED <<scanType, addresses, dmarc, probeVars>>

QueryDmarc ==
  /\ pc = "dmarc"
  /\ dmarc' \in BOOLEAN
  /\ pc' = "done"
  /\ UNCHANGED <<scanType, addresses, spf, probeVars>>

-----------------------------------------------------------------------------
(* probe_http_endpoint.                                                    *)

BuildClient ==
  /\ pc = "start" /\ scanType = "http_probe"
  /\ pc' = "probing"
  /\ UNCHANGED <<scanType, dnsVars, probeVars>>

(* Mutant: redirects are followed as long as there are any.                *)
EveryTurn(n) == TRUE

(* Whether the loop has a turn after its first n.                          *)
HasTurn(n) == n <= MAX_REDIRECTS

(* Mutant: the URL is resolved first, then pushed.                         *)
FollowThenPush(to) ==
  /\ chain' = Append(chain, to)
  /\ url' = to
  /\ turn' = turn + 1
  /\ pc' = IF HasTurn(turn + 1) THEN "probing" ELSE "done"

(* A redirect with a location: the URL asked for joins the chain.          *)
Follow(to) ==
  /\ chain' = Append(chain, url)
  /\ url' = to
  /\ turn' = turn + 1
  /\ pc' = IF HasTurn(turn + 1) THEN "probing" ELSE "done"

(* Mutant: the headers of the first answer are kept.                       *)
FirstHeaders(h) == IF finalUrl = Nowhere THEN h ELSE hsts

(* final_headers once an answer with or without HSTS has come.             *)
FinalHeaders(h) == h

ReceiveAnswer(to, h) ==
  /\ pc = "probing"
  /\ answers' = Append(answers, [from |-> url, to |-> to, hsts |-> h])
  /\ finalUrl' = url
  /\ hsts' = FinalHeaders(h)
  /\ IF to = Nowhere
     THEN pc' = "done" /\ UNCHANGED <<chain, url, turn>>
     ELSE Follow(to)
  /\ UNCHANGED <<scanType, dnsVars, error>>

(* No answer: what earlier answers set stays.                              *)
RequestFails ==
  /\ pc = "probing"
  /\ error' = TRUE
  /\ pc' = "done"
  /\ UNCHANGED <<scanType, dnsVars, turn, url, chain, finalUrl, hsts, answers>>

-----------------------------------------------------------------------------
Next ==
  \/ ScanFails
  \/ ResolveDnsBaseline
  \/ QuerySpf
  \/ QueryDmarc
  \/ BuildClient
  \/ \E to \in Urls \cup {Nowhere}, h \in BOOLEAN : ReceiveAnswer(to, h)
  \/ RequestFails

Spec == Init /\ [][Next]_vars

(* Every request of the clients ends, by their timeouts at the latest, and *)
(* so does a lookup of the system's resolver.                              *)
FairSpec == Spec /\ WF_vars(Next)

(* The evidence of a scan that is done, as far as the rules read it.       *)
FoundEvidence ==
  CASE scanType = "dns_baseline" -> [kind |-> "dns_baseline", addresses |-> addresses]
    [] scanType = "http_probe"   -> [kind |-> "http_probe", error |-> error, hsts |-> hsts]
    [] scanType = "dns_policy"   -> [kind |-> "dns_policy", dmarc |-> dmarc, spf |-> spf]

-----------------------------------------------------------------------------
(* Properties.                                                             *)

Asked   == [i \in DOMAIN answers |-> answers[i].from]
Settled == answers # <<>> /\ answers[Len(answers)].to = Nowhere

(* The redirect chain and the final URL tell the answers a probe got, in   *)
(* the order it got them, from the domain itself on and each where the one *)
(* before had led: the final URL ends the chain when redirects ran out or  *)
(* the next request failed, and follows it otherwise.  However they        *)
(* redirect, servers are asked at most MAX_REDIRECTS + 1 times.            *)
ProbeTellsThePath ==
  /\ Asked = IF Settled THEN Append(chain, finalUrl) ELSE chain
  /\ answers # <<>> => finalUrl = Asked[Len(answers)]
  /\ \A i \in DOMAIN answers :
       Asked[i] = IF i = 1 THEN Home ELSE answers[i - 1].to
  /\ Len(answers) <= MAX_REDIRECTS + 1
  /\ pc = "done" /\ scanType = "http_probe" /\ ~error /\ ~Settled
       => Len(answers) = MAX_REDIRECTS + 1

(* What a probe gives findings for: an endpoint is unreachable when a      *)
(* request failed, also after redirects that were answered; HSTS is        *)
(* missing when the last answer had none, be it a redirect, in the clear   *)
(* or another host's, whatever the answers before it had.                  *)
FindingsFitAnswers ==
  pc = "done" /\ scanType = "http_probe" =>
    LET Found(rule) == \E i \in DOMAIN DeriveFindings(FoundEvidence) :
                         DeriveFindings(FoundEvidence)[i] = rule
    IN  /\ Found("http_endpoint_unreachable") <=> error
        /\ Found("http_missing_hsts")
             <=> ~error /\ answers # <<>> /\ ~answers[Len(answers)].hsts
        /\ answers = <<>> => Found("http_endpoint_unreachable")

(* What keeps them: what the locals say of the answers so far.             *)
LocalsFitAnswers ==
  /\ IF answers = <<>>
     THEN finalUrl = Nowhere
     ELSE hsts = answers[Len(answers)].hsts
  /\ pc = "start" => answers = <<>> /\ ~error /\ turn = 0 /\ url = Home
  /\ pc = "dmarc" => scanType = "dns_policy"
  /\ pc = "probing" =>
       /\ scanType = "http_probe" /\ ~error /\ ~Settled
       /\ turn = Len(answers) /\ HasTurn(turn)
       /\ url = IF answers = <<>> THEN Home ELSE answers[Len(answers)].to
  /\ pc = "done" /\ scanType = "http_probe" => error \/ answers # <<>>

IInv == TypeOK /\ ProbeTellsThePath /\ LocalsFitAnswers

(* Every step of a scan leaves it fewer: whatever servers answer, a scan   *)
(* makes at most MAX_REDIRECTS + 2 steps, the building of the client and   *)
(* the turns of the loop (scanner 107-154).                                *)
StepsLeft ==
  CASE pc = "start"   -> MAX_REDIRECTS + 2
    [] pc = "probing" -> (MAX_REDIRECTS + 1) - turn
    [] pc = "dmarc"   -> 1
    [] OTHER          -> 0

StepsRunOut == [][StepsLeft' \in Nat /\ StepsLeft' < StepsLeft]_vars

(* Every scan ends, also among servers that redirect in circles.           *)
ScanEnds == <>(pc \in {"done", "failed"})
=============================================================================
