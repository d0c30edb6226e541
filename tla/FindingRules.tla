---------------------------- MODULE FindingRules ----------------------------
(***************************************************************************)
(* The finding rules of crates/findings: which findings a scan's evidence  *)
(* yields, in which order.  Of the evidence only what the rules read is    *)
(* kept: whether there are addresses and IPv6 ones among them, whether the *)
(* probe met an error and saw HSTS, and whether there are DMARC and SPF    *)
(* records.  Every probe asks for https.                                   *)
(***************************************************************************)
EXTENDS Sequences

Rules == {"dns_public_address_observed", "dns_ipv6_address_observed",
          "dns_no_address_records", "http_endpoint_unreachable",
          "tls_certificate_expiring_soon", "http_missing_hsts",
          "dns_missing_dmarc", "dns_missing_spf"}

SeverityOf(rule) ==
  CASE rule = "dns_public_address_observed" -> "info"
    [] rule \in {"dns_ipv6_address_observed", "http_missing_hsts",
                 "dns_missing_spf"} -> "low"
    [] OTHER -> "medium"

ConfidenceOf(rule) ==
  IF rule \in {"dns_ipv6_address_observed", "http_endpoint_unreachable",
               "http_missing_hsts"}
  THEN "medium"
  ELSE "high"

Evidence ==
  [kind : {"dns_baseline"}, addresses : SUBSET {"A", "AAAA"}]
    \cup [kind : {"http_probe"}, error : BOOLEAN, hsts : BOOLEAN]
    \cup [kind : {"dns_policy"}, dmarc : BOOLEAN, spf : BOOLEAN]

PushIf(drafts, condition, rule) ==
  IF condition THEN Append(drafts, rule) ELSE drafts

DnsBaselineDrafts(e) ==
  IF e.addresses = {}
  THEN <<"dns_no_address_records">>
  ELSE PushIf(<<"dns_public_address_observed">>,
              "AAAA" \in e.addresses, "dns_ipv6_address_observed")

HttpProbeDrafts(e) ==
  IF e.error
  THEN <<"http_endpoint_unreachable">>
  ELSE PushIf(<<>>, ~e.hsts, "http_missing_hsts")

DnsPolicyDrafts(e) ==
  PushIf(PushIf(<<>>, ~e.dmarc, "dns_missing_dmarc"),
         ~e.spf, "dns_missing_spf")

DeriveFindings(e) ==
  CASE e.kind = "dns_baseline" -> DnsBaselineDrafts(e)
    [] e.kind = "http_probe"   -> HttpProbeDrafts(e)
    [] e.kind = "dns_policy"   -> DnsPolicyDrafts(e)
=============================================================================
