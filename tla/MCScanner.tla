------------------------------ MODULE MCScanner ------------------------------
(* Scans of one domain, with the code's own bound on redirects.            *)
EXTENDS Scanner
=============================================================================
