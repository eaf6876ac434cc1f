---------------------------- MODULE MCDnsExchange ----------------------------
(***************************************************************************)
(* Small instances of DnsExchange for TLC.  Three names cover the three   *)
(* routes: np matches both a nameserver policy and a fallback domain      *)
(* filter (policy must win), nf matches only the domain filter, na is a   *)
(* plain name that is also an _acme-challenge name.  One address is       *)
(* matched by the fallback IP filter, one is not.                         *)
(***************************************************************************)
EXTENDS DnsExchange, TLC

CONSTANTS r1, r2, np, nf, na, ipClean, ipFiltered

MCRequests == {r1, r2}
MCNames == {np, nf, na}
MCAcmeNames == {na}
MCPolicyDomains == {np}
MCFallbackDomains == {np, nf}
MCIPs == {ipClean, ipFiltered}
MCFilteredIPs == {ipFiltered}


MCSymmetry == Permutations(MCRequests)

=============================================================================
