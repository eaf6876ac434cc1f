---------------------------- MODULE MCDnsResolve ----------------------------
(* Model-checking instance of DnsResolve: two concurrent callers and one  *)
(* host of each kind the resolve path tells apart.                        *)
EXTENDS DnsResolve, TLC

CONSTANTS t1, t2,
          hV4,      \* hosts entry with an IPv4 address
          hV6,      \* hosts entry with an IPv6 address
          hLit4,    \* "1.2.3.4"
          hLit6,    \* "::1"
          hDom,     \* a plain domain
          hSkip     \* a domain matched by fake_ip_filter

MCTasks == {t1, t2}
MCHosts == {hV4, hV6, hLit4, hLit6, hDom, hSkip}
MCHostsTable == [h \in MCHosts |->
                   CASE h = hV4 -> "v4" [] h = hV6 -> "v6"
                     [] OTHER -> "none"]
MCLiteral == [h \in MCHosts |->
                CASE h = hLit4 -> "v4" [] h = hLit6 -> "v6" [] OTHER -> "none"]
MCFakeSkip == {hSkip}

\* Hosts tables holding one kind of entry only.
MCHostsTableV4Only == [h \in MCHosts |-> IF h = hV4 THEN "v4" ELSE "none"]
MCHostsTableEmpty == [h \in MCHosts |-> "none"]

\* For the liveness run: the hosts whose resolution waits (lock, upstream),
\* without the ones answered synchronously.
MCHostsLive == {hDom, hSkip}
MCHostsTableLive == [h \in MCHostsLive |-> MCHostsTable[h]]
MCLiteralLive == [h \in MCHostsLive |-> MCLiteral[h]]

MCTaskSymmetry == Permutations(MCTasks)
=============================================================================
