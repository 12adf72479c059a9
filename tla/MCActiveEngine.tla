--------------------------- MODULE MCActiveEngine ---------------------------
(* Instances of ActiveEngine for TLC. *)
EXTENDS ActiveEngine

Web(h, port, said, path, prints) ==
    [kind |-> "web", host |-> h, port |-> port, said |-> said, path |-> path, prints |-> prints]
Fingerprint(n, c) == [name |-> n, code |-> c]
Ports(h, ps) == [kind |-> "port", host |-> h, ports |-> ps]
MCActiveTargets == [web_probe |-> {"t1", "t2"}, port_probe |-> {"i1", "i2"},
                    fingerprint |-> {"t3", "t4"}]
MCInvalidTargets == [web_probe |-> {"t3", "t4"}]
MCResultOf ==
    [t1 |-> Web("h", 443, 443, "/", {Fingerprint("nginx", "200"), Fingerprint("sensitive", "")}),
     t2 |-> Web("h", 443, 0, "sensitive", {Fingerprint("nginx", "404")}),
     t3 |-> Web("g", 80, 0, "/", {}),
     t4 |-> Web("g", 80, 81, "/", {}),
     i1 |-> Ports("i1", {22, 80}), i2 |-> Ports("i2", {})]
MCPortOptions == {<<>>, <<<<22, 22>>, <<80, 90>>>>}

(* A run past its deadline, with an engine that answers and lists the same *)
(* results in the same order, one of which the platform cannot accept.     *)
TimeoutSpec == ActiveInit /\ [][ActiveMoves]_activeVars /\ ActiveFairness

=============================================================================
