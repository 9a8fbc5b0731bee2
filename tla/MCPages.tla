------------------------------ MODULE MCPages ------------------------------
(* An instance of Pages for TLC: samples of a host over a long and a short  *)
(* range, those of a cluster with one node, a gap and an anomaly.           *)
EXTENDS Pages

MCSetRegistered == {<<"kvm", 1>>}

Blank == [x \in {} |-> 0]
Host(at, usage, rx) ==
  [at |-> at, cpu |-> usage, temp |-> Gap, ram |-> usage, used |-> usage, total |-> 10, rx |-> rx, read |-> rx,
   online |-> TRUE, ifaces |-> [e \in {"eth0"} |-> [rx |-> rx, speed |-> 1]],
   disks |-> [d \in {"sda"} |-> [read |-> rx]], nodes |-> Blank]
Node(at, usage, rx) ==
  [Host(at, usage, rx) EXCEPT
     !.nodes = [n \in {"n1"} |-> [cpu |-> usage, temp |-> 5, ram |-> 1, rx |-> 1, used |-> usage, total |-> 9]],
     !.temp = 4, !.ifaces = Blank, !.disks = Blank]
Long    == [i \in 1..10 |-> Host(i, IF i = 10 THEN 9 ELSE 1, i * i)]
Short   == <<Host(3, 2, 4), Host(1, 1, 9), Host(3, 2, 5)>>
Cluster == [i \in 1..6 |-> Node(i, i, 7 - i)]
MCHistServers  == {<<"kvm", 1>>, <<"kubernetes", 1>>}
MCHistRecorded == [p \in MCHistServers \X {"15m", "1h"} |->
                     CASE p = <<<<"kvm", 1>>, "15m">>        -> Long
                       [] p = <<<<"kvm", 1>>, "1h">>         -> Short
                       [] p = <<<<"kubernetes", 1>>, "15m">> -> Cluster
                       [] OTHER                              -> <<>>]
MCHistMemory   == [s \in MCHistServers |-> IF s[1] = "kvm" THEN 10 ELSE 0]
MCHistQuiet    == {<<"kubernetes", 1>>}
MCHistLimits   == {<<50, 60>>, <<70, 40>>}

MCShServers == {<<"kvm", 1>>, <<"docker", 1>>}
Sent(source, host, name, severity) == [source |-> source, host |-> host, name |-> name, severity |-> severity]
MCShAlerts  == <<Sent("kvm", 1, "a", 1), Sent("docker", 0, "a", 2), Sent("kvm", 1, "b", 3)>>
=============================================================================
