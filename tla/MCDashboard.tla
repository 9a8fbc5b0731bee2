---------------------------- MODULE MCDashboard ----------------------------
(* Instances of Dashboard for TLC. *)
EXTENDS Dashboard

TwoTools == {{"docker", "kvm"}, {"docker", "pfsense"}, {"docker", "kubernetes"}, {"docker", "podman"}, {"nas", "pfsense"}, {"proxmox", "ceph"}}
DockerKubernetes == {{"docker", "kubernetes"}}
Reg    == [t \in Tools |-> IF t \in Listed \cup {"kvm"} THEN {1} ELSE {}]
Item   == [host |-> 1, name |-> "a", node |-> "n", running |-> TRUE, oom |-> TRUE, risk |-> "high"]
AList  == {{}, {Item}}
ANodes == {{[host |-> 1, name |-> "n", ready |-> TRUE]}}
=============================================================================
