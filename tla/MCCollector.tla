---- MODULE MCCollector ----
EXTENDS Collector
CONSTANTS s1, s2
====
