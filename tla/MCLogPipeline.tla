---- MODULE MCLogPipeline ----
EXTENDS LogPipeline
CONSTANTS t1, t2, t3, w, std, sys, c1, c2
====
