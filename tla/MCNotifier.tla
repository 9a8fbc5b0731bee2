---- MODULE MCNotifier ----
EXTENDS Notifier, TLC
CONSTANTS g1, g2, g3
OneKVM == {<<"kvm", 1>>}
SameId == {<<"docker", 1>>, <<"nas", 1>>}
\* Nothing tells one goroutine slot from another.
SlotSymmetry == Permutations(Slots)
====
