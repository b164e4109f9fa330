---- MODULE MCAutomation ----
EXTENDS Automation, TLC
CONSTANTS p1, p2, c1, c2
OneProcess == {p1}
TwoProcesses == {p1, p2}
NoClick == {}
OneClick == {c1}
TwoClicks == {c1, c2}
OneOrTwo == {1, 2}
EveryMinute == {1}
ProcessesAlike == Permutations(TwoProcesses)
====
