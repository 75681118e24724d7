---------------------------- MODULE MCLifecycleJobs ----------------------------
EXTENDS LifecycleJobs

CONSTANTS i1, i2, i3, o1, o2

MCIds == {i1, i2, i3}
MCOps == {o1, o2}
=============================================================================
