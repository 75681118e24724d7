---------------------------- MODULE MCSharedRegistry ----------------------------
EXTENDS SharedRegistry

CONSTANTS s1, s2, v1, v2, k1, x1, x2, t1, t2

MCServers == {s1, s2}
MCVersions == {v1, v2}
MCThreads == {t1, t2}
=============================================================================
