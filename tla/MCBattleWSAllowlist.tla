------------------------- MODULE MCBattleWSAllowlist -------------------------
EXTENDS BattleWSAllowlist

CONSTANTS s1, s2, none

MCServers == {s1, s2}
MCNoMap == {none}
=============================================================================
