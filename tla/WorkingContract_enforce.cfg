SPECIFICATION FairSpec
CONSTANTS
    Tasks = {t1, t2}
    Agents = {a1, a2}
    Ticks = {worker}
    Stale = 1
    Grace = 1
    Startup = 1
    Cloud = TRUE
    MaxRestarts = 1
INVARIANT TypeOK
PROPERTIES OnlyDoingRequeued OneWarningPerSpell SilentIsRequeued
