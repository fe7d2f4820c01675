SPECIFICATION Spec
CONSTANTS
    Tasks = {t1, t2}
    Agents = {a1, a2}
    Ticks = {worker, route}
    Stale = 1
    Grace = 1
    Startup = 1
    Cloud = TRUE
    MaxRestarts = 1
PROPERTY NeverRequeuesSubmitted
