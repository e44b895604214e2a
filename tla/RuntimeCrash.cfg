\* Two programs open the database, and one of the openings dies or is tried
\* again; a runtime starts after or beside another, of which one runs in a
\* process that is not recognised, with a preflight between them; two runtimes share an account under a lease of 3 with a margin of 1,
\* so that it expires, is renewed and is taken over within the clock bound.
\* A program that was refused, and a runtime that has ended, stops.
CONSTANTS
    Openers = {p1, p2}
    Rows = {w1, w2}
    MaxCrashes = 1
    Startups = {s1, s2}
    Nobody = Nobody
    Hosted = {s2}
    Campaigns = {c1}
    NoCampaign = NoCampaign
    Runtimes = {r1, r2}
    NoOwner = NoOwner
    Ttl = 3
    MinValidity = 1
    FillDelay = 1
    MaxClock = 6
SYMMETRY Symmetry
SPECIFICATION StartSpec
INVARIANT LiveFollowsNoCrash
CHECK_DEADLOCK FALSE
