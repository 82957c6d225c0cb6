SPECIFICATION MCSpec
CONSTANTS
    s1 = s1  s2 = s2  u1 = u1  u2 = u2  t1 = t1  t2 = t2  a1 = a1  a2 = a2  r1 = r1  r2 = r2
    Services = {s1, s2}
    Urls = {u1, u2}
    Loop = Loop
    Tasks = {t1, t2}
    Tries = 2
    MaxFlips = 1
    Tables = {"hosts"}
    Keys = {"h1"}
    Agents = {a1, a2}
    Legacy = {a1, a2}
    Names = {"n1", "n2"}
    Scripts = {"x", "y"}  SomeJob = "x"
    Reqs = {r1, r2}
    MaxCalls = 3
    MaxTemplates = 2
    None = None
    Titles = {"n1", "n2"}
    Links = {"l1"}
    Times = {1}
    MaxApps = 2
    MaxSeq = 3
    MaxClicks = 1
    NoApp = NoApp
INVARIANTS  CatalogIsKept
PROPERTIES StartKeepsSpecs StatusFollowsHealth
CHECK_DEADLOCK FALSE
