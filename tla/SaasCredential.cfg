SPECIFICATION LiveSpec
CONSTANTS
    old = old
    new = new
    c1 = c1
    c2 = c2
    c3 = c3
    Processes <- MCProcesses
    Callers <- MCCallers
    Host <- MCHost
    MaxToken = 1
    Null = Null
INVARIANTS FamilyAlive 
PROPERTY CallEnds
