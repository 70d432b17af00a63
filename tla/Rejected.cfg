SPECIFICATION Spec
CONSTANTS
    x = x  y = y  z = z
    q0 = q0  q1 = q1  v1 = v1  owner = owner  partner = partner  helper = helper  counter = counter  tablet = tablet
    aa = aa  bb = bb  cc = cc
    None = None
    Calls = {x, y, z}
    Past = {q0, q1, v1, owner, partner, helper, counter, tablet}
    Addresses = {aa, bb, cc}
    Owner = owner  Counter = counter
    Tasks <- MCTasks  Scenarios <- MCScenarios
    FirstMembers <- MCMembers  FirstLogins <- MCLogins  FirstDevices <- MCDevices  FirstRequests <- MCRequests
    MaxEmails = 2
    MaxEvents = 0
INVARIANTS
    RejectedCreatedNothing
