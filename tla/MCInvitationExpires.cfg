SPECIFICATION Spec
CONSTANTS
    i1 = i1
    i2 = i2
    s1 = s1
    s2 = s2
    c1 = c1
    c2 = c2
    n1 = n1
    n2 = n2
    v1 = v1
    v2 = v2
    Invitations = {i1}
    Subjects <- MCSubjects
    Calls <- MCCalls
    Reminders = {}
    Revokers = {}
    Own = Own
    NoOne = NoOne
    Faults = {}
    MaxFaults = 0
CHECK_DEADLOCK FALSE
INVARIANT BoundNeverExpires
