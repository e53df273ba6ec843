\* One thread, two tags, two writes by users.
CONSTANTS
    Threads = {u1}
    Tags = {a, b}
    MaxStamp = 2
    MaxOutbox = 6
SPECIFICATION Spec
INVARIANT EditsAlwaysKept
CHECK_DEADLOCK FALSE
