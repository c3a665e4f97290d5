\* Three sessions: a link, a reconnect, and a reconnect of that one.
CONSTANT MaxSession = 3
SPECIFICATION FairSpec
INVARIANTS
    TypeOK
    
    KeepsTrying
    
 
CHECK_DEADLOCK FALSE
