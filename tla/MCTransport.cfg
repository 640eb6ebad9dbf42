SPECIFICATION TransportSpec
CONSTANTS
    Script <- MCScript
    Reply <- MCReply
    buf_len = 3
    net_buf_len = 8
    OutSizes = {3, 9}
    MaxOut = 2
    MaxBreaks = 1
    MaxSend = 3
    MaxNull = 1
    MaxReset = 1
    Node = {"a", "b"}
    Leader <- MCLeader
    PC_LEADER_MAX = 5
    PC_LEADER_MIN = 2
    Ahead = 2
    Client = {c1}
    MaxSlot = 10
    MaxJump = 3
    Timely = 1
    MaxBack = 4
INVARIANTS StreamSound  LeadersKnown
 
CHECK_DEADLOCK FALSE
