SPECIFICATION LiveSpec
CONSTANTS
    Routes = 2
    KIND = "iptables"
    CONTROL_TIMEOUT = 2
    GRACE = 2
    MaxLives = 2
    Faults = {"tun", "firewall", "unfirewall", "exec", "sys", "op", "hang", "child", "crash"}
INVARIANTS TypeOK NothingSurvives PolicySound NoStaleAnswer
PROPERTIES SignalEnds
CHECK_DEADLOCK FALSE
