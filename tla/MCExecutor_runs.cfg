SPECIFICATION FairSpec
CONSTANTS
    N = 2
    SecretsPlugin = 2
    Commands = {"version", "init", "logs", "deploy"}
    Tempers = {"kind", "mute", "deaf"}
    Faults = {"load", "check", "call", "die", "post", "panic"}
CHECK_DEADLOCK FALSE
INVARIANTS IInv LeftRunning
PROPERTIES LockKept EndsWhenInterrupted
