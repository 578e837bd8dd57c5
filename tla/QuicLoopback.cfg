CONSTANTS
    Modes = {"interop", "loopback", "bench", "native"}
    Payload = 1
    Bytes = 2
    Window = 1
    MaxFaults = 1
SPECIFICATION Spec
INVARIANTS FlushedInOrder LossIsTold VerdictsAgree
PROPERTY Completes
CHECK_DEADLOCK FALSE
