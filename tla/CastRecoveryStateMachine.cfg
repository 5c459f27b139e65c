\* Stalls of up to 600 ms in ticks of 50 ms, with frames at any time.
CONSTANTS
    RecoveryConfigs <- MCBoth
    TickMs = 50
    MaxNow = 600
SPECIFICATION Spec
INVARIANTS EscalatesInOrder EscalatesInTime
