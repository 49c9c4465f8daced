CONSTANTS
 N = 2
 V = 2
 Methods = {"command","rpi_usb"}
 Retries = 1
 MaxRestarts = 1
 MaxFaults = 1
SPECIFICATION Spec
INVARIANTS ReadyMeansConfigured ShutdownSpreads
CHECK_DEADLOCK FALSE
