\* The bounds of each part are in MCClient.
SPECIFICATION MCSpec
INVARIANTS PointerAndKeysFollow SeenAsHeld ReadAsWritten
\* Every bound reached is an end.
CHECK_DEADLOCK FALSE
