SPECIFICATION FirmwareSpec
INVARIANTS NoRideWhileFlashing
CHECK_DEADLOCK FALSE
