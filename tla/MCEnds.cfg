SPECIFICATION Spec
PROPERTY WorkEnds
CHECK_DEADLOCK FALSE
