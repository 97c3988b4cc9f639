SPECIFICATION Spec
CONSTRAINT OfInterest
INVARIANT NothingCut
INVARIANT PlanNotLost
PROPERTY SaidIsSo
INVARIANT RunsAreKnown
CHECK_DEADLOCK FALSE
