SPECIFICATION Spec

CONSTANTS
    Sizes <- MCSizes
    Counts <- MCCounts

INVARIANTS
    ReturnsLowestFit

PROPERTIES
    SearchEnds
