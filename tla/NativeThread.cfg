SPECIFICATION FairSpec
CONSTANT MaxId = 2
INVARIANTS NoCallbackAfterUnload OneClaimant
PROPERTIES UnloadEnds
