SPECIFICATION Spec
CONSTANT Blank = Blank
INVARIANT TypeOK
INVARIANT GatewayKeepsItsWord
INVARIANT FormatsAreFaithful
INVARIANT AttemptsAreAccounted
INVARIANT RoutingIsSound
INVARIANT RegistryIsCurrent
INVARIANT ConnectionsAreAccounted
INVARIANT RelayIsFaithful
INVARIANT TrustIsBacked
PROPERTY StepsAreFenced
CHECK_DEADLOCK FALSE
