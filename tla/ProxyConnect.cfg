SPECIFICATION DialSpec
INVARIANTS TunnelOrNothing
PROPERTY DialEnds
