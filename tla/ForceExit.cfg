\* What the comment of onForceExit says, with a Chrome that may stop answering.
CONSTANT MaxSignals = 2
SPECIFICATION CommandSpec
PROPERTY ForceExitGuaranteed
