\* Up to three signals.
CONSTANT MaxSignals = 3
SPECIFICATION CommandSpec
INVARIANTS NoOrphanChrome StoppedCrawlIsKept
PROPERTIES BackstopWorks ShutdownEnds
