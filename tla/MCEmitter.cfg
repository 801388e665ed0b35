\* The generator over the consistent providers implements the abstract
\* emitter.
CONSTANTS
    MainOrder <- MCOrderGood
    MaxRuns = 2
SPECIFICATION Spec
PROPERTY EmitterSpec
\* The batch job really stops once its last run has ended.
CHECK_DEADLOCK FALSE
