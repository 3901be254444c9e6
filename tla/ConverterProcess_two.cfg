\* Two worker threads that convert, with converters that fail, fill their pipes, or outlive
\* their time: one worker can be at its next conversion while the last process is not gone yet.
SPECIFICATION FairSpec
CONSTANTS
  Workers = {w1, w2}
  Conversions = {c1, c2}
  None = None
INVARIANTS TypeOK SuccessIsFresh NothingLeft DrainEnds RequestEnds
PROPERTIES HoldersShrink ImplementsCall ConversionReturns
