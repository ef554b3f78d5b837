\* Networks of up to three dimensions and 30 NPUs, every pair of NPUs.
SPECIFICATION Spec
CONSTANTS
  Files <- MCFiles
  ChunkSizes = {1, 7}
  Resolution = 2
INVARIANTS
  TypeOK
  TranslationIsExact
  AddressDeterminesNPU
  ExitsOnlyForSameNPU
  DelayOfFirstDifference
\* send() has returned, or the program has exited.
CHECK_DEADLOCK FALSE
