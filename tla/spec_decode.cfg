CONSTANTS
  Token <- Vocabulary
  Eos = {2}
  Argmax <- Target
  Prompt <- ShortPrompts
  MaxNew = 5
  K = 2
  TreeSize = 3
SPECIFICATION FairSpec
INVARIANTS TypeOK KvsInStep
PROPERTIES IsGreedy Terminates
CHECK_DEADLOCK FALSE
