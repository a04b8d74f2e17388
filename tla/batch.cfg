CONSTANTS
  None = None
  Junk = Junk
  r1 = r1
  r2 = r2
  r3 = r3
  Req = {r1, r2, r3}
  PromptOf <- Prompts
  Cap <- Caps
  Token <- Vocabulary
  Eos = {2}
  Argmax <- Target
  NumStages = 2
  Lane = {1, 2}
  MaxDeaths = 1
  Setting <- Serving
SPECIFICATION FairSpec
INVARIANTS TypeOK FailuresAreBounded KvIsOfTheRunning
PROPERTIES RowsAreGreedy RequestsEnd
CHECK_DEADLOCK FALSE
