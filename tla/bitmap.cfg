SPECIFICATION BSpec
CONSTANTS
  AreaBlocks <- FourThreeTwo
  Word = 32
  Spare = 2
INVARIANTS
  CountersMatchMap
  AnswerIsSigned
