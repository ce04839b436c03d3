CONSTANTS
  PaperIds <- MCPaperIds
  Nowhere = Nowhere
  Limit = 2
  Instances <- MCInstances
  Pdfs <- MCPdfs
  MaxText = 9
SPECIFICATION Spec
INVARIANTS IndexMatchesPassages AnswersWereStored HitsAreRanked WindowsAdvance
           QuotesSurvive
CHECK_DEADLOCK FALSE
