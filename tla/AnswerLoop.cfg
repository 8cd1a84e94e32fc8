CONSTANTS
  Agents <- MCAgents
  Tenant <- MCTenant
  Skills <- MCSkills
  Past <- MCPast
  Weights <- MCWeights
  Requests <- MCRequests
  Roots <- MCRoots
  Schema = 1
  Budget = 11
  MaxRounds = 2
  MaxDepth = 2
  MaxCalls <- MCMaxCalls
SPECIFICATION FairSpec
INVARIANTS DeedsTold ChainBounded NoStaleText PromptSound StreamReadsTheSame
PROPERTIES AnswerEnds
CHECK_DEADLOCK FALSE
