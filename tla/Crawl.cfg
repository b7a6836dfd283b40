SPECIFICATION FairSpec
CONSTANTS
  AllowedHosts <- MCAllowed
  InternalAllowHosts <- MCInternal
  AllowLoopback = FALSE
  Literal <- MCLiteral
  BaseURL <- MCBase
  Urls <- MCUrls
  LinkLists <- MCLinkLists
  Recipes <- MCRecipes
  Answers <- MCAnswers
  MaxPages = 3
  MaxDepth = 2
  Viewports = 2
INVARIANTS TypeOK FrontierSound SiteContained
PROPERTIES PatientLogin CrawlEnds
CHECK_DEADLOCK FALSE
