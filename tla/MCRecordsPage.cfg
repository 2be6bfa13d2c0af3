SPECIFICATION FairSpec
CONSTANTS
  me = me
  Me = me
  Accounts <- MCAccounts
  Filters <- MCFilters
  Default <- MCDefault
  Contents <- MCContents
  EditFields <- MCEditFields
  Typed <- MCTyped
  Formulas <- MCFormulas
  MaxId = 3
  DayLength = 4
  HourLength = 2
  MaxPageSize = 2
  ExportRowLimit = 2
INVARIANTS TypeOK PagesPartition ExportIsListing CountsAgree NoPageBeyondEnd WritesAsSeen
PROPERTIES RunsEnd
