\* An export, and then a change of filters.
SPECIFICATION Spec
CONSTANTS
  me = me
  Me = me
  Accounts <- MCViewer
  Filters <- MCFilters
  Default <- MCDefault
  Contents <- MCContents
  EditFields <- MCNone
  Typed <- MCNone
  Formulas <- MCFormulas
  MaxId = 3
  DayLength = 4
  HourLength = 2
  MaxPageSize = 2
  ExportRowLimit = 2
INVARIANTS CaptionTrue
