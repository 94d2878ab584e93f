SPECIFICATION Spec
SYMMETRY HandlerSymmetry
INVARIANTS TypeOK ApprovedIsPaid SumNeverWraps AuditMatchesLedger ApprovedNotified AnswersAreDurable
PROPERTIES RowFinal
CONSTANTS
  Users <- OneUser
  Agents <- OneAgent
  OwnerOf <- AllOwned
  RequestIDs <- TwoKeys
  Vendors <- VendorNames
  Blank = ""
  Normal <- VendorNormal
  Requests <- PendingRequests
  PolicyChoices <- OnlyStrict
  Approvers <- People
  CanApprove <- Bosses
  Hooks <- OneHook
  HookAgent <- HooksOfA1
  HookEvents <- BothEvents
  InitBalance <- FourCents
  InitPolicy <- AllStrict
  InitHooks <- OneHook
  MaxCents = 4
  MaxDay = 0
  Spenders = {s1, s2}
  Deciders = {d1, d2}
  NoRow = NoRow
  NoPolicy = NoPolicy
  NoCall = NoCall
  NoResp = NoResp
