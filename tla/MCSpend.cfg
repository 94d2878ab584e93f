SPECIFICATION Spec
SYMMETRY SpenderSymmetry
INVARIANTS ApprovedIsPaid
PROPERTIES ImplementsLedger DecisionCurrentAtCommit ApprovalsAnnounced DailyLimitHolds
CONSTANTS
  Users <- OneUser
  Agents <- TwoAgents
  OwnerOf <- AllOwned
  RequestIDs <- TwoKeys
  Vendors <- VendorNames
  Blank = ""
  Normal <- VendorNormal
  Requests <- MixedRequests
  PolicyChoices <- BothPolicies
  Approvers = {}
  CanApprove = {}
  Hooks <- OneHook
  HookAgent <- HooksOfA1
  HookEvents <- BothEvents
  InitBalance <- FourCents
  InitPolicy <- A1HasPolicy
  InitHooks = {}
  MaxCents = 4
  MaxDay = 1
  Spenders = {s1, s2}
  Deciders = {}
  NoRow = NoRow
  NoPolicy = NoPolicy
  NoCall = NoCall
  NoResp = NoResp
