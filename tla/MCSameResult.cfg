SPECIFICATION Spec
SYMMETRY SpenderSymmetry
INVARIANT SameResult
CONSTANTS
  Users <- OneUser
  Agents <- OneAgent
  OwnerOf <- AllOwned
  RequestIDs <- OneKey
  Vendors <- VendorNames
  Blank = ""
  Normal <- VendorNormal
  Requests <- RetriedRequest
  PolicyChoices <- BothPolicies
  Approvers <- People
  CanApprove <- Bosses
  Hooks <- OneHook
  HookAgent <- HooksOfA1
  HookEvents <- BothEvents
  InitBalance <- FourCents
  InitPolicy <- A1HasPolicy
  InitHooks <- OneHook
  MaxCents = 4
  MaxDay = 0
  Spenders = {s1, s2}
  Deciders = {}
  NoRow = NoRow
  NoPolicy = NoPolicy
  NoCall = NoCall
  NoResp = NoResp
