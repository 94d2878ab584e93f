SPECIFICATION FairSpec
PROPERTY DailyLimitHolds
CONSTANTS
  Users <- OneUser
  Agents <- OneAgent
  OwnerOf <- AllOwned
  RequestIDs <- TwoKeys
  Vendors <- VendorNames
  Blank = ""
  Normal <- VendorNormal
  Requests <- LimitRequests
  PolicyChoices <- OnlyStrict
  Approvers <- Bosses
  CanApprove <- Bosses
  Hooks <- NoHook
  HookAgent <- HooksOfA1
  HookEvents <- BothEvents
  InitBalance <- SixCents
  InitPolicy <- AllStrict
  InitHooks = {}
  MaxCents = 6
  MaxDay = 0
  Spenders = {s1, s2}
  Deciders = {d1}
  NoRow = NoRow
  NoPolicy = NoPolicy
  NoCall = NoCall
  NoResp = NoResp
