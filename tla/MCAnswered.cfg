SPECIFICATION FairSpec
PROPERTIES EveryCallAnswered ImplementsLedger
CONSTANTS
  Users <- OneUser
  Agents <- OneAgent
  OwnerOf <- AllOwned
  RequestIDs <- OneKey
  Vendors <- VendorNames
  Blank = ""
  Normal <- VendorNormal
  Requests <- DuplicateRequests
  PolicyChoices <- OnlyStrict
  Approvers <- Bosses
  CanApprove <- Bosses
  Hooks <- OneHook
  HookAgent <- HooksOfA1
  HookEvents <- BothEvents
  InitBalance <- FourCents
  InitPolicy <- AllStrict
  InitHooks <- OneHook
  MaxCents = 4
  MaxDay = 0
  Spenders = {s1, s2}
  Deciders = {d1}
  NoRow = NoRow
  NoPolicy = NoPolicy
  NoCall = NoCall
  NoResp = NoResp
