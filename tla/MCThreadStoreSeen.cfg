CONSTANTS
  Mails <- MCMails
  Folders <- MCFolders
  Accounts <- MCAccounts
  FolderOf <- MCFolderOf
  AccountOf <- MCAccountOf
  MessageId <- MCMessageId
  References <- MCReferences
  Subject <- MCSubject
  Date <- MCDate
  HasAttachments <- MCHasAttachments
  Window = 2
  CondStore <- MCCondStore
  ServerFlags <- MCServerFlags
  MaxRequests = 1
  MaxFaults = 1
SPECIFICATION FairSpec
PROPERTY SeenIsCounted
