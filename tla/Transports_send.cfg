SPECIFICATION Spec
CONSTANTS
  Listeners <- MCListeners
  Mails <- MCMails
  Canon <- MCCanon
  Allowlist <- MCAllowlist
  Deadline = 4
  HttpTimeout = 2
  SmtpTimeout = 3
  TransientDelay = 1
  RateLimitedDelay = 2
INVARIANTS DeliveredWhole NothingInTheClear ReturnsInTime NoLateSurprise
PROPERTY ContractSpec
