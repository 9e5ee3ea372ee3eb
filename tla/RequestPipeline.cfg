\* Two requests, one key; a route for tokens, one for the PSK, an open one.  Only
\* the sum of RequestTimeout and Grace matters.
SPECIFICATION FairSpec
CONSTANTS
  Request = {r1, r2}
  Key = {k1}
  Payload = {trigger, external, version}
  PSKPayload = {external}
  OpenPayload = {version}
  GuardedPayload = {trigger}
  Subject = {alice, bob}
  NoKey = NoKey
  Nobody = Nobody
  PSK = PSK
  None = None
  FailOpen = FALSE
  RequestTimeout = 1
  Grace = 0
  PersistTimeout = 1
  ProcessingTTL = 3
  ResultTTL = 2
  FailureTTL = 1
INVARIANTS
  TypeOK
  OneHandlerPerKey
  AtMostOnce
  ReplayIsOwn
  RefusedLeavesNoTrace
PROPERTIES
  KeyIsFreed
CHECK_DEADLOCK FALSE
