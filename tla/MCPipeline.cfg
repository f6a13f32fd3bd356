SPECIFICATION FairPipeSpec
CONSTANTS
  s1 = s1
  tracker = tracker
  Sources <- OneSource
  Consumers <- OneConsumer
  BufferSize = 5
  MaxLines = 2
  MaxUnread = 8
  MaxFaults = 2
  MaxAckPending = 2
CHECK_DEADLOCK FALSE
INVARIANT PipeTypeOK
INVARIANT CutAsIfReadAtOnce
INVARIANT InOrderAtMostOnce
INVARIANT OvertakenOnlyIfLost
INVARIANT ForgottenOnlyIfHandled
PROPERTY DeliverySpec
PROPERTY DeadPeerIsNoticed
PROPERTY StoredIsHandled
