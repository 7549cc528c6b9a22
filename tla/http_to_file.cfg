SPECIFICATION FairSpec
CONSTANTS
  file = file
  run = run
  Posts = {p1, p2, p3}
  Tails = {t}
  MaxBuffer = 1
  Limit = 2
  NoPost = NoPost
  Streams = {pipe, other}
  Files = {file}
  Tags = {pipe, other, file}
  Tag <- OwnTag
  HighWater = 2
  Old = Old
  Pipe = pipe
  MaxChunks = 1
INVARIANT DoneIsPublished
PROPERTIES AcknowledgedIsHandedOver CommitsPublish CountSettles
CHECK_DEADLOCK FALSE
