\* One browser and two streams, so that the stream of a broken connection
\* lingers beside the next one; a queue of one; two notices; any two of a broken connection, a
\* choice and a stop.
CONSTANTS
  Browsers = {b1}
  Streams = {s1, s2}
  NoStream = NoStream
  QueueSize = 1
  MaxNotices = 2
  MaxEvents = 2
SPECIFICATION FairSpec
INVARIANTS
  TypeOK
  NoticeNotLost
PROPERTIES
  ScreenForward
  RefetchFollows
  StreamsEnd
CHECK_DEADLOCK FALSE
