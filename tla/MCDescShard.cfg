CONSTANTS
  Shards <- MCShards
  CallOf <- MCCallOf
  NoData = NoData

SPECIFICATION Spec

INVARIANT TypeOK

\* The user may stop searching once every requested shard has loaded.
CHECK_DEADLOCK FALSE
