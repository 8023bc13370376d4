CONSTANTS
  Shards <- MCShards
  CallOf <- MCCallOf
  NoData = NoData

SPECIFICATION Spec



PROPERTY RequestedShardResolved

\* The user may stop searching once every requested shard has loaded.
CHECK_DEADLOCK FALSE
