SPECIFICATION ImagesSpec
CONSTANTS
  Workers = {w1}
  Uploaders = {u1, u2}
  Nobody = nobody
  NoImage = noimage
  MaxAttempts = 2
  MaxImages = 2
  MaxRequests = 3
  Undecodable = {2}
  FaultSets = {{}, {"crash", "store_error", "overlap"}, {"db_error"}, {"lost_reply"}}
  Editors = {e1, e2, e3}
  Pictures = {1, 2, 3}
  MaxEdits = 4
  Senders = {s1, s2}
  Entries = {1, 2, 3}
  Packages = {p1, p2}
  Heavy = {p2}
  Quota = 3
  MaxSends = 4
  StorageFaults = {{"growth"}, {"crash", "lost"}}
INVARIANTS Typed ServedHasItsObject AvatarIsLive GalleryHolds StorageHolds
PROPERTIES EventuallySettled
CHECK_DEADLOCK FALSE
