CONSTANTS
  s1 = s1  s2 = s2  v1 = v1  k1 = k1  k2 = k2
  Store <- MCStore
  View <- MCView
  Key <- MCKey
  MaxFaults = 2
SPECIFICATION FairSpec
INVARIANTS RecordsIndexed ListingIsWhole IndInv
PROPERTIES StaleGoes
