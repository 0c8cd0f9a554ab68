\* The violation is found before everything comes to rest.
CHECK_DEADLOCK FALSE
SPECIFICATION Spec
CONSTANTS
  alice = alice
  bob = bob
  ka = ka
  kb = kb
  p1 = p1
  p2 = p2
  bad = bad
  n1 = n1
  n2 = n2
  n3 = n3
  Unset = Unset
  NoDkey = NoDkey
  Identity <- MCIdentity
  Key <- MCKey
  OwnerOf <- MCOwnerOf
  Policy <- MCPolicy
  Unusable <- MCUnusable
  Interest <- MCInterest
  KeyOf <- MCKeyOf
  LastSegment = 1
  MaxDkeys = 3
  MaxRestarts = 1
SYMMETRY MCSymmetry
INVARIANT NamedByItsKey
