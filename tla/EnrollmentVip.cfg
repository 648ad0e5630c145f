\* Three enrollments with a reusable key and a deletion, no failure.
SPECIFICATION EnrollSpec
CONSTANTS
  e1 = e1
  e2 = e2
  e3 = e3
  d1 = d1
  k2 = k2
  NoKey = NoKey
  Enrolls = {e1, e2, e3}
  Renews = {}
  Deletes = {d1}
  Keys = {k2}
  OneTime = {}
  Expiring = {}
  Addresses = {2, 3}
  MaxFaults = 0
  MaxLeaks = 0
PROPERTIES AllocatesUnused
\* Every request has been answered.
CHECK_DEADLOCK FALSE
