SPECIFICATION Spec
CONSTANTS
  Postings <- MCPostings
  Curated <- MCCurated
  Companies = 2
  UnstopPages <- MCUnstopPages
  DevpostPages = 3
  PageSize = 1
  PER_COMPANY = 1
  MaxListed = 3
  MaxChanges = 2
  None = None
INVARIANTS
  TypeOK
  EveryGroupIsAsked
  ItemsAreConsistent
PROPERTIES
  WhatStaysIsFetched
  OnlyChangesRepeat
