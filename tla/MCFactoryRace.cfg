SPECIFICATION Spec
CONSTANTS
  t1 = t1
  t2 = t2
  Threads = {t1, t2}
  Specs <- MCSpecs
  NameOf <- MCNameOf
  engines <- MCEngines
  Provides <- MCProvides
  UserProviders = {}
  Weight <- MCWeight
  Preferences <- MCPreferences
  Copies = 7
SYMMETRY Symmetry
INVARIANTS
  NoUseOfDeletedPrototype
