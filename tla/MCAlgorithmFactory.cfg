SPECIFICATION Spec
CONSTANTS
  t1 = t1
  t2 = t2
  Threads = {t1, t2}
  Specs = {"SHA-160", "SHA-1"}
  NameOf <- MCNameOf
  engines <- MCEngines
  Provides <- MCProvides
  UserProviders = {"own"}
  Weight <- MCWeight
  Preferences <- MCPreferences
  Copies = 7
SYMMETRY Symmetry
INVARIANTS
  PrototypesAreOwnedOnce
  AvailableIsFound
  AnswerFits
PROPERTIES
  ProvidersOnlyGrow
  ReplacesOnlyUnseen
