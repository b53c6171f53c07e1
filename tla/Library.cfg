\* Two documents, two places, of which one can be unplugged, two changes to them.
SPECIFICATION Spec
CONSTANTS
  Documents = {d1, d2}
  Texts = {t1, t2}
  Stamps = {s1, s2}
  LastPath = 2
  Roots = {"drive"}
  Output = "output"
  RootOf <- MCRootOf
  MaxChanges = 2
  Broken = Broken
  None = None
SYMMETRY AnyNames
INVARIANTS OnePlaceEach RetrievesWhatIsIndexed
PROPERTIES RefreshTells
