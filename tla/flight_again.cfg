SPECIFICATION Spec
CONSTANTS
  Top = 5
  Values = {0, 1}
  Zero = 0
  Granularity = 2
  Mappings <- FewMappings
  OneShots <- FewOneShots
  Practices <- Again
INVARIANT EventShowsMemory
