SPECIFICATION Spec
CONSTANTS
  na = na
  nb = nb
  pa = pa
  ma = ma
  mb = mb
  Names = {na, nb}
  Paths = {pa}
  Metas = {ma, mb}
  NoPath = NoPath
  FirstFiles <- OldFiles
INVARIANTS
  TypeOK
  UniqueIds
  Durable
  DismissalDurable
