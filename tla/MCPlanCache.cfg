SPECIFICATION Spec
CONSTANTS
  query = query
  drop = drop
  create = create
  meta = meta
  c1 = c1
  c2 = c2
  Clients = {c1, c2}
  Kinds <- MCKinds
  Drops = {drop}
  Creates = {create}
  Uncacheable = {meta}
  Capacity = 2
  MaxStatements <- MCMaxStatements
  MaxServices = 1
  Serviced = {"pqp"}
  Sizes = {1}
INVARIANTS CachesConsistent PlansOwnAndFitting
