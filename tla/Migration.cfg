\* One image, one volume, three containers; seven budgets of events.
SPECIFICATION Spec
CONSTANTS
  Proxies = {"none", "p1"}
  NoProxy = "none"
  HostMemory = 1
  Clients = {"client1", "client2"}
  Budgets <- MCBudgets
  Images = {"image"}
  Volumes = {"volume"}
  Containers = {"db", "app", "extra"}
  ProjectOf <- MCProjectOf
  Standalone = "standalone"
  ComposeFiles <- MCComposeFiles
  Built = {"app"}
  Headroom = 1
  MaxFree = 6
INVARIANTS
  ProxySettles
  CopiedUnlessWarned
  StoppedOnlyForCompose
PROPERTIES
  ChoiceKept
CHECK_DEADLOCK FALSE
