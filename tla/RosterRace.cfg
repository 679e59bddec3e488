\* Two requests of administrators in flight at once.
SPECIFICATION AdministrationSpec
CONSTANTS
  a = a
  b = b
  c = c
  bg = bg
  Users = {bg, a, b}
  Breakglass = {bg}
  Founders = {a, b}
  Reqs = {r1, r2}
  None = None
  Grace = 2
  MaxSecrets = 3
  People = {u1}
  Projects = {p1, p2}
  Apps = {a1}
  Members = {u1}
  Groups = {g1}
  Clients = {c1, c2}
  Persons = {u1}
  Depts = {d1, d2}
  Names = {n1, n2}
  Ids = {1, 2}
  Deaf = {}
  Runs = {1}
  Choices = {1, 2}
  MaxInFlight = 2
  Places = {1, 2}
  MaxAsks = 3
INVARIANTS
  AllTyped
  BreakglassOperable
  SecretsSound
  AppointmentWhole
  AccessSound
  LabelHasCause
  AppLogoutHasCause
  WrongListHasCause
PROPERTY
  LastOperableLostToRace
SYMMETRY Interchangeable
