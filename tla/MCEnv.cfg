SPECIFICATION Spec
CONSTANTS
  Names <- MCNames
  HOME = 1
  OLDPWD = 2
  PWD = 3
  Twice = {3}
  Dirs = {root, a}
  Root = root
  Empty = empty
  NoValue = noValue
  Absent = absent
INVARIANTS
  PwdAndOldPwd
PROPERTIES
  ImplementsAbs
