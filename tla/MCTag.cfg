SPECIFICATION Spec
CONSTANTS
  NULL = NULL
  Default = Default
  Passwords = {short, exact}
  Short = {short}
  Residues = {r1, r2}
  Contents = {c1, c2}
INVARIANTS TypeOK PasswordsAgree ProtectedTag
PROPERTIES KnewThePassword ContentArrives
