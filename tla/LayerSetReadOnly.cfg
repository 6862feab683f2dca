SPECIFICATION Spec
CONSTANTS
  a = a
  b = b
  c = c
  Paths = {a, b, c}
  LintFixes <- MCFixes
  ForeignKeys <- MCForeignKeys
  MaxErrors = 2
  MaxForeign = 1
INVARIANT ReadOnlyTabsKeepOut
