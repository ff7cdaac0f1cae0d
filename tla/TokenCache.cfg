CONSTANTS
  c1 = c1
  c2 = c2
  org = org
  lib = lib
  app = app
  Callers = {c1, c2}
  Keys <- TwoRepos
  SKEW = 1
  FALLBACK = 1
  Timeout = 1
  JwtBackdated = 1
  JwtLifetime = 1
  JwtLimit = 2
  Lifetimes = {3}
  UnstatedLifetime = 3
  Skews <- ClockOff
  MaxTime = 3

SPECIFICATION Spec
SYMMETRY Symmetry
INVARIANTS
  TypeOK
  RightScope
PROPERTIES
  HandedOutAlive
  HitsKeepMargin
CHECK_DEADLOCK FALSE
