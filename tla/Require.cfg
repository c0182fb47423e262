SPECIFICATION Spec
CONSTANTS
  app = app
  lib = lib
  sub = sub
  nowhere = nowhere
  here = here
  modules = modules
  usr = usr
  a = a
  b = b
  c = c
  libA = libA
  libB = libB
  subC = subC
  subB = subB
  Files = {libA, libB, subC, subB}
  Dlls = {subB}
  Names = {a, b, c}
  Coffee = {libB}
  Plain = {a, c}
  Dirs = {app, lib, sub, nowhere}
  Entries = {here, modules, usr}
  Under <- MCUnder
  At <- MCAt
  Dir <- MCDir
  Cwd = app
  Path <- MCPath
  MaxCalls = 3
  MaxPages = 4
  None = None
CHECK_DEADLOCK FALSE
INVARIANTS TypeOK OwnDirectory FailuresAccounted
