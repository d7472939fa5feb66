SPECIFICATION FairSpec
CONSTANTS
  own = own
  chat = chat
  foreign = foreign
  watch = watch
  once = once
  Calls = {own, foreign}
  Own = {own}
  Chat = {}
  Foreign = {foreign}
  Sells = {foreign}
  Unconfirmed = {own}
  FlattenOnHalt = TRUE
  Jobs = {watch}
  OneShot = {}
  Triggers = {watch}
  Faults = {"submit", "halt"}
  Sentinels = {"broker"}
  MaxCrashes = 1
INVARIANT SweepIsThorough
PROPERTIES NoTurnOverUnrecordedFill RunnerResponds
