\* One thread with two local references, another with none, one of them watched.
CONSTANTS
  None = None
  Threads = {"t1", "t2"}
  WatchTids = {"t1"}
  Visible = {"CallMethod", "FindClass", "NewStringUTF", "NewObject", "GetObjectClass"}
  Objects <- MCObjects
  Classes <- MCClasses
  Strings = {"str"}
  ClassOf <- MCClassOf
  NameOf <- MCNameOf
  TextOf <- MCTextOf
  Ids = {"m"}
  IdName <- MCIdName
  IdSig <- MCIdSig
  Decl <- MCDecl
  Refs = {"r1", "r2"}
  Owner <- MCOwner
  Globals = {"g"}
  Bufs = {"bn", "bs", "bc"}
  Texts <- MCTexts
  Garbage = {"noise"}
  Starts <- MCStarts
  Written = {"p/B", "noise"}
  MaxOps = 4
SPECIFICATION Spec
INVARIANTS TypeOK CallShownRight RefsShownRight AttachedIdsKnown
CHECK_DEADLOCK FALSE
