SPECIFICATION MCSpec
CONSTANTS
  p1 = p1
  p2 = p2
  p3 = p3
  Foo = Foo
  Color = Color
  Word = Word
  Hid = Hid
  Holder = Holder
  Mode = Mode
  Vec = Vec
  Tag = Tag
  Num = Num
  fFoo = fFoo
  gHid = gHid
  hColor = hColor
  kVoid = kVoid
  kAnon = kAnon
  vStd = vStd
  lambda = lambda
  foo1 = foo1
  foo2 = foo2
  hid1 = hid1
  hid2 = hid2
  holder1 = holder1
  holder2 = holder2
  red = red
  blue = blue
  mode1 = mode1
  tag1 = tag1
  tag2 = tag2
  suffix = suffix
  none = none
  x = x
  y = y
  nop = nop
  r1 = r1
  r2 = r2
  Ids <- MCIds
  StdIds <- MCStdIds
  UnnamedIds <- MCUnnamedIds
  UnnamedTypeIds <- MCUnnamedTypeIds
  CookieIds <- MCCookieIds
  AnonIds <- MCAnonIds
  LambdaIds <- MCLambdaIds
  Forms <- MCForms
  Discriminator <- MCDiscriminator
  NoSuffix = none
  Nested <- MCNested
  Signature <- MCSignature
  Bytes <- MCBytes
  NOP = nop
  Relocs <- MCRelocs
  Pdbs = {p1, p2, p3}
  MaxPdbs = 3
  MaxFaults = 1
  Contents <- MCContents
INVARIANTS
  TypeOK
  InternalEntitiesKeepApart
  SignatureTypesAreOwn
  TypesJudgedByTheFiles
  FailedLoadsAddNoTypes
  FunctionsJudged
  InvolvedAnonymousTypesReported
PROPERTIES
  ImplementsVerdict
  Termination
