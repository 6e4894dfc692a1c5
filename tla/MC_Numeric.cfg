\* PacketIds: three generations of four packet ids, so every carry, borrow
\* and the wrap of the generation itself.
\* Identity: a two-bit hash cash counter (u64::MAX is 3) with levels 0 and
\* 1; the loop only asks whether a level is below the target, so targets
\* 0, 1 and 2 give every pattern of counters that reach the target, the one
\* with none below u64::MAX included.
\* add_buffer_size: a window of three sizes from 0 to 3 while the tick
\* wraps at 5; the audio handler has no talkers.
\* ffigen: every field type up to two levels of Option, Vec, BTreeSet,
\* HashMap, [T; 4] and [T] over integers, a float, bool, String, &str, (),
\* a wrapper and a struct, in a struct and in an enum variant; without
\* usize and without nested separators (see the README).
CONSTANTS
  PidMod = 4
  GenMod = 3
  MaxCounter = 3
  MaxLevel = 1
  Targets = {0, 1, 2}
  Talkers = {}
  IdMod = 4
  StartId = 0
  FrameSizes = {1}
  MaxStream = 0
  OutLen = 1
  MaxBufferPackets = 1
  MaxBufferSize = 1
  MaxBufferTime = 1
  MaxPacketLosses = 3
  LastBufferSizeCount = 3
  TickMod = 8
  SpeedChangeSteps = 2
  Duplicates = FALSE
  NetCap = 1
  Sizes = {0, 1, 2, 3}
  Idents = {"u8", "i32", "f32", "bool", "String", "MyId", "Foo"}
  MaxDepth = 2
  NestedSeps = FALSE

SPECIFICATION NumSpec
\* A conversion by ffigen is one call of convert_item: its state has no
\* successor.  The other pieces always have one.
CHECK_DEADLOCK FALSE
INVARIANT CmpMatchesNumbers
INVARIANT AddMatchesNumbers
INVARIANT SubMatchesNumbers
INVARIANT SlidingMinCorrect
INVARIANT ConvertKeepsFieldTypes
PROPERTY UpgradeLevelCorrect
