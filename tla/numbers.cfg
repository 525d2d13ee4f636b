\* Types of 2, 3, 4 and 8 bits, and bytes that carry three bits besides the sign of more.
SPECIFICATION Spec
CONSTANTS
  GroupBits = 3
  Modulus <- SmallModulus
  ByteBits = 2
  HalfBits = 3
  WordBits = 4
  LongBits = 8
  Parameters = {"i8", "u8", "i16", "u16", "i32", "u32"}
  HostTyped = TRUE
  TablesTyped = TRUE
INVARIANTS BitsMeanTheNumber LoadsWhatWasWritten ShortestEncoding
