----------------------------- MODULE MCPlanner -----------------------------
(* A small image with ten cells of two bits and the intents that make the  *)
(* planner's conditions meet.                                              *)
EXTENDS Planner

MCWidth == 2

(* Block sizes are 1, 2, 4 and 8; the inode is at 6 + MetaAddress.         *)
Image(magic, checksum, feature, bits, meta) ==
  [o \in 0..9 |->
     CASE o = Magic -> magic
       [] o = Checksum -> checksum
       [] o = Feature -> feature
       [] o = BlockBits -> bits
       [] o = MetaAddress -> meta
       [] o = 8 -> {0}
       [] OTHER -> {}]

Sealed(image, end) == [image EXCEPT ![Checksum] = Crc(image, end)]

MCParents == {
  Sealed(Image(Valid, {}, {0}, {0, 1}, {1}), 8),
  Image(Valid, {0}, {0, 1}, {1}, {1}),
  Image(Valid, {}, {}, {0, 1}, {1}),
  Image({}, {0}, {0}, {0, 1}, {}),       \* the inode lies over the volume name
  Image(Valid, {0}, {0}, {0}, {0, 1})}   \* no room for a checksum, nor for the inode

F(object, offset, len, encoding) ==
  [object |-> object, offset |-> offset, len |-> len, encoding |-> encoding]
feature == F("superblock", Feature, 1, "integer")
blkszbits == F("superblock", BlockBits, 1, "integer")
meta_blkaddr == F("superblock", MetaAddress, 1, "integer")
volume_name == F("superblock", 6, 2, "bytes")
i_mode == F("inode", 0, 2, "integer")

P(offset, bytes) == [kind |-> "patch", offset |-> offset, bytes |-> bytes]
S(f, value) == [kind |-> "set", field |-> f, value |-> value]
R(f, bytes) == [kind |-> "replace", field |-> f, bytes |-> bytes]
B(f, set, clear) == [kind |-> "bits", field |-> f, set |-> set, clear |-> clear]
T(n) == [kind |-> "truncate", len |-> n]

(* Intents that succeed or meet.                                           *)
Meeting == {
  P(Checksum, <<{0}>>), P(7, <<{1}, {0}, {1}>>), S(blkszbits, {1}),
  S(meta_blkaddr, {}), S(i_mode, {0, 2}), R(volume_name, <<{0}, {1}>>),
  B(feature, {0}, {}), B(i_mode, {2}, {0}), B(i_mode, {1}, {2}), B(i_mode, {0}, {1}), T(8)}

(* Intents that fail, and intents of the whole image.                      *)
Others == {
  P(9, <<{1}, {1}>>), S(i_mode, {5}), S(volume_name, {}), R(volume_name, <<{0}>>),
  S(feature, {}), S(ChecksumField, {1}), B(i_mode, {1}, {1}), B(volume_name, {0}, {}),
  B(feature, {2}, {}), B(feature, {}, {0}), T(5), T(3), T(11)}

MCPlans ==
  LET all == Meeting \cup Others
  IN  {<<>>} \cup {<<a>> : a \in all} \cup (all \X all)
        \cup (Meeting \X Meeting \X Meeting)
=============================================================================
