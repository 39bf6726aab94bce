------------------------------- MODULE Planner -------------------------------
(***************************************************************************)
(* Planning and applying a mutation:                                       *)
(*   erofs-lab/src/lib.rs, plan, add_write, apply_integrity,               *)
(*   collapse_writes and apply_plan_bytes.                                 *)
(*                                                                         *)
(* The intents are resolved one after the other against the parent into a  *)
(* map of byte writes; the length, then the checksum are settled; the      *)
(* writes are collapsed into patches, which are applied to the parent one  *)
(* by one, each after its preimage was checked.                            *)
(*                                                                         *)
(* A byte is the set of its bits that are set, an integer the set of bit   *)
(* numbers of its little-endian encoding.  An image is a function from     *)
(* offsets to bytes.  The superblock has shrunk to the cells the planner   *)
(* and the locator look at.                                                *)
(***************************************************************************)
EXTENDS Integers, Sequences, FiniteSets

CONSTANTS
  Width,     \* bits of a byte
  Parents,   \* the images that may be mutated
  Plans      \* the sequences of intents that may be asked for

Intents == UNION {{plan[i] : i \in DOMAIN plan} : plan \in Plans}

ASSUME PlannerAssumption ==
  /\ Width \in Nat \ {0}
  /\ \A image \in Parents :
       /\ IsFiniteSet(DOMAIN image)
       /\ DOMAIN image = 0..(Cardinality(DOMAIN image) - 1)
  /\ \A plan \in Plans : plan \in Seq(Intents)
  /\ \A intent \in Intents : intent.kind = "truncate" => intent.len \in Nat

Mode == {"raw", "consistent", "corrupt"}
Policy == {"preserve", "recalculate", "invalidate"}

(* The superblock at offset Super, and the cells of it that matter; one    *)
(* cell stands for a field of several bytes.                               *)
Super == 1
Magic == 1
Checksum == 2
Feature == 3
BlockBits == 4
MetaAddress == 5

Valid == {0}        \* the EROFS magic number
HasChecksum == 0    \* the bit of the compatible feature SB_CHECKSUM

Number(byte) == (IF 0 \in byte THEN 1 ELSE 0) + (IF 1 \in byte THEN 2 ELSE 0)
BlockSize(byte) == 2 ^ Number(byte)

(* crc32c of the superblock's block with the checksum zeroed.  It is ideal:*)
(* different contents or lengths give different values, none of which a    *)
(* user could have written.                                                *)
Crc(image, end) ==
  LET covered == (Super..(end - 1)) \ {Checksum}
      set == {p \in covered \X (0..(Width - 1)) : p[2] \in image[p[1]]}
  IN  {-end} \cup {Width * (p[1] + 1) + p[2] : p \in set}

(* Where the schema puts the fields.  An inode lies where the parent's     *)
(* superblock says; `bytes' fields have no value.                          *)
Field == [object : {"superblock", "inode"}, offset : Nat, len : Nat \ {0},
          encoding : {"integer", "bytes"}]

ChecksumField ==
  [object |-> "superblock", offset |-> Checksum, len |-> 1, encoding |-> "integer"]

Locate(image, f) ==
  f.offset + (IF f.object = "inode" THEN 6 + Number(image[MetaAddress]) ELSE 0)

(* Locator::with_mode, the checks of a strict parse.                       *)
WellFormed(image) ==
  /\ image[Magic] = Valid
  /\ BlockSize(image[BlockBits]) >= 4

Span(offset, len) == offset..(offset + len - 1)

Errors == {"Unsupported", "Resolve", "Conflict", "ValueOverflow", "Bounds",
           "TruncateConflict", "Preimage"}

VARIABLES
  parent, mode, policy,   \* the arguments of plan
  todo,       \* intents not resolved yet
  writes,     \* writes[o]: the byte planned for offset o, for some offsets
  truncate,   \* the lengths asked for, at most one
  stage,      \* what is being done, or the error it ended with
  status,     \* status of the integrity record
  patches,    \* patches not applied yet
  output,     \* the image being produced
  asked       \* history: the parent, overwritten by one intent after the other

vars == <<parent, mode, policy, todo, writes, truncate, stage, status, patches,
          output, asked>>
args == <<parent, mode, policy>>

NoWrites == [o \in {} |-> {}]

Init ==
  /\ parent \in Parents
  /\ mode \in Mode
  /\ policy \in Policy
  /\ todo \in Plans
  /\ writes = NoWrites
  /\ truncate = {}
  /\ stage = "start"
  /\ status = "none"
  /\ patches = {}
  /\ output = parent
  /\ asked = parent

Fail(error) ==
  /\ stage' = error
  /\ UNCHANGED <<args, todo, writes, truncate, status, patches, output, asked>>

(* The mode is checked before anything is resolved.                        *)
Accepted ==
  /\ mode = "raw" => \A i \in DOMAIN todo : todo[i].kind \in {"patch", "truncate"}
  /\ mode = "consistent" => WellFormed(parent)

Refuse ==
  /\ stage = "start"
  /\ ~Accepted
  /\ \/ /\ mode = "raw"
        /\ Fail("Unsupported")
     \/ /\ mode = "consistent"
        /\ Fail("Resolve")

Accept ==
  /\ stage = "start"
  /\ Accepted
  /\ stage' = "resolve"
  /\ UNCHANGED <<args, todo, writes, truncate, status, patches, output, asked>>

-----------------------------------------------------------------------------
(* The intents.                                                            *)

Intent == Head(todo)
Resolving(kind) == stage = "resolve" /\ todo # <<>> /\ Intent.kind = kind

Operator(o) == writes[o].meta.operator

(* The byte at o as planned so far.                                        *)
Logical(o) == IF o \in DOMAIN writes THEN writes[o].after ELSE parent[o]

InImage(span) == span \subseteq DOMAIN parent

(* Mutant of Clash: the repair of the checksum overrides what it finds.    *)
ClashUnlessRepair(span, meta) ==
  /\ meta.operator \notin Policy
  /\ \E o \in span \cap DOMAIN writes : Operator(o) # "bits" \/ meta.operator # "bits"

(* Only updates of bits may meet, and only each other.                     *)
Clash(span, meta) ==
  \E o \in span \cap DOMAIN writes : Operator(o) # "bits" \/ meta.operator # "bits"

(* Mutant of AddWrite: a byte planned again takes the planned byte for its *)
(* preimage.                                                               *)
AddWriteRebased(span, after, meta) ==
  [o \in DOMAIN writes \cup {p \in span : after[p] # parent[p]} |->
     IF o \in DOMAIN writes /\ o \notin span THEN writes[o]
     ELSE [before |-> Logical(o), after |-> after[o], meta |-> meta]]

(* A write that changes nothing is not planned; the first to plan a byte   *)
(* signs for it.                                                           *)
AddWrite(span, after, meta) ==
  [o \in DOMAIN writes \cup {p \in span : after[p] # parent[p]} |->
     IF o \notin DOMAIN writes
     THEN [before |-> parent[o], after |-> after[o], meta |-> meta]
     ELSE IF o \in span
     THEN [before |-> writes[o].before, after |-> after[o], meta |-> writes[o].meta]
     ELSE writes[o]]

Overwrite(image, span, after) ==
  [o \in DOMAIN image |-> IF o \in span THEN after[o] ELSE image[o]]

(* `wanted' is what the intent makes of the bytes `asked' so far.           *)
Write(span, after, meta, wanted) ==
  \/ /\ ~InImage(span)
     /\ Fail("Bounds")
  \/ /\ InImage(span)
     /\ Clash(span, meta)
     /\ Fail("Conflict")
  \/ /\ InImage(span)
     /\ ~Clash(span, meta)
     /\ writes' = AddWrite(span, after, meta)
     /\ asked' = Overwrite(asked, span, wanted)
     /\ todo' = Tail(todo)
     /\ UNCHANGED <<args, truncate, stage, status, patches, output>>

NoField == [object |-> "none", offset |-> 0, len |-> 0, encoding |-> "bytes"]
Raw == [field |-> NoField, operator |-> "raw"]
Of(f, operator) == [field |-> f, operator |-> operator]

(* encode: the byte at o of a value encoded from offset start.             *)
ByteAt(value, start, o) == {k \in 0..(Width - 1) : Width * (o - start) + k \in value}
Fits(value, f) == value \subseteq 0..(Width * f.len - 1)

Patch ==
  /\ Resolving("patch")
  /\ LET span == Span(Intent.offset, Len(Intent.bytes))
         bytes == [o \in span |-> Intent.bytes[o - Intent.offset + 1]]
     IN  Write(span, bytes, Raw, bytes)

(* A field that does not lie in the image does not resolve.                *)
SpanOf(f) == Span(Locate(parent, f), f.len)
Unresolved(f) == ~InImage(SpanOf(f))

SetValue ==
  /\ Resolving("set")
  /\ LET f == Intent.field
         bytes == [o \in SpanOf(f) |-> ByteAt(Intent.value, Locate(parent, f), o)]
     IN  \/ /\ Unresolved(f)
            /\ Fail("Resolve")
         \/ /\ ~Unresolved(f)
            /\ f.encoding = "bytes"
            /\ Fail("Unsupported")
         \/ /\ ~Unresolved(f)
            /\ f.encoding = "integer"
            /\ ~Fits(Intent.value, f)
            /\ Fail("ValueOverflow")
         \/ /\ ~Unresolved(f)
            /\ f.encoding = "integer"
            /\ Fits(Intent.value, f)
            /\ Write(SpanOf(f), bytes, Of(f, "set"), bytes)

ReplaceFixedBytes ==
  /\ Resolving("replace")
  /\ LET f == Intent.field
         bytes == [o \in SpanOf(f) |-> Intent.bytes[o - Locate(parent, f) + 1]]
     IN  \/ /\ Unresolved(f)
            /\ Fail("Resolve")
         \/ /\ ~Unresolved(f)
            /\ Len(Intent.bytes) # f.len
            /\ Fail("Bounds")
         \/ /\ ~Unresolved(f)
            /\ Len(Intent.bytes) = f.len
            /\ Write(SpanOf(f), bytes, Of(f, "replace"), bytes)

Masked(byte, set, clear, start, o) ==
  (byte \cup ByteAt(set, start, o)) \ ByteAt(clear, start, o)

(* The bits are updated in the value as planned so far.                    *)
Updated(f, set, clear) ==
  [o \in SpanOf(f) |-> Masked(Logical(o), set, clear, Locate(parent, f), o)]

UpdateBits ==
  /\ Resolving("bits")
  /\ LET f == Intent.field
         disjoint == Intent.set \cap Intent.clear = {}
         located == f.encoding = "integer" /\ ~Unresolved(f)
     IN  \/ /\ ~disjoint
            /\ Fail("Conflict")
         \/ /\ disjoint
            /\ f.encoding = "bytes"
            /\ Fail("Unsupported")
         \/ /\ disjoint
            /\ f.encoding = "integer"
            /\ Unresolved(f)
            /\ Fail("Resolve")
         \/ /\ disjoint
            /\ located
            /\ ~Fits(Intent.set \cup Intent.clear, f)
            /\ Fail("ValueOverflow")
         \/ /\ disjoint
            /\ located
            /\ Fits(Intent.set \cup Intent.clear, f)
            /\ Write(SpanOf(f), Updated(f, Intent.set, Intent.clear), Of(f, "bits"),
                     [o \in SpanOf(f) |-> Masked(asked[o], Intent.set, Intent.clear,
                                                 Locate(parent, f), o)])

TruncateImage ==
  /\ Resolving("truncate")
  /\ \/ /\ truncate # {}
        /\ Fail("Conflict")
     \/ /\ truncate = {}
        /\ truncate' = {Intent.len}
        /\ todo' = Tail(todo)
        /\ UNCHANGED <<args, writes, stage, status, patches, output, asked>>

-----------------------------------------------------------------------------
(* Length, integrity, patches.                                             *)

Length == Cardinality(DOMAIN parent)
FinalLen == IF truncate = {} THEN Length ELSE CHOOSE n \in truncate : TRUE

CheckLength ==
  /\ stage = "resolve"
  /\ todo = <<>>
  /\ \/ /\ FinalLen > Length
        /\ Fail("Bounds")
     \/ /\ FinalLen <= Length
        /\ \E o \in DOMAIN writes : o >= FinalLen
        /\ Fail("TruncateConflict")
     \/ /\ FinalLen <= Length
        /\ \A o \in DOMAIN writes : o < FinalLen
        /\ stage' = "integrity"
        /\ UNCHANGED <<args, todo, writes, truncate, status, patches, output, asked>>

(* Mutant of CoverageLen: the block size is the parent's.                  *)
CoverageLenOfParent ==
  LET size == BlockSize(parent[BlockBits])
  IN  IF size > Super THEN size - Super ELSE size

(* The block that the checksum covers, as the planned superblock has it.   *)
CoverageLen ==
  LET size == BlockSize(Logical(BlockBits))
  IN  IF size > Super THEN size - Super ELSE size

CoverageEnd == Super + CoverageLen

SettleIntegrity(result) ==
  /\ status' = result
  /\ stage' = "collapse"
  /\ UNCHANGED <<args, todo, truncate, patches, output, asked>>

Leave ==
  /\ stage = "integrity"
  /\ \/ /\ HasChecksum \notin Logical(Feature)
        /\ SettleIntegrity("not_applicable")
     \/ /\ HasChecksum \in Logical(Feature)
        /\ policy = "preserve"
        /\ SettleIntegrity("preserved")
  /\ UNCHANGED writes

Digest ==
  LET crc == Crc([o \in DOMAIN parent |-> Logical(o)], CoverageEnd)
  IN  IF policy = "invalidate" THEN crc \cup {0} ELSE crc

Repair ==
  /\ stage = "integrity"
  /\ HasChecksum \in Logical(Feature)
  /\ policy # "preserve"
  /\ LET meta == Of(ChecksumField, policy)
     IN  \/ /\ CoverageEnd <= Checksum
            /\ Fail("Bounds")
         \/ /\ CoverageEnd > Checksum
            /\ CoverageEnd > FinalLen
            /\ Fail("TruncateConflict")
         \/ /\ CoverageEnd \in (Checksum + 1)..FinalLen
            /\ Clash({Checksum}, meta)
            /\ Fail("Conflict")
         \/ /\ CoverageEnd \in (Checksum + 1)..FinalLen
            /\ ~Clash({Checksum}, meta)
            /\ writes' = AddWrite({Checksum}, [o \in {Checksum} |-> Digest], meta)
            /\ SettleIntegrity("applied")

(* Writes next to each other with the same signature make one patch.       *)
Starts(o) == o \in DOMAIN writes
             /\ (o - 1 \in DOMAIN writes => writes[o - 1].meta # writes[o].meta)

(* Mutant of Run: the last byte of a patch is left out.                    *)
RunShort(o) == {e \in DOMAIN writes :
                  e >= o /\ \A x \in (o + 1)..(e + 1) : x \in DOMAIN writes /\ ~Starts(x)}

Run(o) == {e \in DOMAIN writes :
             e >= o /\ \A x \in (o + 1)..e : x \in DOMAIN writes /\ ~Starts(x)}

PatchAt(o) ==
  [offset |-> o, meta |-> writes[o].meta,
   before |-> [x \in Run(o) |-> writes[x].before],
   after |-> [x \in Run(o) |-> writes[x].after]]

Patches == {PatchAt(o) : o \in {x \in DOMAIN writes : Starts(x)}}

Collapse ==
  /\ stage = "collapse"
  /\ patches' = Patches
  /\ stage' = "apply"
  /\ UNCHANGED <<args, todo, writes, truncate, status, output, asked>>

-----------------------------------------------------------------------------
(* apply_plan_bytes                                                        *)

ApplyPatch ==
  /\ stage = "apply"
  /\ \E p \in patches :
       /\ \A q \in patches : p.offset <= q.offset
       /\ \/ /\ \E o \in DOMAIN p.before : output[o] # p.before[o]
             /\ Fail("Preimage")
          \/ /\ \A o \in DOMAIN p.before : output[o] = p.before[o]
             /\ output' = Overwrite(output, DOMAIN p.after, p.after)
             /\ patches' = patches \ {p}
             /\ UNCHANGED <<args, todo, writes, truncate, stage, status, asked>>

ApplyResize ==
  /\ stage = "apply"
  /\ patches = {}
  /\ output' = [o \in 0..(FinalLen - 1) |-> output[o]]
  /\ stage' = "done"
  /\ UNCHANGED <<args, todo, writes, truncate, status, patches, asked>>

Resolve == Patch \/ SetValue \/ ReplaceFixedBytes \/ UpdateBits \/ TruncateImage
Settle == CheckLength \/ Leave \/ Repair \/ Collapse
Apply == ApplyPatch \/ ApplyResize

Next == Refuse \/ Accept \/ Resolve \/ Settle \/ Apply

Spec == Init /\ [][Next]_vars

-----------------------------------------------------------------------------
(* Correctness.                                                            *)

TypeOK ==
  /\ parent \in Parents
  /\ mode \in Mode
  /\ policy \in Policy
  /\ DOMAIN writes \subseteq DOMAIN parent
  /\ todo \in Seq(Intents)
  /\ truncate \subseteq Nat
  /\ \A m, n \in truncate : m = n
  /\ stage \in {"start", "resolve", "integrity", "collapse", "apply", "done"} \cup Errors
  /\ status \in {"none", "not_applicable", "preserved", "applied"}
  /\ DOMAIN asked = DOMAIN parent
  /\ DOMAIN output \subseteq DOMAIN parent

(* At every moment of planning the recorded writes, which leave out what   *)
(* changes nothing and merge updates of bits, stand for the intents so far,*)
(* applied one after the other: plan and add_write lose none.              *)
Planning == {"start", "resolve", "integrity"}
WritesStandForIntents ==
  stage \in Planning => \A o \in DOMAIN parent : Logical(o) = asked[o]

(* The image that is published is the parent overwritten by the intents in *)
(* their order, but for the checksum where the record says it was repaired:*)
(* collapse_writes and apply_plan_bytes put every byte where it belongs.   *)
OutputIsAsked ==
  stage = "done" =>
    \A o \in DOMAIN output :
      \/ output[o] = asked[o]
      \/ o = Checksum /\ status = "applied" /\ policy # "preserve"

(* apply_integrity: when the image that is published has the checksum      *)
(* feature, its checksum covers the block as published, superblock fields  *)
(* changed by the same plan included, or is one bit off, or is what was    *)
(* asked for, according to the policy.                                     *)
ChecksumIsAsAsked ==
  (stage = "done" /\ {Checksum, Feature, BlockBits} \subseteq DOMAIN output
     /\ HasChecksum \in output[Feature]) =>
    LET size == BlockSize(output[BlockBits])
        crc == Crc(output, IF size > Super THEN size ELSE Super + size)
    IN  CASE policy = "recalculate" -> output[Checksum] = crc
          [] policy = "invalidate" -> output[Checksum] = crc \cup {0}
          [] policy = "preserve" -> output[Checksum] = asked[Checksum]

(* plan refuses to cut off what it was asked to change: a truncated image  *)
(* lacks bytes of the parent only (the test truncate_cannot_remove_patch). *)
NothingAskedIsCutOff ==
  stage = "done" =>
    \A o \in DOMAIN parent \ DOMAIN output : asked[o] = parent[o]

(* A repaired checksum never replaces one that an intent changed (the test *)
(* checksum_user_write_conflicts_with_repair).                             *)
RepairUndoesNoIntent ==
  (stage = "done" /\ status = "applied") => asked[Checksum] = parent[Checksum]

(* Neither the length nor the integrity policy undoes an intent.           *)
NothingAskedIsUndone == NothingAskedIsCutOff /\ RepairUndoesNoIntent

(* A plan that was made can be applied: on its own parent no patch meets a *)
(* byte that another patch has changed, and apply_plan_bytes never reports *)
(* a preimage mismatch.                                                    *)
PlanApplies == stage # "Preimage"
=============================================================================
