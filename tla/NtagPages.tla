----------------------------- MODULE NtagPages ------------------------------
(***************************************************************************)
(* A card's memory, byte for byte, while it is rewritten page by page: the *)
(* layout inspection and page transaction of NtagWriter.h and the NDEF     *)
(* encoding of CardWriter.cpp.  The card may leave the field, or the device*)
(* lose power, between any two pages, and another write may follow.        *)
(*   mem   the user memory from page 4 on, of userBytes bytes              *)
(*   goal, bytes, prefix, next  the write under way: the card wanted, the  *)
(*         image, its untouched prefix and the next step, Off between      *)
(*   old   what the card held before       writes  how many began          *)
(***************************************************************************)
EXTENDS Integers, Sequences, SequencesExt

CONSTANTS
    Sizes,              \* the tags' user memories
    Cards, Originals,   \* for each, the cards to write and those found on it
    MaxWrites
VARIABLES userBytes, mem, goal, bytes, prefix, next, writes, old
ntagVars == <<userBytes, mem, goal, bytes, prefix, next, writes, old>>

Off == -1
Terminator == 254
LockControl == <<1, 3, 160, 12, 52>>     \* ntag213LockControl
Of(x, n) == [k \in 1 .. n |-> x]

----------------------------------------------------------------------------
(* A card is [uri, size, mark]: what it is encoded as, the length of its   *)
(* text and a byte that stands for the text.                               *)
Length(card) == IF card.uri THEN card.size - 7 ELSE card.size + 3

RecordSize(card) == Length(card) + (IF Length(card) < 256 THEN 4 ELSE 7)

\* cardNdef: one record in one message TLV, with the long forms where needed.
cardNdef(card) ==
    LET size == RecordSize(card) short == Length(card) < 256
    IN  <<3>> \o (IF size < 255 THEN <<size>> ELSE <<255, size \div 256, size % 256>>)
        \o <<IF short THEN 209 ELSE 193, 1>>
        \o (IF short THEN <<>> ELSE <<0, 0, Length(card) \div 256>>) \o <<Length(card) % 256>>
        \o (IF card.uri THEN <<85, 4>> \o Of(card.mark, card.size - 8)
            ELSE <<84, 2, 101, 110>> \o Of(card.mark, card.size))
        \o <<Terminator>>

Padded(s) == s \o Of(0, (4 - (Len(s) % 4)) % 4)

PrefixOf(m) == IF userBytes = 144 /\ IsPrefix(LockControl, m) THEN LockControl ELSE <<>>

\* inspectNtagLayout: where the message is and ends, or that it is none.
LengthBytes(m, p) == IF m[p + 2] = 255 THEN 4 ELSE 2
MessageBytes(m, p) == IF m[p + 2] = 255 THEN m[p + 3] * 256 + m[p + 4] ELSE m[p + 2]
TerminatorAt(m, p) == p + LengthBytes(m, p) + MessageBytes(m, p)
Inspected(m, p) == m[p + 1] = 3 /\ TerminatorAt(m, p) < userBytes
\* Nothing may follow the message that a write could destroy.
EndsThere(m, p) == m[TerminatorAt(m, p) + 1] = Terminator

----------------------------------------------------------------------------
(* The reader's side: the one record of the message, by its own lengths.   *)
Empty == <<>>
Unreadable == <<-1>>
At(m, n) == IF n <= Len(m) THEN m[n] ELSE 0

Content(m) ==
    LET p == Len(PrefixOf(m))
        from == p + LengthBytes(m, p)
        short == At(m, from + 1) = 209
        header == IF short THEN 4 ELSE 7
        length == IF short THEN At(m, from + 3)
                  ELSE At(m, from + 5) * 256 + At(m, from + 6)
    IN  CASE ~Inspected(m, p) -> Unreadable
          [] Inspected(m, p) /\ MessageBytes(m, p) = 0 -> Empty
          [] OTHER -> IF header + length = MessageBytes(m, p)
                      THEN SubSeq(m, from + header, from + header + length) ELSE Unreadable

\* What a card holds once it is written.
Written(card) == (IF card.uri THEN <<85, 4>> \o Of(card.mark, card.size - 8)
                  ELSE <<84, 2, 101, 110>> \o Of(card.mark, card.size))

Memory(ndef, lock) ==
    LET image == (IF lock THEN LockControl ELSE <<>>) \o ndef
    IN  image \o Of(0, userBytes - Len(image))

FactoryEmpty == <<3, 0, Terminator>>

\* A link begins with https://, and a text that is found on a tag has its place there.
ASSUME NtagAssumption ==
    /\ \A n \in Sizes : n \in Nat /\ n >= 4 /\ n % 4 = 0
    /\ \A n \in Sizes : \A card \in Cards[n] \cup Originals[n] :
          /\ card \in [uri : BOOLEAN, size : Nat, mark : Nat]
          /\ card.uri => card.size >= 8
    /\ \A n \in Sizes : \A card \in Originals[n] :
          Len(cardNdef(card)) + (IF n = 144 THEN Len(LockControl) ELSE 0) <= n

MemoryInit ==
    /\ userBytes \in Sizes
    /\ \E ndef \in {FactoryEmpty} \cup {cardNdef(card) : card \in Originals[userBytes]},
          lock \in IF userBytes = 144 THEN BOOLEAN ELSE {FALSE} : mem = Memory(ndef, lock)
    /\ goal = CHOOSE card \in Cards[userBytes] : TRUE
    /\ bytes = <<>> /\ prefix = 0 /\ next = Off /\ writes = 0 /\ old = Content(mem)

\* NtagWritePages::begin, after the inspection.
Fits(b) == Len(Padded(b)) <= userBytes

Begin ==
    /\ next = Off /\ writes < MaxWrites
    /\ prefix' = Len(PrefixOf(mem))
    /\ Inspected(mem, prefix') /\ EndsThere(mem, prefix')
    /\ \E card \in Cards[userBytes] :
        /\ Fits(PrefixOf(mem) \o cardNdef(card))
        /\ goal' = card
        /\ bytes' = Padded(PrefixOf(mem) \o cardNdef(card))
    /\ next' = 0 /\ writes' = writes + 1 /\ old' = Content(mem)
    /\ UNCHANGED <<userBytes, mem>>

Commit == prefix \div 4
PageCount == Len(bytes) \div 4
done == next > PageCount - Commit

Image(n) == <<n, SubSeq(bytes, 4 * n + 1, 4 * n + 4)>>

\* A message of length zero, behind the last byte of a prefix.
Void == IF prefix # 0 THEN <<52, 3, 0, Terminator>> ELSE <<3, 0, Terminator, 0>>

\* Mutant: the length is written with the first page.
LengthFirst == Image(IF next \in {0, PageCount - Commit} THEN Commit ELSE next + Commit)

\* page(): the length is voided first and comes back last.
Page ==
    IF next = 0 THEN <<Commit, Void>>
    ELSE Image(IF next = PageCount - Commit THEN Commit ELSE next + Commit)

WritePage ==
    /\ next # Off /\ ~done
    /\ mem' = SubSeq(mem, 1, 4 * Page[1]) \o Page[2] \o SubSeq(mem, 4 * Page[1] + 5, Len(mem))
    /\ next' = next + 1
    /\ UNCHANGED <<userBytes, goal, bytes, prefix, writes, old>>

\* The card is taken away, or the write has come to its end.
End ==
    /\ next # Off
    /\ next' = Off
    /\ UNCHANGED <<userBytes, mem, goal, bytes, prefix, writes, old>>

\* No further write is modelled.
NoMore == next = Off /\ writes = MaxWrites /\ UNCHANGED ntagVars

MemoryNext == Begin \/ WritePage \/ End \/ NoMore
MemorySpec == MemoryInit /\ [][MemoryNext]_ntagVars

----------------------------------------------------------------------------
\* A torn write reads as nothing: at every moment the card holds what it held,
\* is empty, or holds the whole of the new text.
NeverMixed == Content(mem) \in {old, Empty, Written(goal)}

\* The last page makes it complete.
DoneIsWritten == next # Off /\ done => Content(mem) = Written(goal)

\* The factory prefix survives, and wherever a write was torn, the next one can
\* still find the message and its end.
StaysWritable ==
    LET p == Len(PrefixOf(mem))
    IN  /\ userBytes = 144 /\ prefix # 0 => p = prefix
        /\ Inspected(mem, p) /\ EndsThere(mem, p)

\* A torn write reads as nothing, a finished one as the new text, and either card can
\* be written again.
WritesAreSafe == NeverMixed /\ DoneIsWritten /\ StaysWritable
=============================================================================
